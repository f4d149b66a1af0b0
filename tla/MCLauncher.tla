------------------------------ MODULE MCLauncher ------------------------------
\* Values for checking Launcher: one of the tenants has a version installed when
\* the daemon starts.
EXTENDS Launcher

CONSTANTS c1, c2, v1, v2, r1, r2

OneHasIt == {[c \in Tenants |-> IF c = c1 THEN v1 ELSE None]}
==============================================================================
