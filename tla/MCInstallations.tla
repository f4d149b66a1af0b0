--------------------------- MODULE MCInstallations ---------------------------
(* Small instances of Installations for TLC. *)
EXTENDS Installations, TLC

CONSTANTS c1, c2, c3, c4, t1, t2, u1, u2

\* Requests are interchangeable, and so are tenants.
Symmetry == Permutations(Calls) \cup Permutations(Tenants)
==============================================================================
