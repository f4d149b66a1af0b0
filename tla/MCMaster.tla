------------------------------- MODULE MCMaster -------------------------------
(* Small instances of Master for TLC. *)
EXTENDS Master

CONSTANTS n1, n2, n3
==============================================================================
