---------------------------- MODULE MCLocalRuntime ----------------------------
(* A small instance of LocalRuntime for TLC, in which Stop is called. *)
EXTENDS LocalRuntime

CONSTANTS i1, i2, c1
==============================================================================
