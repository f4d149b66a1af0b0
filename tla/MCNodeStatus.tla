----------------------------- MODULE MCNodeStatus -----------------------------
(* Small instances of NodeStatus for TLC. *)
EXTENDS NodeStatus, TLC

CONSTANTS n1, n2, n3
==============================================================================
