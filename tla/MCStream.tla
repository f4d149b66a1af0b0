------------------------------- MODULE MCStream -------------------------------
(* A small instance of Stream for TLC; its liveness is checked by MCProgress.      *)
EXTENDS Stream

CONSTANTS p1, p2, c1, x1, h1, h2
==============================================================================
