------------------------------- MODULE Channel -------------------------------
(***************************************************************************)
(* What a stream promises its users, without locks, signals or hooks: a    *)
(* bounded queue that accepts items until it is shut, hands them out in    *)
(* order, each one once, and announces its end only when it is shut and    *)
(* everything accepted has been handed out.  Stream implements it.         *)
(***************************************************************************)
EXTENDS Integers, Sequences

CONSTANTS Producers, Capacity

VARIABLES
  in,     \* the items accepted so far
  out,    \* the items handed out so far
  open,   \* items may still be accepted
  ended   \* the end has been announced

vars == <<in, out, open, ended>>

Init == in = << >> /\ out = << >> /\ open = TRUE /\ ended = FALSE

\* Write or WriteBlocking accepts an item.
Put(p) ==
  /\ open /\ Len(in) - Len(out) < Capacity
  /\ in' = Append(in, p)
  /\ UNCHANGED <<out, open, ended>>

\* Read hands out the next item.
Take ==
  /\ Len(out) < Len(in)
  /\ out' = Append(out, in[Len(out) + 1])
  /\ UNCHANGED <<in, open, ended>>

\* close
Shut ==
  /\ open /\ open' = FALSE
  /\ UNCHANGED <<in, out, ended>>

\* Next answers false.
End ==
  /\ ~open /\ in = out
  /\ ended' = TRUE
  /\ UNCHANGED <<in, out, open>>

Next == (\E p \in Producers : Put(p)) \/ Take \/ Shut \/ End

Spec == Init /\ [][Next]_vars
==============================================================================
