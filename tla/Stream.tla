-------------------------------- MODULE Stream --------------------------------
(***************************************************************************)
(* pkg/utils/stream/stream.go: the bounded queue that carries the messages *)
(* of a session between goroutines.  Producers call Write, WriteBlocking   *)
(* and WriteError, consumers loop over Next and Read, and anyone may close *)
(* the stream or register hooks.                                           *)
(*                                                                         *)
(* A critical section of r.l is one action; the atomic state word, the     *)
(* one-slot channel sig, the channel done and the condition variable       *)
(* writeCond are shared between the actions.  The CAS in close does not    *)
(* take r.l: a section that has just seen the stream open may end after    *)
(* it, and overtaken allows for that one section.  An item is named after  *)
(* the producer that wrote it.                                             *)
(***************************************************************************)
EXTENDS Integers, Sequences, FiniteSets

CONSTANTS
  Producers, Consumers, Closers,
  Hooks,       \* functions passed to OnClose or BeforeClose
  Capacity,    \* r.max
  MaxWrites,   \* bound: items ever accepted
  MaxErrors,   \* bound: errors ever written
  None

ASSUME StreamAssumption ==
  /\ Producers \cap Consumers = {}
  /\ Closers \cap (Producers \cup Consumers) = {}
  /\ None \notin Producers \cup Consumers \cup Closers
  /\ IsFiniteSet(Producers)
  /\ Capacity \in Nat \ {0}
  /\ MaxWrites \in Nat /\ MaxErrors \in Nat

VARIABLES
  q,          \* r.q
  state,      \* r.closed: "open", "closing" or "closed"
  err,        \* r.err # nil
  sig,        \* r.sig holds a token
  done,       \* r.done is closed
  waiting,    \* producers parked in writeCond.Wait
  filtered,   \* a filter is registered
  hook,       \* what became of each hook
  closer,     \* the goroutine that won the CAS in close, or None
  stage,      \* where that goroutine is
  closeErr,   \* close was given an error
  overtaken,  \* a section that saw the stream open may still be in progress
  pc,         \* producers and consumers
  accepted,   \* history: items pushed, in order
  delivered,  \* history: items popped, in order
  errors      \* history: number of WriteError calls, for the bound

vars == <<q, state, err, sig, done, waiting, filtered, hook, closer, stage,
          closeErr, overtaken, pc, accepted, delivered, errors>>

Threads == Producers \cup Consumers
hooks   == <<filtered, hook>>
closing == <<closer, stage, closeErr>>
history == <<accepted, delivered, errors>>

ProducerPCs == {"idle", "block", "signal"}
ConsumerPCs == {"next", "select", "read", "filter", "close", "ended", "stopped"}
Stages == {"none", "broadcast", "before", "take", "run", "done", "end"}
HookStates == {"new", "before", "beforeRun", "queued", "batch", "inline", "ran"}

Goto(t, l) == pc' = [pc EXCEPT ![t] = l]

------------------------------------------------------------------------------
Init ==
  /\ q = << >> /\ state = "open" /\ err = FALSE
  /\ sig = FALSE /\ done = FALSE /\ waiting = {}
  /\ filtered = FALSE /\ hook = [h \in Hooks |-> "new"]
  /\ closer = None /\ stage = "none" /\ closeErr = FALSE
  /\ overtaken = FALSE
  /\ pc = [t \in Threads |-> IF t \in Producers THEN "idle" ELSE "next"]
  /\ accepted = << >> /\ delivered = << >> /\ errors = 0

------------------------------------------------------------------------------
\* Producers

\* Mutant: the state is not looked at.
SawOpen_Unchecked == UNCHANGED overtaken

\* What a section under r.l sees: the stream is open, or was when it looked.
SawOpen ==
  \/ state = "open" /\ UNCHANGED overtaken
  \/ overtaken /\ overtaken' = FALSE

\* Mutant: nobody is told.
Push_Silent(p) ==
  /\ q' = Append(q, p) /\ accepted' = Append(accepted, p)
  /\ Goto(p, "idle")

\* Mutant: the item goes to the head of the list.
Push_Front(p) ==
  /\ q' = <<p>> \o q /\ accepted' = Append(accepted, p)
  /\ Goto(p, "signal")

\* PushBack
Push(p) ==
  /\ q' = Append(q, p)
  /\ accepted' = Append(accepted, p)
  /\ Goto(p, "signal")

\* Write: a closed stream swallows the item, a full one refuses it.  Only the
\* accepted write changes the state.
Write(p) ==
  /\ pc[p] = "idle"
  /\ Len(accepted) < MaxWrites
  /\ SawOpen /\ Len(q) < Capacity
  /\ Push(p)
  /\ UNCHANGED <<state, err, sig, done, waiting, hooks, closing, delivered, errors>>

\* WriteBlocking, up to the lock.
BeginWriteBlocking(p) ==
  /\ pc[p] = "idle"
  /\ Len(accepted) < MaxWrites
  /\ state = "open"
  /\ Goto(p, "block")
  /\ UNCHANGED <<q, state, err, sig, done, waiting, hooks, closing, overtaken, history>>

\* WriteBlocking, each time it holds the lock: wait while the stream is full and
\* open, give up when it is not open, and push otherwise.
WriteBlocking(p) ==
  /\ pc[p] = "block" /\ p \notin waiting
  /\ \/ /\ SawOpen /\ Len(q) >= Capacity
        /\ waiting' = waiting \cup {p}
        /\ UNCHANGED <<q, pc, accepted>>
     \/ /\ state # "open"
        /\ Goto(p, "idle")
        /\ UNCHANGED <<q, waiting, accepted, overtaken>>
     \/ /\ SawOpen /\ Len(q) < Capacity
        /\ Push(p)
        /\ UNCHANGED waiting
  /\ UNCHANGED <<state, err, sig, done, hooks, closing, delivered, errors>>

WriteError(p) ==
  /\ pc[p] = "idle"
  /\ errors < MaxErrors
  /\ SawOpen
  /\ err' = TRUE /\ errors' = errors + 1
  /\ Goto(p, "signal")
  /\ UNCHANGED <<q, state, sig, done, waiting, hooks, closing, accepted, delivered>>

\* signal, after the lock is released: a full channel already has the token.
Signal(p) ==
  /\ pc[p] = "signal"
  /\ sig' = TRUE
  /\ Goto(p, "idle")
  /\ UNCHANGED <<q, state, err, done, waiting, hooks, closing, overtaken, history>>

------------------------------------------------------------------------------
\* Consumers

\* r.err is hidden from readers while the close hooks run.
ErrVisible == err /\ state # "closing"

\* Mutant: the end is announced while the close hooks still run.
StreamNext_Early(c) ==
  /\ pc[c] = "next"
  /\ Goto(c, IF Len(q) > 0 \/ ErrVisible THEN "read"
             ELSE IF state # "open" THEN "ended" ELSE "select")
  /\ UNCHANGED <<q, state, err, sig, done, waiting, hooks, closing, overtaken, history>>

\* One round of the loop in Next, up to the select.
StreamNext(c) ==
  /\ pc[c] = "next"
  /\ Goto(c, IF Len(q) > 0 \/ ErrVisible THEN "read"
             ELSE IF state = "closed" THEN "ended" ELSE "select")
  /\ UNCHANGED <<q, state, err, sig, done, waiting, hooks, closing, overtaken, history>>

\* The select in Next: a token, or the closed channel done.
Select(c) ==
  /\ pc[c] = "select"
  /\ \/ sig /\ sig' = FALSE
     \/ done /\ UNCHANGED sig
  /\ Goto(c, "next")
  /\ UNCHANGED <<q, state, err, done, waiting, hooks, closing, overtaken, history>>

\* Mutant: Read forgets writeCond.Signal.
WakeOne_Forgotten == UNCHANGED waiting

\* writeCond.Signal wakes one waiting producer, if there is one.
WakeOne ==
  \/ waiting = {} /\ UNCHANGED waiting
  \/ \E p \in waiting : waiting' = waiting \ {p}

\* After an error a caller either leaves its loop, as Process does, or goes on.
AfterError(c) == \E l \in {"stopped", "next"} : Goto(c, l)

\* Read: an item, else the error (which is consumed), else ErrEmpty.
Read(c) ==
  /\ pc[c] = "read"
  /\ \/ /\ Len(q) > 0
        /\ q' = Tail(q)
        /\ delivered' = Append(delivered, Head(q))
        /\ WakeOne
        /\ Goto(c, IF filtered THEN "filter" ELSE "next")
        /\ UNCHANGED err
     \/ /\ Len(q) = 0
        /\ err' = (err /\ ~ErrVisible)
        /\ AfterError(c)
        /\ UNCHANGED <<q, waiting, delivered>>
  /\ UNCHANGED <<state, sig, done, hooks, closing, overtaken, accepted, errors>>

\* The filters of Read run without the lock; one that fails closes the stream.
FilterPasses(c) ==
  /\ pc[c] = "filter"
  /\ Goto(c, "next")
  /\ UNCHANGED <<q, state, err, sig, done, waiting, hooks, closing, overtaken, history>>

FilterFails(c) ==
  /\ pc[c] = "filter"
  /\ IF state = "open"
       THEN /\ state' = "closing" /\ closer' = c /\ stage' = "broadcast"
            /\ overtaken' = TRUE
            /\ Goto(c, "close")
       ELSE /\ UNCHANGED <<state, closer, stage, overtaken>>
            /\ AfterError(c)
  /\ UNCHANGED <<q, err, sig, done, waiting, hooks, closeErr, history>>

\* A consumer that closed the stream returns from Read when close returns.
ReturnFromClose(c) ==
  /\ pc[c] = "close" /\ stage = "end"
  /\ AfterError(c)
  /\ UNCHANGED <<q, state, err, sig, done, waiting, hooks, closing, overtaken, history>>

------------------------------------------------------------------------------
\* close: Close and CloseWithError

\* Mutant: every caller goes on.
CloseCAS_Twice(x) ==
  /\ state' = "closing" /\ closer' = x /\ stage' = "broadcast"
  /\ closeErr' \in BOOLEAN /\ overtaken' = TRUE
  /\ UNCHANGED <<q, err, sig, done, waiting, hooks, pc, history>>

\* Only the first caller wins the CAS.
CloseCAS(x) ==
  /\ state = "open"
  /\ state' = "closing" /\ closer' = x /\ stage' = "broadcast"
  /\ closeErr' \in BOOLEAN /\ overtaken' = TRUE
  /\ UNCHANGED <<q, err, sig, done, waiting, hooks, pc, history>>

\* Mutant: close forgets writeCond.Broadcast.
CloseBroadcast_Forgotten ==
  /\ stage = "broadcast"
  /\ err' = (err \/ closeErr)
  /\ hook' = [h \in Hooks |-> IF hook[h] = "before" THEN "beforeRun" ELSE hook[h]]
  /\ stage' = "before" /\ overtaken' = FALSE
  /\ UNCHANGED <<q, state, sig, done, waiting, filtered, closer, closeErr, pc, history>>

\* The first critical section: the error, the copy of beforeClose, and the
\* broadcast that releases every blocked producer.
CloseBroadcast ==
  /\ stage = "broadcast"
  /\ err' = (err \/ closeErr)
  /\ hook' = [h \in Hooks |-> IF hook[h] = "before" THEN "beforeRun" ELSE hook[h]]
  /\ waiting' = {}
  /\ stage' = "before" /\ overtaken' = FALSE
  /\ UNCHANGED <<q, state, sig, done, filtered, closer, closeErr, pc, history>>

RunBeforeClose ==
  /\ stage = "before"
  /\ IF \E h \in Hooks : hook[h] = "beforeRun"
       THEN /\ \E h \in {g \in Hooks : hook[g] = "beforeRun"} :
                 hook' = [hook EXCEPT ![h] = "ran"]
            /\ UNCHANGED stage
       ELSE stage' = "take" /\ UNCHANGED hook
  /\ UNCHANGED <<q, state, err, sig, done, waiting, filtered, closer, closeErr, overtaken, pc, history>>

\* The loop over onClose: take all registered hooks, or finish when none is left.
TakeOnClose ==
  /\ stage = "take"
  /\ IF \E h \in Hooks : hook[h] = "queued"
       THEN /\ hook' = [h \in Hooks |-> IF hook[h] = "queued" THEN "batch" ELSE hook[h]]
            /\ stage' = "run"
            /\ UNCHANGED state
       ELSE /\ state' = "closed" /\ stage' = "done"
            /\ UNCHANGED hook
  /\ UNCHANGED <<q, err, sig, done, waiting, filtered, closer, closeErr, overtaken, pc, history>>

RunOnClose ==
  /\ stage = "run"
  /\ IF \E h \in Hooks : hook[h] = "batch"
       THEN /\ \E h \in {g \in Hooks : hook[g] = "batch"} :
                 hook' = [hook EXCEPT ![h] = "ran"]
            /\ UNCHANGED stage
       ELSE stage' = "take" /\ UNCHANGED hook
  /\ UNCHANGED <<q, state, err, sig, done, waiting, filtered, closer, closeErr, overtaken, pc, history>>

\* close(r.done), after the lock is released.
CloseDone ==
  /\ stage = "done"
  /\ done' = TRUE /\ stage' = "end"
  /\ UNCHANGED <<q, state, err, sig, waiting, hooks, closer, closeErr, overtaken, pc, history>>

------------------------------------------------------------------------------
\* Registration

OnClose(h) ==
  /\ hook[h] = "new"
  /\ hook' = [hook EXCEPT ![h] = IF state = "closed" THEN "inline" ELSE "queued"]
  /\ UNCHANGED <<q, state, err, sig, done, waiting, filtered, closing, overtaken, pc, history>>

\* OnClose of a closed stream calls the function itself.
RunInline(h) ==
  /\ hook[h] = "inline"
  /\ hook' = [hook EXCEPT ![h] = "ran"]
  /\ UNCHANGED <<q, state, err, sig, done, waiting, filtered, closing, overtaken, pc, history>>

BeforeClose(h) ==
  /\ hook[h] = "new" /\ SawOpen
  /\ hook' = [hook EXCEPT ![h] = "before"]
  /\ UNCHANGED <<q, state, err, sig, done, waiting, filtered, closing, pc, history>>

Filter ==
  /\ ~filtered /\ SawOpen
  /\ filtered' = TRUE
  /\ UNCHANGED <<q, state, err, sig, done, waiting, hook, closing, pc, history>>

------------------------------------------------------------------------------
ProducerStep(p) == WriteBlocking(p) \/ Signal(p)
ConsumerStep(c) ==
  \/ StreamNext(c) \/ Select(c) \/ Read(c)
  \/ FilterPasses(c) \/ FilterFails(c) \/ ReturnFromClose(c)
CloseStep == CloseBroadcast \/ RunBeforeClose \/ TakeOnClose \/ RunOnClose \/ CloseDone

Next ==
  \/ \E p \in Producers :
       Write(p) \/ BeginWriteBlocking(p) \/ WriteError(p) \/ ProducerStep(p)
  \/ \E c \in Consumers : ConsumerStep(c)
  \/ \E x \in Closers : CloseCAS(x)
  \/ CloseStep
  \/ \E h \in Hooks : OnClose(h) \/ RunInline(h) \/ BeforeClose(h)
  \/ Filter

\* A running goroutine is scheduled, hooks return, and a consumer keeps reading
\* until it is told to stop.  Nobody is obliged to write or to close.
Fairness ==
  /\ \A p \in Producers : WF_vars(ProducerStep(p))
  /\ \A c \in Consumers : WF_vars(ConsumerStep(c))
  /\ WF_vars(CloseStep)

Spec == Init /\ [][Next]_vars /\ Fairness

------------------------------------------------------------------------------
TypeOK ==
  /\ q \in Seq(Producers)
  /\ state \in {"open", "closing", "closed"}
  /\ err \in BOOLEAN /\ sig \in BOOLEAN /\ done \in BOOLEAN
  /\ waiting \in SUBSET Producers
  /\ filtered \in BOOLEAN
  /\ hook \in [Hooks -> HookStates]
  /\ closer \in Consumers \cup Closers \cup {None}
  /\ stage \in Stages /\ closeErr \in BOOLEAN /\ overtaken \in BOOLEAN
  /\ pc \in [Threads -> ProducerPCs \cup ConsumerPCs]
  /\ accepted \in Seq(Producers) /\ delivered \in Seq(Producers)
  /\ errors \in Nat

\* What was delivered and what is still queued is exactly what was accepted, in
\* order, and the queue never exceeds its limit, whoever closes it and whenever.
FIFO == accepted = delivered \o q /\ Len(q) <= Capacity

\* Next answers false only when nothing can follow: no item is left, none will
\* be accepted, and every hook registered before the end has run.
EndIsFinal ==
  \A c \in Consumers : pc[c] = "ended" =>
    /\ state = "closed" /\ q = << >>
    /\ \A h \in Hooks : hook[h] \in {"new", "inline", "ran"}

\* A lone consumer parked in the select of Next is never left with an item, or
\* an error it may see, and nobody about to wake it.
NoLostWakeup ==
  \A c \in Consumers :
    pc[c] = "select" /\ (Len(q) > 0 \/ ErrVisible) =>
      sig \/ done \/ stage = "done" \/ \E p \in Producers : pc[p] = "signal"

\* While the stream is open, free slots are matched by producers already woken
\* (or just starting) whenever one still waits, so a waiting producer is never
\* forgotten beside free space; after close none is left waiting once the
\* broadcast is over.
NoForgottenWriter ==
  waiting # {} =>
    IF state = "open"
      THEN Capacity - Len(q) <= Cardinality({p \in Producers \ waiting : pc[p] = "block"})
      ELSE stage = "broadcast"

\* After close every blocked producer returns, and every consumer that does not
\* stop by itself is told the end, with the buffered items read first.
CloseReleasesAll ==
  state = "closing" ~> /\ done
                       /\ \A p \in Producers : pc[p] = "idle"
                       /\ \A c \in Consumers : pc[c] \in {"ended", "stopped"}

\* The stream is a bounded queue with an end that is final (module Channel): what
\* the close hooks, the signals and the woken producers do in between is not
\* seen by its users.
Channel == INSTANCE Channel WITH
  in <- accepted, out <- delivered,
  open <- stage \in {"none", "broadcast"},
  ended <- \E c \in Consumers : pc[c] = "ended"

ImplementsChannel == Channel!Spec

\* No step runs a hook twice or un-runs it; the phases only move forward; and
\* nothing is accepted once close has started to run the hooks.
Forward ==
  [][ /\ \A h \in Hooks : hook[h] = "ran" => hook'[h] = "ran"
      /\ state = "closing" => state' # "open"
      /\ state = "closed" => state' = "closed"
      /\ stage \notin {"none", "broadcast"} => accepted' = accepted ]_vars
==============================================================================
