----------------------------- MODULE StreamProofs -----------------------------
(***************************************************************************)
(* Proofs about module Stream, for any number of producers, closers and    *)
(* hooks and any capacity: the order and the completeness of delivery, the *)
(* finality of the end, no forgotten producer, no lost wakeup of a lone    *)
(* consumer, and that the stream implements module Channel.                *)
(***************************************************************************)
EXTENDS Stream, FiniteSetTheorems, TLAPS

\* Each thread is at a place of its own kind; who waits is in WriteBlocking.
Placed ==
  /\ \A p \in Producers : pc[p] \in ProducerPCs
  /\ \A c \in Consumers : pc[c] \in ConsumerPCs
  /\ \A p \in waiting : pc[p] = "block"

Typed == TypeOK /\ Placed

LEMMA TypedStep == ASSUME Typed, [Next]_vars PROVE Typed'
<1> USE StreamAssumption
    DEF Typed, TypeOK, Placed, Goto, Threads, ProducerPCs, ConsumerPCs, Stages, HookStates,
        hooks, closing, history
<1>1. ASSUME NEW p \in Producers, Write(p) PROVE Typed'
  <2>1. overtaken' \in BOOLEAN
    BY <1>1, Zenon DEF Write, Push, SawOpen
  <2> QED
    BY <1>1, <2>1 DEF Write, Push
<1>2. ASSUME NEW p \in Producers, BeginWriteBlocking(p) PROVE Typed'
  BY <1>2 DEF BeginWriteBlocking
<1>3. ASSUME NEW p \in Producers, WriteBlocking(p) PROVE Typed'
  <2>1. overtaken' \in BOOLEAN
    BY <1>3, Zenon DEF WriteBlocking, Push, SawOpen
  <2>2. /\ UNCHANGED <<state, err, sig, done, hooks, closing, delivered, errors>>
        /\ pc[p] = "block"
    BY <1>3 DEF WriteBlocking
  <2>3. CASE UNCHANGED <<q, pc, accepted>> /\ waiting' = waiting \cup {p}
    BY <2>1, <2>2, <2>3
  <2>4. CASE UNCHANGED <<q, waiting, accepted, overtaken>> /\ p \notin waiting /\ Goto(p, "idle")
    BY <2>1, <2>2, <2>4
  <2>5. CASE Push(p) /\ UNCHANGED waiting /\ p \notin waiting
    BY <2>1, <2>2, <2>5 DEF Push
  <2> QED
    BY <1>3, <2>3, <2>4, <2>5 DEF WriteBlocking
<1>4. ASSUME NEW p \in Producers, WriteError(p) PROVE Typed'
  <2>1. overtaken' \in BOOLEAN
    BY <1>4, Zenon DEF WriteError, SawOpen
  <2> QED
    BY <1>4, <2>1 DEF WriteError
<1>5. ASSUME NEW p \in Producers, Signal(p) PROVE Typed'
  BY <1>5 DEF Signal
<1>6. ASSUME NEW c \in Consumers, StreamNext(c) PROVE Typed'
  BY <1>6 DEF StreamNext, ErrVisible
<1>7. ASSUME NEW c \in Consumers, Select(c) PROVE Typed'
  <2>1. sig' \in BOOLEAN
    BY <1>7, Zenon DEF Select
  <2>2. UNCHANGED <<q, state, err, done, waiting, hooks, closing, overtaken, history>> /\ Goto(c, "next")
    BY <1>7 DEF Select
  <2> QED
    BY <2>1, <2>2
<1>8. ASSUME NEW c \in Consumers, Read(c) PROVE Typed'
  <2>1. err' \in BOOLEAN
    BY <1>8, Zenon DEF Read, ErrVisible
  <2>2. waiting' \in SUBSET waiting
    BY <1>8 DEF Read, WakeOne
  <2>3. q' \in Seq(Producers) /\ delivered' \in Seq(Producers)
    <3>1. CASE Len(q) > 0
      <4>1. Head(q) \in Producers /\ Tail(q) \in Seq(Producers)
        BY <3>1
      <4>2. q' = Tail(q) /\ delivered' = Append(delivered, Head(q))
        BY <1>8, <3>1 DEF Read
      <4> QED
        BY <4>1, <4>2
    <3>2. CASE Len(q) = 0
      BY <1>8, <3>2 DEF Read
    <3> QED
      BY <3>1, <3>2
  <2>4. \E l \in ConsumerPCs : Goto(c, l)
    BY <1>8 DEF Read, AfterError
  <2>5. UNCHANGED <<state, sig, done, hooks, closing, overtaken, accepted, errors>>
    BY <1>8 DEF Read
  <2> QED
    BY <2>1, <2>2, <2>3, <2>4, <2>5
<1>9. ASSUME NEW c \in Consumers, FilterPasses(c) PROVE Typed'
  BY <1>9 DEF FilterPasses
<1>10. ASSUME NEW c \in Consumers, FilterFails(c) PROVE Typed'
  <2>1. overtaken' \in BOOLEAN
    BY <1>10, Zenon DEF FilterFails
  <2>2. /\ state' \in {"open", "closing", "closed"} /\ stage' \in Stages
        /\ closer' \in Consumers \cup Closers \cup {None}
    BY <1>10 DEF FilterFails
  <2>3. \E l \in ConsumerPCs : Goto(c, l)
    BY <1>10 DEF FilterFails, AfterError
  <2>4. UNCHANGED <<q, err, sig, done, waiting, hooks, closeErr, history>>
    BY <1>10 DEF FilterFails
  <2> QED
    BY <2>1, <2>2, <2>3, <2>4
<1>11. ASSUME NEW c \in Consumers, ReturnFromClose(c) PROVE Typed'
  BY <1>11 DEF ReturnFromClose, AfterError
<1>12. ASSUME NEW x \in Closers, CloseCAS(x) PROVE Typed'
  BY <1>12 DEF CloseCAS
<1>13. CASE CloseBroadcast
  BY <1>13 DEF CloseBroadcast
<1>14. CASE RunBeforeClose
  BY <1>14 DEF RunBeforeClose
<1>15. CASE TakeOnClose
  BY <1>15 DEF TakeOnClose
<1>16. CASE RunOnClose
  BY <1>16 DEF RunOnClose
<1>17. CASE CloseDone
  BY <1>17 DEF CloseDone
<1>18. ASSUME NEW h \in Hooks, OnClose(h) PROVE Typed'
  BY <1>18 DEF OnClose
<1>19. ASSUME NEW h \in Hooks, RunInline(h) PROVE Typed'
  BY <1>19 DEF RunInline
<1>20. ASSUME NEW h \in Hooks, BeforeClose(h) PROVE Typed'
  <2>1. overtaken' \in BOOLEAN
    BY <1>20, Zenon DEF BeforeClose, SawOpen
  <2> QED
    BY <1>20, <2>1 DEF BeforeClose
<1>21. CASE Filter
  BY <1>21 DEF Filter, SawOpen
<1>22. CASE UNCHANGED vars
  BY <1>22 DEF vars
<1> QED
  BY <1>1, <1>2, <1>3, <1>4, <1>5, <1>6, <1>7, <1>8, <1>9, <1>10, <1>11,
     <1>12, <1>13, <1>14, <1>15, <1>16, <1>17, <1>18, <1>19, <1>20, <1>21,
     <1>22
     DEF Next, ProducerStep, ConsumerStep, CloseStep

\* Every reachable state has its type.
THEOREM StreamType == Spec => []Typed
<1>1. Init => Typed
  <2> SUFFICES ASSUME Init PROVE Typed
    OBVIOUS
  <2>1. /\ err \in BOOLEAN /\ sig \in BOOLEAN /\ done \in BOOLEAN
        /\ filtered \in BOOLEAN /\ closeErr \in BOOLEAN /\ overtaken \in BOOLEAN
    BY Zenon DEF Init
  <2>2. /\ q \in Seq(Producers) /\ accepted \in Seq(Producers)
        /\ delivered \in Seq(Producers) /\ errors \in Nat
    BY DEF Init
  <2>3. /\ state \in {"open", "closing", "closed"} /\ waiting \in SUBSET Producers
        /\ hook \in [Hooks -> HookStates] /\ stage \in Stages
        /\ closer \in Consumers \cup Closers \cup {None}
    BY DEF Init, HookStates, Stages
  <2>4. pc \in [Threads -> ProducerPCs \cup ConsumerPCs] /\ Placed
    BY StreamAssumption DEF Init, Placed, Threads, ProducerPCs, ConsumerPCs
  <2> QED
    BY <2>1, <2>2, <2>3, <2>4 DEF Typed, TypeOK
<1> QED
  BY <1>1, TypedStep, PTL DEF Spec

------------------------------------------------------------------------------
\* How far close has come, and which hooks it has dealt with by then.
Closing ==
  /\ (state = "open") <=> (stage = "none")
  /\ (state = "closed") <=> (stage \in {"done", "end"})
  /\ overtaken => stage = "broadcast"
  /\ \A h \in Hooks :
       /\ hook[h] = "before" => stage \in {"none", "broadcast"}
       /\ hook[h] = "beforeRun" => stage = "before"
       /\ hook[h] = "batch" => stage = "run"
       /\ hook[h] = "queued" => stage \notin {"done", "end"}

LEMMA ClosingStep == ASSUME Typed, Closing, [Next]_vars PROVE Closing'
<1> USE StreamAssumption DEF Typed, TypeOK, Closing, Goto, Stages, HookStates, hooks, closing, history
<1>1. ASSUME NEW p \in Producers, Write(p) PROVE Closing'
  BY <1>1 DEF Write, Push, SawOpen
<1>2. ASSUME NEW p \in Producers, BeginWriteBlocking(p) PROVE Closing'
  BY <1>2 DEF BeginWriteBlocking
<1>3. ASSUME NEW p \in Producers, WriteBlocking(p) PROVE Closing'
  BY <1>3 DEF WriteBlocking, Push, SawOpen
<1>4. ASSUME NEW p \in Producers, WriteError(p) PROVE Closing'
  BY <1>4 DEF WriteError, SawOpen
<1>5. ASSUME NEW p \in Producers, Signal(p) PROVE Closing'
  BY <1>5 DEF Signal
<1>6. ASSUME NEW c \in Consumers, StreamNext(c) PROVE Closing'
  BY <1>6 DEF StreamNext, ErrVisible
<1>7. ASSUME NEW c \in Consumers, Select(c) PROVE Closing'
  BY <1>7 DEF Select
<1>8. ASSUME NEW c \in Consumers, Read(c) PROVE Closing'
  BY <1>8 DEF Read, ErrVisible, WakeOne, AfterError
<1>9. ASSUME NEW c \in Consumers, FilterPasses(c) PROVE Closing'
  BY <1>9 DEF FilterPasses
<1>10. ASSUME NEW c \in Consumers, FilterFails(c) PROVE Closing'
  BY <1>10 DEF FilterFails, AfterError
<1>11. ASSUME NEW c \in Consumers, ReturnFromClose(c) PROVE Closing'
  BY <1>11 DEF ReturnFromClose, AfterError
<1>12. ASSUME NEW x \in Closers, CloseCAS(x) PROVE Closing'
  BY <1>12 DEF CloseCAS
<1>13. CASE CloseBroadcast
  BY <1>13 DEF CloseBroadcast
<1>14. CASE RunBeforeClose
  BY <1>14 DEF RunBeforeClose
<1>15. CASE TakeOnClose
  BY <1>15 DEF TakeOnClose
<1>16. CASE RunOnClose
  BY <1>16 DEF RunOnClose
<1>17. CASE CloseDone
  BY <1>17 DEF CloseDone
<1>18. ASSUME NEW h \in Hooks, OnClose(h) PROVE Closing'
  BY <1>18 DEF OnClose
<1>19. ASSUME NEW h \in Hooks, RunInline(h) PROVE Closing'
  BY <1>19 DEF RunInline
<1>20. ASSUME NEW h \in Hooks, BeforeClose(h) PROVE Closing'
  BY <1>20 DEF BeforeClose, SawOpen
<1>21. CASE Filter
  BY <1>21 DEF Filter, SawOpen
<1>22. CASE UNCHANGED vars
  BY <1>22 DEF vars
<1> QED
  BY <1>1, <1>2, <1>3, <1>4, <1>5, <1>6, <1>7, <1>8, <1>9, <1>10, <1>11,
     <1>12, <1>13, <1>14, <1>15, <1>16, <1>17, <1>18, <1>19, <1>20, <1>21,
     <1>22
     DEF Next, ProducerStep, ConsumerStep, CloseStep

THEOREM ClosingHolds == Spec => []Closing
<1>1. Init => Closing
  BY DEF Init, Closing
<1> QED
  BY <1>1, StreamType, ClosingStep, PTL DEF Spec

------------------------------------------------------------------------------
\* Moving the head of the queue to the end of what was delivered keeps the whole.
LEMMA MoveHead ==
  ASSUME NEW d \in Seq(Producers), NEW r \in Seq(Producers), r # << >>
  PROVE  Append(d, Head(r)) \o Tail(r) = d \o r
  OBVIOUS

LEMMA AppendRight ==
  ASSUME NEW d \in Seq(Producers), NEW r \in Seq(Producers), NEW e \in Producers
  PROVE  Append(d \o r, e) = d \o Append(r, e)
  OBVIOUS

LEMMA PushKeeps ==
  ASSUME Typed, FIFO, NEW p \in Producers, Len(q) < Capacity, Push(p), delivered' = delivered
  PROVE  FIFO'
<1>1. q \in Seq(Producers) /\ delivered \in Seq(Producers)
  BY DEF Typed, TypeOK
<1>2. Append(delivered \o q, p) = delivered \o Append(q, p)
  BY <1>1, AppendRight, Zenon
<1>3. Len(Append(q, p)) = Len(q) + 1 /\ Len(q) \in Nat
  BY <1>1
<1> QED
  BY StreamAssumption, <1>2, <1>3 DEF Push, FIFO

LEMMA FIFOStep == ASSUME Typed, Closing, FIFO, [Next]_vars PROVE FIFO'
<1> USE StreamAssumption DEF FIFO, Goto, hooks, closing, history
<1>1. ASSUME NEW p \in Producers, Write(p) PROVE FIFO'
  <2>1. Len(q) < Capacity /\ Push(p) /\ delivered' = delivered
    BY <1>1 DEF Write
  <2> QED
    BY <1>1, <2>1, PushKeeps
<1>2. ASSUME NEW p \in Producers, BeginWriteBlocking(p) PROVE FIFO'
  BY <1>2 DEF BeginWriteBlocking
<1>3. ASSUME NEW p \in Producers, WriteBlocking(p) PROVE FIFO'
  <2>1. delivered' = delivered
    BY <1>3 DEF WriteBlocking
  <2>2. CASE UNCHANGED <<q, accepted>>
    BY <2>1, <2>2
  <2>3. CASE Len(q) < Capacity /\ Push(p)
    BY <1>3, <2>1, <2>3, PushKeeps
  <2>4. UNCHANGED <<q, accepted>> \/ (Len(q) < Capacity /\ Push(p))
    BY <1>3 DEF WriteBlocking
  <2> QED
    BY <2>2, <2>3, <2>4
<1>4. ASSUME NEW p \in Producers, WriteError(p) PROVE FIFO'
  BY <1>4 DEF WriteError, SawOpen
<1>5. ASSUME NEW p \in Producers, Signal(p) PROVE FIFO'
  BY <1>5 DEF Signal
<1>6. ASSUME NEW c \in Consumers, StreamNext(c) PROVE FIFO'
  BY <1>6 DEF StreamNext, ErrVisible
<1>7. ASSUME NEW c \in Consumers, Select(c) PROVE FIFO'
  BY <1>7 DEF Select
<1>8. ASSUME NEW c \in Consumers, Read(c) PROVE FIFO'
  <2>1. CASE Len(q) > 0
    <3>1. q # << >> /\ Len(Tail(q)) <= Capacity
      BY <2>1 DEF Typed, TypeOK
    <3>2. q' = Tail(q) /\ delivered' = Append(delivered, Head(q)) /\ accepted' = accepted
      BY <1>8, <2>1 DEF Read, Typed, TypeOK
    <3>3. Append(delivered, Head(q)) \o Tail(q) = delivered \o q
      BY <3>1, MoveHead DEF Typed, TypeOK
    <3> QED
      BY <3>1, <3>2, <3>3
  <2>2. CASE Len(q) = 0
    BY <1>8, <2>2 DEF Read
  <2> QED
    BY <2>1, <2>2 DEF Typed, TypeOK
<1>9. ASSUME NEW c \in Consumers, FilterPasses(c) PROVE FIFO'
  BY <1>9 DEF FilterPasses
<1>10. ASSUME NEW c \in Consumers, FilterFails(c) PROVE FIFO'
  BY <1>10 DEF FilterFails, AfterError
<1>11. ASSUME NEW c \in Consumers, ReturnFromClose(c) PROVE FIFO'
  BY <1>11 DEF ReturnFromClose, AfterError
<1>12. ASSUME NEW x \in Closers, CloseCAS(x) PROVE FIFO'
  BY <1>12 DEF CloseCAS
<1>13. CASE CloseBroadcast
  BY <1>13 DEF CloseBroadcast
<1>14. CASE RunBeforeClose
  BY <1>14 DEF RunBeforeClose
<1>15. CASE TakeOnClose
  BY <1>15 DEF TakeOnClose
<1>16. CASE RunOnClose
  BY <1>16 DEF RunOnClose
<1>17. CASE CloseDone
  BY <1>17 DEF CloseDone
<1>18. ASSUME NEW h \in Hooks, OnClose(h) PROVE FIFO'
  BY <1>18 DEF OnClose
<1>19. ASSUME NEW h \in Hooks, RunInline(h) PROVE FIFO'
  BY <1>19 DEF RunInline
<1>20. ASSUME NEW h \in Hooks, BeforeClose(h) PROVE FIFO'
  BY <1>20 DEF BeforeClose, SawOpen
<1>21. CASE Filter
  BY <1>21 DEF Filter, SawOpen
<1>22. CASE UNCHANGED vars
  BY <1>22 DEF vars
<1> QED
  BY <1>1, <1>2, <1>3, <1>4, <1>5, <1>6, <1>7, <1>8, <1>9, <1>10, <1>11,
     <1>12, <1>13, <1>14, <1>15, <1>16, <1>17, <1>18, <1>19, <1>20, <1>21,
     <1>22
     DEF Next, ProducerStep, ConsumerStep, CloseStep

\* Every item accepted by Write or WriteBlocking is delivered by Read once, in
\* order, or still queued, and the queue keeps to its limit.
THEOREM Order == Spec => []FIFO
<1>1. Init => FIFO
  BY StreamAssumption DEF Init, FIFO
<1> QED
  BY <1>1, StreamType, ClosingHolds, FIFOStep, PTL DEF Spec

------------------------------------------------------------------------------
LEMMA EndStep == ASSUME Typed, Closing, EndIsFinal, [Next]_vars PROVE EndIsFinal'
<1> USE StreamAssumption
    DEF Typed, TypeOK, Placed, Closing, EndIsFinal, Goto, Threads, HookStates, hooks, closing,
        history
<1>1. ASSUME NEW p \in Producers, Write(p) PROVE EndIsFinal'
  BY <1>1 DEF Write, Push, SawOpen
<1>2. ASSUME NEW p \in Producers, BeginWriteBlocking(p) PROVE EndIsFinal'
  BY <1>2 DEF BeginWriteBlocking
<1>3. ASSUME NEW p \in Producers, WriteBlocking(p) PROVE EndIsFinal'
  BY <1>3 DEF WriteBlocking, Push, SawOpen
<1>4. ASSUME NEW p \in Producers, WriteError(p) PROVE EndIsFinal'
  BY <1>4 DEF WriteError, SawOpen
<1>5. ASSUME NEW p \in Producers, Signal(p) PROVE EndIsFinal'
  BY <1>5 DEF Signal
<1>6. ASSUME NEW c \in Consumers, StreamNext(c) PROVE EndIsFinal'
  BY <1>6 DEF StreamNext, ErrVisible
<1>7. ASSUME NEW c \in Consumers, Select(c) PROVE EndIsFinal'
  BY <1>7 DEF Select
<1>8. ASSUME NEW c \in Consumers, Read(c) PROVE EndIsFinal'
  BY <1>8 DEF Read, ErrVisible, WakeOne, AfterError
<1>9. ASSUME NEW c \in Consumers, FilterPasses(c) PROVE EndIsFinal'
  BY <1>9 DEF FilterPasses
<1>10. ASSUME NEW c \in Consumers, FilterFails(c) PROVE EndIsFinal'
  BY <1>10 DEF FilterFails, AfterError
<1>11. ASSUME NEW c \in Consumers, ReturnFromClose(c) PROVE EndIsFinal'
  BY <1>11 DEF ReturnFromClose, AfterError
<1>12. ASSUME NEW x \in Closers, CloseCAS(x) PROVE EndIsFinal'
  BY <1>12 DEF CloseCAS
<1>13. CASE CloseBroadcast
  BY <1>13 DEF CloseBroadcast
<1>14. CASE RunBeforeClose
  BY <1>14 DEF RunBeforeClose
<1>15. CASE TakeOnClose
  BY <1>15 DEF TakeOnClose
<1>16. CASE RunOnClose
  BY <1>16 DEF RunOnClose
<1>17. CASE CloseDone
  BY <1>17 DEF CloseDone
<1>18. ASSUME NEW h \in Hooks, OnClose(h) PROVE EndIsFinal'
  BY <1>18 DEF OnClose
<1>19. ASSUME NEW h \in Hooks, RunInline(h) PROVE EndIsFinal'
  BY <1>19 DEF RunInline
<1>20. ASSUME NEW h \in Hooks, BeforeClose(h) PROVE EndIsFinal'
  BY <1>20 DEF BeforeClose, SawOpen
<1>21. CASE Filter
  BY <1>21 DEF Filter, SawOpen
<1>22. CASE UNCHANGED vars
  BY <1>22 DEF vars
<1> QED
  BY <1>1, <1>2, <1>3, <1>4, <1>5, <1>6, <1>7, <1>8, <1>9, <1>10, <1>11,
     <1>12, <1>13, <1>14, <1>15, <1>16, <1>17, <1>18, <1>19, <1>20, <1>21,
     <1>22
     DEF Next, ProducerStep, ConsumerStep, CloseStep

\* When Next has answered false nothing follows.
THEOREM TheEnd == Spec => []EndIsFinal
<1>1. Init => EndIsFinal
  BY StreamAssumption DEF Init, EndIsFinal, Threads
<1> QED
  BY <1>1, StreamType, ClosingHolds, EndStep, PTL DEF Spec
------------------------------------------------------------------------------
\* The refinement.  Ended and Accepting are what Channel calls ended and open.
Accepting == stage \in {"none", "broadcast"}
Ended == \E c \in Consumers : pc[c] = "ended"

\* A step that leaves what Channel sees alone is a stutter of Channel.
LEMMA Stutter ==
  ASSUME UNCHANGED <<accepted, delivered>>, Accepting' <=> Accepting, Ended' <=> Ended
  PROVE  [Channel!Next]_(Channel!vars)
  BY DEF Accepting, Ended, Channel!vars

\* An accepted item is a Put.
LEMMA PushIsPut ==
  ASSUME Typed, Closing, FIFO, NEW p \in Producers,
         Len(q) < Capacity, Push(p), SawOpen, pc[p] # "ended",
         UNCHANGED <<delivered, stage>>
  PROVE  [Channel!Next]_(Channel!vars)
<1>1. Len(accepted) - Len(delivered) < Capacity
  BY StreamAssumption DEF Typed, TypeOK, FIFO
<1>2. Accepting /\ Accepting'
  BY DEF SawOpen, Closing, Accepting, Typed, TypeOK
<1>3. Ended' <=> Ended
  BY StreamAssumption DEF Push, Goto, Ended, Typed, TypeOK, Threads
<1>4. accepted' = Append(accepted, p)
  BY DEF Push
<1>5. Channel!Put(p)
  BY <1>1, <1>2, <1>3, <1>4 DEF Channel!Put, Accepting, Ended
<1> QED
  BY <1>5 DEF Channel!Next

LEMMA ChannelStep ==
  ASSUME Typed, Closing, FIFO, [Next]_vars
  PROVE  [Channel!Next]_(Channel!vars)
<1> USE StreamAssumption DEF Typed, TypeOK, Placed, Goto, Threads, Accepting, Ended, hooks, closing, history
<1>1. ASSUME NEW p \in Producers, Write(p) PROVE [Channel!Next]_(Channel!vars)
  <2>1. /\ Len(q) < Capacity /\ Push(p) /\ SawOpen
        /\ pc[p] # "ended" /\ UNCHANGED <<delivered, stage>>
    BY <1>1 DEF Write
  <2> QED
    BY <1>1, <2>1, PushIsPut
<1>2. ASSUME NEW p \in Producers, BeginWriteBlocking(p) PROVE [Channel!Next]_(Channel!vars)
  BY <1>2, Stutter DEF BeginWriteBlocking
<1>3. ASSUME NEW p \in Producers, WriteBlocking(p) PROVE [Channel!Next]_(Channel!vars)
  <2>1. pc[p] # "ended" /\ UNCHANGED <<delivered, stage>>
    BY <1>3 DEF WriteBlocking
  <2>2. CASE Len(q) < Capacity /\ Push(p) /\ SawOpen
    BY <1>3, <2>1, <2>2, PushIsPut
  <2>3. CASE accepted' = accepted /\ (pc' = pc \/ Goto(p, "idle"))
    BY <1>3, <2>1, <2>3, Stutter
  <2> QED
    BY <1>3, <2>2, <2>3 DEF WriteBlocking
<1>4. ASSUME NEW p \in Producers, WriteError(p) PROVE [Channel!Next]_(Channel!vars)
  BY <1>4, Stutter DEF WriteError
<1>5. ASSUME NEW p \in Producers, Signal(p) PROVE [Channel!Next]_(Channel!vars)
  BY <1>5, Stutter DEF Signal
<1>6. ASSUME NEW c \in Consumers, StreamNext(c) PROVE [Channel!Next]_(Channel!vars)
  <2>1. UNCHANGED <<q, state, stage, accepted, delivered>>
    BY <1>6 DEF StreamNext
  <2>2. CASE Goto(c, "ended") /\ state = "closed" /\ ~(Len(q) > 0)
    <3>1. accepted = delivered /\ ~Accepting /\ ~Accepting' /\ Ended'
      BY <1>6, <2>1, <2>2 DEF FIFO, Closing
    <3>2. Channel!End
      BY <2>1, <3>1 DEF Channel!End
    <3> QED
      BY <3>2 DEF Channel!Next
  <2>3. CASE Goto(c, "read") \/ Goto(c, "select")
    BY <1>6, <2>1, <2>3, Stutter DEF StreamNext
  <2> QED
    BY <1>6, <2>2, <2>3 DEF StreamNext
<1>7. ASSUME NEW c \in Consumers, Select(c) PROVE [Channel!Next]_(Channel!vars)
  BY <1>7, Stutter DEF Select
<1>8. ASSUME NEW c \in Consumers, Read(c) PROVE [Channel!Next]_(Channel!vars)
  <2>1. UNCHANGED <<accepted, stage>> /\ pc[c] = "read"
    BY <1>8 DEF Read
  <2>2. Ended' <=> Ended
    BY <1>8 DEF Read, AfterError
  <2>3. CASE Len(q) > 0
    <3>1. delivered' = Append(delivered, Head(q))
      BY <1>8, <2>3 DEF Read
    <3>2. Len(delivered) < Len(accepted) /\ accepted[Len(delivered) + 1] = Head(q)
      BY <2>3 DEF FIFO
    <3>3. Channel!Take
      BY <2>1, <2>2, <3>1, <3>2 DEF Channel!Take
    <3> QED
      BY <3>3 DEF Channel!Next
  <2>4. CASE Len(q) = 0
    <3>1. delivered' = delivered
      BY <1>8, <2>4 DEF Read
    <3> QED
      BY <2>1, <2>2, <3>1, Stutter
  <2> QED
    BY <2>3, <2>4
<1>9. ASSUME NEW c \in Consumers, FilterPasses(c) PROVE [Channel!Next]_(Channel!vars)
  BY <1>9, Stutter DEF FilterPasses
<1>10. ASSUME NEW c \in Consumers, FilterFails(c) PROVE [Channel!Next]_(Channel!vars)
  BY <1>10, Stutter DEF FilterFails, AfterError, Closing
<1>11. ASSUME NEW c \in Consumers, ReturnFromClose(c) PROVE [Channel!Next]_(Channel!vars)
  BY <1>11, Stutter DEF ReturnFromClose, AfterError
<1>12. ASSUME NEW x \in Closers, CloseCAS(x) PROVE [Channel!Next]_(Channel!vars)
  BY <1>12, Stutter DEF CloseCAS, Closing
<1>13. CASE CloseBroadcast
  <2>1. Accepting /\ ~Accepting' /\ UNCHANGED <<accepted, delivered, pc>>
    BY <1>13 DEF CloseBroadcast
  <2>2. Channel!Shut
    BY <2>1 DEF Channel!Shut
  <2> QED
    BY <2>2 DEF Channel!Next
<1>14. CASE RunBeforeClose
  BY <1>14, Stutter DEF RunBeforeClose
<1>15. CASE TakeOnClose
  BY <1>15, Stutter DEF TakeOnClose
<1>16. CASE RunOnClose
  BY <1>16, Stutter DEF RunOnClose
<1>17. CASE CloseDone
  BY <1>17, Stutter DEF CloseDone
<1>18. ASSUME NEW h \in Hooks, OnClose(h) PROVE [Channel!Next]_(Channel!vars)
  BY <1>18, Stutter DEF OnClose
<1>19. ASSUME NEW h \in Hooks, RunInline(h) PROVE [Channel!Next]_(Channel!vars)
  BY <1>19, Stutter DEF RunInline
<1>20. ASSUME NEW h \in Hooks, BeforeClose(h) PROVE [Channel!Next]_(Channel!vars)
  BY <1>20, Stutter DEF BeforeClose
<1>21. CASE Filter
  BY <1>21, Stutter DEF Filter
<1>22. CASE UNCHANGED vars
  BY <1>22, Stutter DEF vars
<1> QED
  BY <1>1, <1>2, <1>3, <1>4, <1>5, <1>6, <1>7, <1>8, <1>9, <1>10, <1>11, <1>12,
     <1>13, <1>14, <1>15, <1>16, <1>17, <1>18, <1>19, <1>20, <1>21, <1>22
     DEF Next, ProducerStep, ConsumerStep, CloseStep

\* Whatever the close hooks, the signals and the woken producers do in between,
\* the stream behaves as the bounded queue with a final end of module Channel.
THEOREM StreamImplementsChannel == Spec => ImplementsChannel
<1>1. Init => Channel!Init
  BY StreamAssumption DEF Init, Channel!Init, Threads
<1> QED
  BY <1>1, StreamType, ClosingHolds, Order, ChannelStep, PTL
     DEF Spec, ImplementsChannel, Channel!Spec
------------------------------------------------------------------------------
\* At most one goroutine reads the stream.
LoneConsumer == \A c, d \in Consumers : c = d

LEMMA WakeupStep ==
  ASSUME LoneConsumer, Typed, Closing, NoLostWakeup, [Next]_vars
  PROVE  NoLostWakeup'
<1> USE StreamAssumption
    DEF LoneConsumer, Typed, TypeOK, Placed, Closing, NoLostWakeup, ErrVisible, Goto, Threads,
        hooks, closing, history
<1>1. ASSUME NEW p \in Producers, Write(p) PROVE NoLostWakeup'
  BY <1>1 DEF Write, Push, SawOpen
<1>2. ASSUME NEW p \in Producers, BeginWriteBlocking(p) PROVE NoLostWakeup'
  BY <1>2 DEF BeginWriteBlocking
<1>3. ASSUME NEW p \in Producers, WriteBlocking(p) PROVE NoLostWakeup'
  BY <1>3 DEF WriteBlocking, Push, SawOpen
<1>4. ASSUME NEW p \in Producers, WriteError(p) PROVE NoLostWakeup'
  BY <1>4 DEF WriteError, SawOpen
<1>5. ASSUME NEW p \in Producers, Signal(p) PROVE NoLostWakeup'
  BY <1>5 DEF Signal
<1>6. ASSUME NEW c \in Consumers, StreamNext(c) PROVE NoLostWakeup'
  BY <1>6 DEF StreamNext
<1>7. ASSUME NEW c \in Consumers, Select(c) PROVE NoLostWakeup'
  BY <1>7 DEF Select
<1>8. ASSUME NEW c \in Consumers, Read(c) PROVE NoLostWakeup'
  BY <1>8 DEF Read, WakeOne, AfterError
<1>9. ASSUME NEW c \in Consumers, FilterPasses(c) PROVE NoLostWakeup'
  BY <1>9 DEF FilterPasses
<1>10. ASSUME NEW c \in Consumers, FilterFails(c) PROVE NoLostWakeup'
  BY <1>10 DEF FilterFails, AfterError
<1>11. ASSUME NEW c \in Consumers, ReturnFromClose(c) PROVE NoLostWakeup'
  BY <1>11 DEF ReturnFromClose, AfterError
<1>12. ASSUME NEW x \in Closers, CloseCAS(x) PROVE NoLostWakeup'
  BY <1>12 DEF CloseCAS
<1>13. CASE CloseBroadcast
  BY <1>13 DEF CloseBroadcast
<1>14. CASE RunBeforeClose
  BY <1>14 DEF RunBeforeClose
<1>15. CASE TakeOnClose
  BY <1>15 DEF TakeOnClose
<1>16. CASE RunOnClose
  BY <1>16 DEF RunOnClose
<1>17. CASE CloseDone
  BY <1>17 DEF CloseDone
<1>18. ASSUME NEW h \in Hooks, OnClose(h) PROVE NoLostWakeup'
  BY <1>18 DEF OnClose
<1>19. ASSUME NEW h \in Hooks, RunInline(h) PROVE NoLostWakeup'
  BY <1>19 DEF RunInline
<1>20. ASSUME NEW h \in Hooks, BeforeClose(h) PROVE NoLostWakeup'
  BY <1>20 DEF BeforeClose, SawOpen
<1>21. CASE Filter
  BY <1>21 DEF Filter, SawOpen
<1>22. CASE UNCHANGED vars
  BY <1>22 DEF vars
<1> QED
  BY <1>1, <1>2, <1>3, <1>4, <1>5, <1>6, <1>7, <1>8, <1>9, <1>10, <1>11, <1>12,
     <1>13, <1>14, <1>15, <1>16, <1>17, <1>18, <1>19, <1>20, <1>21, <1>22
     DEF Next, ProducerStep, ConsumerStep, CloseStep

\* A lone consumer parked in Next is always woken for what there is to read.
THEOREM ConsumerIsWoken == ASSUME LoneConsumer PROVE Spec => []NoLostWakeup
<1>1. Init => NoLostWakeup
  BY StreamAssumption DEF Init, NoLostWakeup, Threads
<1> QED
  BY <1>1, StreamType, ClosingHolds, WakeupStep, PTL DEF Spec

------------------------------------------------------------------------------
\* The producers in WriteBlocking that will look at the queue again.
Awake == {p \in Producers \ waiting : pc[p] = "block"}

LEMMA AwakeFinite == IsFiniteSet(Awake) /\ Cardinality(Awake) \in Nat
  BY StreamAssumption, FS_Subset, FS_CardinalityType DEF Awake

LEMMA WriterStep ==
  ASSUME Typed, Closing, NoForgottenWriter, [Next]_vars
  PROVE  NoForgottenWriter'
<1> USE StreamAssumption
    DEF Typed, TypeOK, Placed, Closing, NoForgottenWriter, Goto, Threads, hooks, closing, history
<1>1. ASSUME NEW p \in Producers, Write(p) PROVE NoForgottenWriter'
  <2>1. Awake' = Awake
    BY <1>1 DEF Write, Push, Awake
  <2>2. Len(q') = Len(q) + 1
    BY <1>1 DEF Write, Push
  <2>3. UNCHANGED <<state, stage, waiting>>
    BY <1>1 DEF Write
  <2>4. waiting # {} /\ state = "open" => Capacity - Len(q) <= Cardinality(Awake)
    BY DEF Awake
  <2>5. waiting # {} /\ state = "open" => Capacity - Len(q') <= Cardinality(Awake')
    BY <2>1, <2>2, <2>4, AwakeFinite
  <2> QED
    BY <2>3, <2>5 DEF Awake
<1>2. ASSUME NEW p \in Producers, BeginWriteBlocking(p) PROVE NoForgottenWriter'
  <2>1. Awake' = Awake \cup {p}
    BY <1>2 DEF BeginWriteBlocking, Awake
  <2>2. Cardinality(Awake') \in Nat /\ Cardinality(Awake') >= Cardinality(Awake)
    <3>1. Cardinality(Awake \cup {p}) =
            IF p \in Awake THEN Cardinality(Awake) ELSE Cardinality(Awake) + 1
      BY AwakeFinite, FS_AddElement
    <3> QED
      BY <2>1, <3>1, AwakeFinite
  <2> QED
    BY <1>2, <2>2, AwakeFinite DEF BeginWriteBlocking, Awake
<1>3. ASSUME NEW p \in Producers, WriteBlocking(p) PROVE NoForgottenWriter'
  <2>1. CASE SawOpen /\ Len(q) >= Capacity /\ q' = q
    <3>1. IsFiniteSet(Awake') /\ Cardinality(Awake') \in Nat
      BY FS_Subset, FS_CardinalityType DEF Awake
    <3>2. state = "open" \/ stage = "broadcast"
      BY <2>1 DEF SawOpen
    <3> QED
      BY <1>3, <2>1, <3>1, <3>2 DEF WriteBlocking, Awake
  <2>2. CASE state # "open" /\ UNCHANGED waiting
    BY <1>3, <2>2 DEF WriteBlocking
  <2>3. CASE state = "open" /\ Push(p) /\ UNCHANGED waiting
    <3>1. p \in Awake /\ Awake' = Awake \ {p}
      BY <1>3, <2>3 DEF WriteBlocking, Push, Awake
    <3>2. Cardinality(Awake') = Cardinality(Awake) - 1
      BY <3>1, AwakeFinite, FS_RemoveElement
    <3>3. Len(q') = Len(q) + 1
      BY <1>3, <2>3 DEF Push
    <3>4. UNCHANGED <<state, stage>>
      BY <1>3 DEF WriteBlocking
    <3> QED
      BY <2>3, <3>2, <3>3, <3>4, AwakeFinite DEF Awake
  <2> QED
    BY <1>3, <2>1, <2>2, <2>3 DEF WriteBlocking
<1>4. ASSUME NEW p \in Producers, WriteError(p) PROVE NoForgottenWriter'
  <2>1. Awake' = Awake
    BY <1>4 DEF WriteError, Awake
  <2> QED
    BY <1>4, <2>1 DEF WriteError, Awake
<1>5. ASSUME NEW p \in Producers, Signal(p) PROVE NoForgottenWriter'
  <2>1. Awake' = Awake
    BY <1>5 DEF Signal, Awake
  <2> QED
    BY <1>5, <2>1 DEF Signal, Awake
<1>6. ASSUME NEW c \in Consumers, StreamNext(c) PROVE NoForgottenWriter'
  <2>1. Awake' = Awake
    BY <1>6 DEF StreamNext, Awake
  <2> QED
    BY <1>6, <2>1 DEF StreamNext, Awake
<1>7. ASSUME NEW c \in Consumers, Select(c) PROVE NoForgottenWriter'
  <2>1. Awake' = Awake
    BY <1>7 DEF Select, Awake
  <2> QED
    BY <1>7, <2>1 DEF Select, Awake
<1>8. ASSUME NEW c \in Consumers, Read(c) PROVE NoForgottenWriter'
  <2>1. UNCHANGED <<state, stage>>
    BY <1>8 DEF Read
  <2>2. CASE Len(q) > 0
    <3>1. Len(q') = Len(q) - 1
      BY <1>8, <2>2 DEF Read
    <3>2. CASE waiting' = {}
      BY <3>2
    <3>3. CASE \E p \in waiting : waiting' = waiting \ {p}
      <4>1. PICK p \in waiting : waiting' = waiting \ {p}
        BY <3>3
      <4>2. p \notin Awake /\ Awake' = Awake \cup {p}
        BY <1>8, <4>1 DEF Read, AfterError, Awake
      <4>3. Cardinality(Awake') = Cardinality(Awake) + 1
        BY <4>2, AwakeFinite, FS_AddElement
      <4> QED
        BY <2>1, <3>1, <4>1, <4>3, AwakeFinite DEF Awake
    <3> QED
      BY <1>8, <2>2, <3>2, <3>3 DEF Read, WakeOne
  <2>3. CASE Len(q) = 0
    <3>1. Awake' = Awake /\ UNCHANGED <<q, waiting>>
      BY <1>8, <2>3 DEF Read, AfterError, Awake
    <3> QED
      BY <2>1, <3>1 DEF Awake
  <2> QED
    BY <2>2, <2>3
<1>9. ASSUME NEW c \in Consumers, FilterPasses(c) PROVE NoForgottenWriter'
  <2>1. Awake' = Awake
    BY <1>9 DEF FilterPasses, Awake
  <2> QED
    BY <1>9, <2>1 DEF FilterPasses, Awake
<1>10. ASSUME NEW c \in Consumers, FilterFails(c) PROVE NoForgottenWriter'
  <2>1. Awake' = Awake
    BY <1>10 DEF FilterFails, AfterError, Awake
  <2> QED
    BY <1>10, <2>1 DEF FilterFails, Awake
<1>11. ASSUME NEW c \in Consumers, ReturnFromClose(c) PROVE NoForgottenWriter'
  <2>1. Awake' = Awake
    BY <1>11 DEF ReturnFromClose, AfterError, Awake
  <2> QED
    BY <1>11, <2>1 DEF ReturnFromClose, Awake
<1>12. ASSUME NEW x \in Closers, CloseCAS(x) PROVE NoForgottenWriter'
  BY <1>12 DEF CloseCAS
<1>13. CASE CloseBroadcast
  BY <1>13 DEF CloseBroadcast
<1>14. CASE RunBeforeClose
  BY <1>14 DEF RunBeforeClose
<1>15. CASE TakeOnClose
  BY <1>15 DEF TakeOnClose
<1>16. CASE RunOnClose
  BY <1>16 DEF RunOnClose
<1>17. CASE CloseDone
  BY <1>17 DEF CloseDone
<1>18. ASSUME NEW h \in Hooks, OnClose(h) PROVE NoForgottenWriter'
  BY <1>18 DEF OnClose
<1>19. ASSUME NEW h \in Hooks, RunInline(h) PROVE NoForgottenWriter'
  BY <1>19 DEF RunInline
<1>20. ASSUME NEW h \in Hooks, BeforeClose(h) PROVE NoForgottenWriter'
  BY <1>20 DEF BeforeClose, SawOpen
<1>21. CASE Filter
  BY <1>21 DEF Filter, SawOpen
<1>22. CASE UNCHANGED vars
  BY <1>22 DEF vars
<1> QED
  BY <1>1, <1>2, <1>3, <1>4, <1>5, <1>6, <1>7, <1>8, <1>9, <1>10, <1>11, <1>12,
     <1>13, <1>14, <1>15, <1>16, <1>17, <1>18, <1>19, <1>20, <1>21, <1>22
     DEF Next, ProducerStep, ConsumerStep, CloseStep

\* While the stream is open a producer waits only if the free slots are already
\* promised to producers that are awake; after close only until the broadcast.
THEOREM WriterIsNotForgotten == Spec => []NoForgottenWriter
<1>1. Init => NoForgottenWriter
  BY DEF Init, NoForgottenWriter
<1> QED
  BY <1>1, StreamType, ClosingHolds, WriterStep, PTL DEF Spec

------------------------------------------------------------------------------
\* What Forward says of one step.
ForwardStep ==
  /\ \A h \in Hooks : hook[h] = "ran" => hook'[h] = "ran"
  /\ state = "closing" => state' # "open"
  /\ state = "closed" => state' = "closed"
  /\ stage \notin {"none", "broadcast"} => accepted' = accepted

\* An item is accepted by a section that saw the stream open, and that section ends
\* before the hooks run; only a hook that has not run is run.
LEMMA ForwardByStep == ASSUME Typed, Closing, [Next]_vars PROVE ForwardStep
<1> USE DEF Typed, TypeOK, Closing, ForwardStep, hooks, closing, history
<1>1. ASSUME NEW p \in Producers, Write(p) PROVE ForwardStep
  BY <1>1 DEF Write, Push, SawOpen
<1>2. ASSUME NEW p \in Producers, BeginWriteBlocking(p) PROVE ForwardStep
  BY <1>2 DEF BeginWriteBlocking
<1>3. ASSUME NEW p \in Producers, WriteBlocking(p) PROVE ForwardStep
  BY <1>3 DEF WriteBlocking, Push, SawOpen
<1>4. ASSUME NEW p \in Producers, WriteError(p) PROVE ForwardStep
  BY <1>4 DEF WriteError
<1>5. ASSUME NEW p \in Producers, Signal(p) PROVE ForwardStep
  BY <1>5 DEF Signal
<1>6. ASSUME NEW c \in Consumers, StreamNext(c) PROVE ForwardStep
  BY <1>6 DEF StreamNext
<1>7. ASSUME NEW c \in Consumers, Select(c) PROVE ForwardStep
  BY <1>7 DEF Select
<1>8. ASSUME NEW c \in Consumers, Read(c) PROVE ForwardStep
  BY <1>8 DEF Read
<1>9. ASSUME NEW c \in Consumers, FilterPasses(c) PROVE ForwardStep
  BY <1>9 DEF FilterPasses
<1>10. ASSUME NEW c \in Consumers, FilterFails(c) PROVE ForwardStep
  BY <1>10 DEF FilterFails
<1>11. ASSUME NEW c \in Consumers, ReturnFromClose(c) PROVE ForwardStep
  BY <1>11 DEF ReturnFromClose
<1>12. ASSUME NEW x \in Closers, CloseCAS(x) PROVE ForwardStep
  BY <1>12 DEF CloseCAS
<1>13. CASE CloseBroadcast
  BY <1>13 DEF CloseBroadcast
<1>14. CASE RunBeforeClose
  BY <1>14 DEF RunBeforeClose
<1>15. CASE TakeOnClose
  BY <1>15 DEF TakeOnClose
<1>16. CASE RunOnClose
  BY <1>16 DEF RunOnClose
<1>17. CASE CloseDone
  BY <1>17 DEF CloseDone
<1>18. ASSUME NEW h \in Hooks, OnClose(h) PROVE ForwardStep
  BY <1>18 DEF OnClose
<1>19. ASSUME NEW h \in Hooks, RunInline(h) PROVE ForwardStep
  BY <1>19 DEF RunInline
<1>20. ASSUME NEW h \in Hooks, BeforeClose(h) PROVE ForwardStep
  BY <1>20 DEF BeforeClose
<1>21. CASE Filter
  BY <1>21 DEF Filter
<1>22. CASE UNCHANGED vars
  BY <1>22 DEF vars
<1> QED
  BY <1>1, <1>2, <1>3, <1>4, <1>5, <1>6, <1>7, <1>8, <1>9, <1>10, <1>11, <1>12,
     <1>13, <1>14, <1>15, <1>16, <1>17, <1>18, <1>19, <1>20, <1>21, <1>22
     DEF Next, ProducerStep, ConsumerStep, CloseStep

\* No hook runs twice, the phases of close only move forward, and nothing is accepted
\* once close has started to run the hooks (the CAS and the sections of stream.go).
THEOREM OnlyForward == Spec => Forward
<1>1. Spec => [][ForwardStep]_vars
  BY StreamType, ClosingHolds, ForwardByStep, PTL DEF Spec
<1> QED
  BY <1>1 DEF Forward, ForwardStep
==============================================================================
