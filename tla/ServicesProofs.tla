---------------------------- MODULE ServicesProofs ----------------------------
(***************************************************************************)
(* Proofs about the units of MCServices beside NodeStatus, which has a     *)
(* module of its own.                                                      *)
(***************************************************************************)
EXTENDS MCServices, SequenceTheorems, Sequences, FiniteSetTheorems, TLAPS

------------------------------------------------------------------------------
(* Responses *)

\* The chunks up to one are a sequence, and the next one extends it.
LEMMA UptoSequence ==
  ASSUME NEW n \in 0..MaxAnswers, Resp!AnswersAssumption
  PROVE  /\ Resp!Upto(n) \in Seq(-1..MaxAnswers)
         /\ n > 0 => Append(Resp!Upto(n - 1), n) = Resp!Upto(n)
         /\ Append(Resp!Upto(n), 0) = Resp!Upto(n) \o <<0>>
         /\ Resp!Upto(n) \o <<>> = Resp!Upto(n)
         /\ Resp!Upto(0) = <<>>
<1> USE DEF Resp!Upto, Resp!AnswersAssumption
<1>1. Resp!Upto(n) \in Seq(-1..MaxAnswers)
  OBVIOUS
<1>2. ASSUME n > 0 PROVE Append(Resp!Upto(n - 1), n) = Resp!Upto(n)
  BY <1>2
<1>3. Append(Resp!Upto(n), 0) = Resp!Upto(n) \o <<0>>
  OBVIOUS
<1>4. Resp!Upto(n) \o <<>> = Resp!Upto(n)
  OBVIOUS
<1>5. Resp!Upto(0) = <<>>
  OBVIOUS
<1> QED
  BY <1>1, <1>2, <1>3, <1>4, <1>5

\* What the fields of the records may be.
LEMMA RespFields ==
  ASSUME Resp!RespShape, Resp!AnswersAssumption
  PROVE  /\ s2.sent \in 0..MaxAnswers /\ s2.read \in Nat /\ s2.read <= s2.sent
         /\ s4.held \in 0..MaxAnswers /\ s5.body \in Seq(-1..MaxAnswers) /\ s5.late \in {0, 1}
         /\ s5.result \in {"none", "ended", "refused", "status 500", "aborted"}
BY DEF Resp!RespShape, Resp!AnswerShape, Resp!ReaderShape, Resp!NetShape

\* The same for the number of chunks read.
LEMMA RespCounts ==
  ASSUME Resp!RespIInv, Resp!AnswersAssumption
  PROVE  /\ s2.read \in Nat /\ s2.sent \in Nat /\ s2.read \in 0..MaxAnswers
         /\ s2.read + 1 # 0 /\ (s2.read + 1) - 1 = s2.read /\ (s2.read # 0 => s2.read > 0)
<1>1. s2.sent \in 0..MaxAnswers /\ s2.read \in Nat /\ s2.read <= s2.sent /\ MaxAnswers \in Nat
  BY RespFields DEF Resp!RespIInv, Resp!AnswersAssumption
<1> QED
  BY <1>1

\* Every step keeps the types of the records.
LEMMA RespRecords ==
  ASSUME Resp!AnswersAssumption, Resp!RespIInv, Resp!RespNext
  PROVE  s2' \in Resp!AnswerShape /\ s5' \in Resp!NetShape /\ s6' \in Resp!FlagsShape
<1> DEFINE Records == s2' \in Resp!AnswerShape /\ s5' \in Resp!NetShape /\ s6' \in Resp!FlagsShape
<1>0. /\ s2.sent \in 0..MaxAnswers /\ s2.read \in Nat /\ s2.read <= s2.sent
      /\ s2.sent < MaxAnswers => s2.sent + 1 \in 0..MaxAnswers
      /\ s2.read + 1 \in Nat
      /\ Append(s5.body, s4.held) \in Seq(-1..MaxAnswers) /\ Append(s5.body, -1) \in Seq(-1..MaxAnswers)
  <2>1. MaxAnswers \in Nat /\ s2.sent \in 0..MaxAnswers /\ s2.read \in Nat /\ s2.read <= s2.sent
    BY RespFields DEF Resp!RespIInv, Resp!AnswersAssumption
  <2>2. s5.body \in Seq(-1..MaxAnswers) /\ s4.held \in 0..MaxAnswers
    BY RespFields DEF Resp!RespIInv
  <2>3. Append(s5.body, s4.held) \in Seq(-1..MaxAnswers) /\ Append(s5.body, -1) \in Seq(-1..MaxAnswers)
    BY <2>1, <2>2
  <2> QED
    BY <2>1, <2>3
<1>s. s2 \in Resp!AnswerShape /\ s5 \in Resp!NetShape /\ s6 \in Resp!FlagsShape
  BY DEF Resp!RespIInv, Resp!RespShape
<1>1. CASE Resp!PluginAnswers
  <2>1. CASE s2.sent < MaxAnswers /\ s2' = [s2 EXCEPT !.sent = @ + 1]
    <3>1. s2.sent + 1 \in 0..MaxAnswers
      BY <2>1, <1>0
    <3> QED
      BY <1>s, <1>1, <2>1, <3>1, Zenon DEF Resp!PluginAnswers, Resp!AnswerShape
  <2>2. CASE \E e \in {"ok", "error"} : s2' = [s2 EXCEPT !.end = e]
    BY <1>s, <1>1, <2>2, Zenon DEF Resp!PluginAnswers, Resp!AnswerShape
  <2> QED
    BY <1>1, <2>1, <2>2, Zenon DEF Resp!PluginAnswers
<1>2. CASE Resp!ClientGoes
  BY <1>s, <1>2, Zenon DEF Resp!ClientGoes, Resp!NetShape
<1>3. CASE Resp!DeadlinePasses
  BY <1>s, <1>3, Zenon DEF Resp!DeadlinePasses, Resp!FlagsShape
<1>4. CASE Resp!ReaderReads
  BY <1>0, <1>s, <1>4, Zenon DEF Resp!ReaderReads, Resp!AnswerShape
<1>5. CASE Resp!SseGenerate
  BY <1>s, <1>5, Zenon DEF Resp!SseGenerate, Resp!NetShape
<1>6. CASE Resp!WriteData
  BY <1>s, <1>6, Zenon DEF Resp!WriteData
<1>7. CASE Resp!WriteEvent_
  <2>1. (IF s3 = "returned" THEN s5.late + 1 ELSE s5.late) \in {0, 1}
    <3>1. s5.late \in {0, 1}
      BY RespFields DEF Resp!RespIInv
    <3>2. s3 = "returned" => s5.late = 0
      BY <1>7 DEF Resp!WriteEvent_, Resp!RespIInv, Resp!SseControl, Resp!Sse
    <3> QED
      BY <3>1, <3>2
  <2> QED
    BY <1>0, <1>s, <1>7, <2>1, Zenon DEF Resp!WriteEvent_, Resp!NetShape
<1>8. CASE Resp!SseComplete
  BY <1>s, <1>8, Zenon DEF Resp!SseComplete, Resp!FlagsShape
<1>9. CASE Resp!SseSelect
  BY <1>0, <1>s, <1>9, Zenon DEF Resp!SseSelect, Resp!NetShape, Resp!AnswerShape
<1>10. CASE Resp!SseReturn
  BY <1>s, <1>10, Zenon DEF Resp!SseReturn, Resp!FlagsShape
<1>f. Resp!Failing \in {"none", "ended", "refused", "status 500", "aborted"}
  BY DEF Resp!Failing
<1>r. ASSUME NEW r \in {"none", "ended", "refused", "status 500", "aborted"}, Resp!EpReturns(r)
      PROVE  s2' \in Resp!AnswerShape /\ s5' \in Resp!NetShape
  BY <1>s, <1>r, Zenon DEF Resp!EpReturns, Resp!AnswerShape, Resp!NetShape
<1>11. CASE Resp!EpDeadline
  BY <1>s, <1>f, <1>r, <1>11 DEF Resp!EpDeadline
<1>12. CASE Resp!EpClientDone
  BY <1>s, <1>12, Zenon DEF Resp!EpClientDone, Resp!FlagsShape
<1>13. CASE Resp!EpChunk
  <2>1. ASSUME Resp!EpReturns(Resp!Failing), UNCHANGED s6 PROVE Records
    BY <1>s, <1>f, <1>r, <2>1
  <2>2. ASSUME Resp!EpReturns(IF s6.connected THEN "ended" ELSE "none"), UNCHANGED s6 PROVE Records
    <3>1. (IF s6.connected THEN "ended" ELSE "none") \in {"none", "ended", "refused", "status 500", "aborted"}
      OBVIOUS
    <3> QED
      BY <1>s, <3>1, <1>r, <2>2
  <2>3. ASSUME s5' = [s5 EXCEPT !.body = Append(@, s4.held)], UNCHANGED <<s2, s6>> PROVE Records
    BY <1>0, <1>s, <2>3, Zenon DEF Resp!NetShape
  <2>4. ASSUME s6' = [s6 EXCEPT !.connected = FALSE], UNCHANGED <<s2, s5>> PROVE Records
    BY <1>s, <2>4, Zenon DEF Resp!FlagsShape
  <2> QED
    BY <1>13, <2>1, <2>2, <2>3, <2>4, Zenon DEF Resp!EpChunk
<1>14. CASE Resp!EpReaderStops
  BY <1>s, <1>14 DEF Resp!EpReaderStops
<1>15. CASE Resp!RespOver
  BY <1>s, <1>15 DEF Resp!RespOver, Resp!respVars
<1> QED
  BY <1>1, <1>2, <1>3, <1>4, <1>5, <1>6, <1>7, <1>8, <1>9, <1>10, <1>11, <1>12, <1>13, <1>14, <1>15
     DEF Resp!RespNext

\* Every step keeps the shape of the state.
LEMMA RespShapeStep ==
  ASSUME Resp!AnswersAssumption, Resp!RespIInv, Resp!RespNext
  PROVE  Resp!RespShape'
<1>a. MaxAnswers \in Nat /\ s2 \in Resp!AnswerShape /\ s2.read <= s2.sent
  BY DEF Resp!AnswersAssumption, Resp!RespIInv, Resp!RespShape
<1>r. s4 \in Resp!ReaderShape /\ s2.sent \in 0..MaxAnswers /\ s2.read \in Nat /\ MaxAnswers \in Nat
  BY <1>a, RespFields DEF Resp!RespIInv, Resp!RespShape
<1>1. s1' \in {"sse", "endpoint"} /\ s3' \in {"generate", "select", "returning", "returned"}
  <2>1. s1 \in {"sse", "endpoint"} /\ s3 \in {"generate", "select", "returning", "returned"}
    BY DEF Resp!RespIInv, Resp!RespShape
  <2> QED
    BY <2>1 DEF Resp!RespNext, Resp!PluginAnswers, Resp!ClientGoes, Resp!DeadlinePasses,
         Resp!ReaderReads, Resp!SseGenerate, Resp!WriteData, Resp!WriteEvent_, Resp!SseComplete,
         Resp!SseSelect, Resp!SseReturn, Resp!EpDeadline, Resp!EpReturns, Resp!EpClientDone,
         Resp!EpChunk, Resp!EpReaderStops, Resp!RespOver, Resp!respVars
<1>2. s4' \in Resp!ReaderShape
  <2> USE DEF Resp!ReaderShape, Resp!ReaderGoes
  <2>1. CASE Resp!PluginAnswers
    BY <1>r, <2>1 DEF Resp!PluginAnswers
  <2>2. CASE Resp!ClientGoes
    BY <1>r, <2>2 DEF Resp!ClientGoes
  <2>3. CASE Resp!DeadlinePasses
    BY <1>r, <2>3 DEF Resp!DeadlinePasses
  <2>4. CASE Resp!ReaderReads
    <3>1. (s2.read < s2.sent => s2.read + 1 \in 0..MaxAnswers) /\ 0 \in 0..MaxAnswers
      BY <1>r
    <3>2. CASE s4' = [s4 EXCEPT !.pc = "chunk", !.held = s2.read + 1] /\ s2.read < s2.sent
      BY <1>r, <3>1, <3>2, Zenon
    <3>3. CASE s4' = [s4 EXCEPT !.pc = "chunk", !.held = 0, !.status = "error"]
      BY <1>r, <3>1, <3>3, Zenon
    <3>4. CASE s4' = [s4 EXCEPT !.pc = "ended"]
      BY <1>r, <3>4
    <3> QED
      BY <2>4, <3>2, <3>3, <3>4 DEF Resp!ReaderReads
  <2>5. CASE Resp!SseGenerate
    BY <1>r, <2>5 DEF Resp!SseGenerate
  <2>6. CASE Resp!WriteData
    BY <1>r, <2>6 DEF Resp!WriteData
  <2>7. CASE Resp!WriteEvent_
    BY <1>r, <2>7 DEF Resp!WriteEvent_
  <2>8. CASE Resp!SseComplete
    BY <1>r, <2>8 DEF Resp!SseComplete
  <2>9. CASE Resp!SseSelect
    BY <1>r, <2>9 DEF Resp!SseSelect
  <2>10. CASE Resp!SseReturn
    BY <1>r, <2>10 DEF Resp!SseReturn
  <2>11. CASE Resp!EpDeadline
    BY <1>r, <2>11 DEF Resp!EpDeadline
  <2>12. CASE Resp!EpClientDone
    BY <1>r, <2>12 DEF Resp!EpClientDone
  <2>13. CASE Resp!EpChunk
    BY <1>r, <2>13 DEF Resp!EpChunk
  <2>14. CASE Resp!EpReaderStops
    BY <1>r, <2>14 DEF Resp!EpReaderStops
  <2>15. CASE Resp!RespOver
    BY <1>r, <2>15 DEF Resp!RespOver, Resp!respVars
  <2> QED
    BY <2>1, <2>2, <2>3, <2>4, <2>5, <2>6, <2>7, <2>8, <2>9, <2>10, <2>11, <2>12, <2>13, <2>14, <2>15 DEF Resp!RespNext
<1>3. s2'.read <= s2'.sent
  <2> USE DEF Resp!AnswerShape
  <2>1. CASE Resp!PluginAnswers
    BY <1>a, <2>1 DEF Resp!PluginAnswers
  <2>2. CASE Resp!ClientGoes
    BY <1>a, <2>2 DEF Resp!ClientGoes
  <2>3. CASE Resp!DeadlinePasses
    BY <1>a, <2>3 DEF Resp!DeadlinePasses
  <2>4. CASE Resp!ReaderReads
    BY <1>a, <2>4 DEF Resp!ReaderReads
  <2>5. CASE Resp!SseGenerate
    BY <1>a, <2>5 DEF Resp!SseGenerate
  <2>6. CASE Resp!WriteData
    BY <1>a, <2>6 DEF Resp!WriteData
  <2>7. CASE Resp!WriteEvent_
    BY <1>a, <2>7 DEF Resp!WriteEvent_
  <2>8. CASE Resp!SseComplete
    BY <1>a, <2>8 DEF Resp!SseComplete
  <2>9. CASE Resp!SseSelect
    BY <1>a, <2>9 DEF Resp!SseSelect
  <2>10. CASE Resp!SseReturn
    BY <1>a, <2>10 DEF Resp!SseReturn
  <2>11. CASE Resp!EpDeadline
    BY <1>a, <2>11 DEF Resp!EpDeadline, Resp!EpReturns
  <2>12. CASE Resp!EpClientDone
    BY <1>a, <2>12 DEF Resp!EpClientDone
  <2>13. CASE Resp!EpChunk
    BY <1>a, <2>13 DEF Resp!EpChunk, Resp!EpReturns
  <2>14. CASE Resp!EpReaderStops
    BY <1>a, <2>14 DEF Resp!EpReaderStops
  <2>15. CASE Resp!RespOver
    BY <1>a, <2>15 DEF Resp!RespOver, Resp!respVars
  <2> QED
    BY <2>1, <2>2, <2>3, <2>4, <2>5, <2>6, <2>7, <2>8, <2>9, <2>10, <2>11, <2>12, <2>13, <2>14, <2>15 DEF Resp!RespNext
<1> QED
  BY <1>1, <1>2, <1>3, RespRecords DEF Resp!RespShape

\* Every step keeps the control of an SSE request.
LEMMA SseControlStep ==
  ASSUME Resp!AnswersAssumption, Resp!RespIInv, Resp!RespNext
  PROVE  Resp!SseControl'
<1>t. /\ s2 \in Resp!AnswerShape /\ s4 \in Resp!ReaderShape /\ s5 \in Resp!NetShape
      /\ s6 \in Resp!FlagsShape /\ Resp!SseControl
  BY DEF Resp!RespIInv, Resp!RespShape
<1> USE DEF Resp!AnswerShape, Resp!ReaderShape, Resp!NetShape, Resp!FlagsShape, Resp!SseControl,
            Resp!Sse, Resp!Endpoint_, Resp!ReaderGoes
<1>1. CASE Resp!PluginAnswers
  BY <1>t, <1>1 DEF Resp!PluginAnswers
<1>2. CASE Resp!ClientGoes
  BY <1>t, <1>2 DEF Resp!ClientGoes
<1>3. CASE Resp!DeadlinePasses
  BY <1>t, <1>3 DEF Resp!DeadlinePasses
<1>4. CASE Resp!ReaderReads
  BY <1>t, <1>4 DEF Resp!ReaderReads
<1>5. CASE Resp!SseGenerate
  <2>1. CASE s3' = "select"
    BY <1>t, <1>5, <2>1 DEF Resp!SseGenerate
  <2>2. CASE s3' = "returned"
    <3>1. s8' # {}
      BY <1>5, <2>2 DEF Resp!SseGenerate
    <3> QED
      BY <1>t, <1>5, <2>2, <3>1 DEF Resp!SseGenerate
  <2> QED
    BY <1>5, <2>1, <2>2 DEF Resp!SseGenerate
<1>6. CASE Resp!WriteData
  BY <1>t, <1>6 DEF Resp!WriteData
<1>7. CASE Resp!WriteEvent_
  BY <1>t, <1>7 DEF Resp!WriteEvent_
<1>8. CASE Resp!SseComplete
  <2>1. s8' # {} 
    BY <1>8 DEF Resp!SseComplete, Resp!Completes
  <2> QED
    BY <1>t, <1>8, <2>1 DEF Resp!SseComplete
<1>9. CASE Resp!SseSelect
  <2>1. CASE ~s5.there /\ s2' = [s2 EXCEPT !.closed = TRUE] /\ Resp!Completes("client_disconnect") /\ UNCHANGED s5
    <3>1. s8' # {} 
      BY <2>1 DEF Resp!Completes
    <3> QED
      BY <1>t, <1>9, <2>1, <3>1 DEF Resp!SseSelect
  <2>2. CASE s6.done /\ s5' = [s5 EXCEPT !.result = "ended"] /\ UNCHANGED <<s2, s7, s8>>
    BY <1>t, <1>9, <2>2 DEF Resp!SseSelect
  <2>3. CASE s6.deadline /\ s5' = [s5 EXCEPT !.body = Append(@, -1)] /\ Resp!Completes("timeout") /\ UNCHANGED s2
    <3>1. s8' # {} 
      BY <2>3 DEF Resp!Completes
    <3> QED
      BY <1>t, <1>9, <2>3, <3>1 DEF Resp!SseSelect
  <2> QED
    BY <1>9, <2>1, <2>2, <2>3, Zenon DEF Resp!SseSelect
<1>10. CASE Resp!SseReturn
  BY <1>t, <1>10 DEF Resp!SseReturn
<1>11. CASE Resp!EpDeadline
  BY <1>t, <1>11 DEF Resp!EpDeadline, Resp!EpReturns
<1>12. CASE Resp!EpClientDone
  BY <1>t, <1>12 DEF Resp!EpClientDone
<1>13. CASE Resp!EpChunk
  BY <1>t, <1>13 DEF Resp!EpChunk, Resp!EpReturns
<1>14. CASE Resp!EpReaderStops
  BY <1>t, <1>14 DEF Resp!EpReaderStops
<1>15. CASE Resp!RespOver
  BY <1>t, <1>15 DEF Resp!RespOver, Resp!respVars
<1> QED
  BY <1>1, <1>2, <1>3, <1>4, <1>5, <1>6, <1>7, <1>8, <1>9, <1>10, <1>11, <1>12, <1>13, <1>14, <1>15 DEF Resp!RespNext

\* Every step keeps the metric of an SSE request.
LEMMA SseGaugeStep ==
  ASSUME Resp!AnswersAssumption, Resp!RespIInv, Resp!RespNext
  PROVE  Resp!SseGauge'
<1>t. /\ s2 \in Resp!AnswerShape /\ s4 \in Resp!ReaderShape /\ s5 \in Resp!NetShape
      /\ s6 \in Resp!FlagsShape /\ Resp!SseControl /\ Resp!SseGauge
  BY DEF Resp!RespIInv, Resp!RespShape
<1> USE DEF Resp!AnswerShape, Resp!ReaderShape, Resp!NetShape, Resp!FlagsShape,
            Resp!SseControl, Resp!SseGauge, Resp!ReaderLeft, Resp!Sse, Resp!Endpoint_, Resp!ReaderGoes
<1>1. CASE Resp!PluginAnswers
  BY <1>t, <1>1 DEF Resp!PluginAnswers
<1>2. CASE Resp!ClientGoes
  BY <1>t, <1>2 DEF Resp!ClientGoes
<1>3. CASE Resp!DeadlinePasses
  BY <1>t, <1>3 DEF Resp!DeadlinePasses
<1>4. CASE Resp!ReaderReads
  BY <1>t, <1>4 DEF Resp!ReaderReads
<1>5. CASE Resp!SseGenerate
  <2>0. s1' = "sse" /\ s1 = "sse" /\ s3 = "generate"
    BY <1>5 DEF Resp!SseGenerate
  <2>1. s7 = 0
    BY <1>t, <2>0
  <2>2. CASE s3' = "select"
    <3>1. s4'.pc = "next" /\ s7' = s7 + 1
      BY <1>t, <1>5, <2>2 DEF Resp!SseGenerate
    <3> QED
      BY <2>0, <2>1, <2>2, <3>1
  <2>3. CASE s3' = "returned"
    <3>1. s5'.result = "refused" /\ s7' = s7
      BY <1>t, <1>5, <2>3 DEF Resp!SseGenerate
    <3> QED
      BY <2>0, <2>1, <2>3, <3>1
  <2> QED
    BY <1>5, <2>2, <2>3 DEF Resp!SseGenerate
<1>6. CASE Resp!WriteData
  BY <1>t, <1>6 DEF Resp!WriteData
<1>7. CASE Resp!WriteEvent_
  BY <1>t, <1>7 DEF Resp!WriteEvent_
<1>8. CASE Resp!SseComplete
  <2>1. s1' = "sse" /\ s1 = "sse" /\ s4.pc = "ended" /\ s4'.pc = "gone" /\ s3' = s3 /\ s5' = s5
    BY <1>t, <1>8 DEF Resp!SseComplete
  <2>2. s7' = s7 - 1
    BY <1>8 DEF Resp!SseComplete, Resp!Completes
  <2>3. s5.result = "none" /\ s7 = IF s3 = "select" THEN 1 ELSE 0
    BY <1>t, <2>1
  <2> QED
    BY <2>1, <2>2, <2>3
<1>9. CASE Resp!SseSelect
  <2>1. s1' = "sse" /\ s1 = "sse" /\ s3 = "select" /\ s3' = "returning" /\ s4' = s4 /\ s5.result = "none"
    BY <1>t, <1>9 DEF Resp!SseSelect
  <2>2. s7 = IF s4.pc = "gone" THEN 0 ELSE 1
    BY <1>t, <2>1
  <2>3. CASE s5'.result = "none" /\ s7' = s7 - 1
    BY <2>1, <2>2, <2>3
  <2>4. CASE s5'.result = "ended" /\ s7' = s7 /\ s4.pc = "gone"
    BY <2>1, <2>2, <2>4
  <2>5. CASE UNCHANGED s5 /\ Resp!Completes("client_disconnect")
    BY <2>1, <2>3, <2>5 DEF Resp!Completes
  <2>6. CASE s6.done /\ s5' = [s5 EXCEPT !.result = "ended"] /\ UNCHANGED <<s2, s7, s8>>
    BY <1>t, <2>1, <2>4, <2>6
  <2>7. CASE s5' = [s5 EXCEPT !.body = Append(@, -1)] /\ Resp!Completes("timeout")
    BY <1>t, <2>1, <2>3, <2>7 DEF Resp!Completes
  <2> QED
    BY <1>9, <2>5, <2>6, <2>7, Zenon DEF Resp!SseSelect
<1>10. CASE Resp!SseReturn
  BY <1>t, <1>10 DEF Resp!SseReturn
<1>11. CASE Resp!EpDeadline
  BY <1>t, <1>11 DEF Resp!EpDeadline, Resp!EpReturns
<1>12. CASE Resp!EpClientDone
  BY <1>t, <1>12 DEF Resp!EpClientDone
<1>13. CASE Resp!EpChunk
  BY <1>t, <1>13 DEF Resp!EpChunk, Resp!EpReturns
<1>14. CASE Resp!EpReaderStops
  BY <1>t, <1>14 DEF Resp!EpReaderStops
<1>15. CASE Resp!RespOver
  BY <1>t, <1>15 DEF Resp!RespOver, Resp!respVars
<1> QED
  BY <1>1, <1>2, <1>3, <1>4, <1>5, <1>6, <1>7, <1>8, <1>9, <1>10, <1>11, <1>12, <1>13, <1>14, <1>15 DEF Resp!RespNext

\* Every step keeps what an SSE request has written.
LEMMA SseBodyStep ==
  ASSUME Resp!AnswersAssumption, Resp!RespIInv, Resp!RespNext
  PROVE  Resp!SseBody'
<1>t. /\ s2 \in Resp!AnswerShape /\ s4 \in Resp!ReaderShape /\ s5 \in Resp!NetShape
      /\ s6 \in Resp!FlagsShape /\ Resp!SseControl /\ Resp!SseBody
  BY DEF Resp!RespIInv, Resp!RespShape
<1>n. /\ s2.read \in Nat /\ s2.sent \in Nat /\ s2.read \in 0..MaxAnswers
      /\ s2.read + 1 # 0 /\ (s2.read + 1) - 1 = s2.read /\ (s2.read # 0 => s2.read > 0)
  BY RespCounts
<1> USE DEF Resp!AnswerShape, Resp!ReaderShape, Resp!NetShape, Resp!FlagsShape,
            Resp!SseControl, Resp!SseBody, Resp!Written, Resp!EndedIsWhole, Resp!Upto,
            Resp!Sse, Resp!Endpoint_, Resp!ReaderGoes
<1>1. CASE Resp!PluginAnswers
  BY <1>t, <1>1 DEF Resp!PluginAnswers
<1>2. CASE Resp!ClientGoes
  BY <1>t, <1>2 DEF Resp!ClientGoes
<1>3. CASE Resp!DeadlinePasses
  BY <1>t, <1>3 DEF Resp!DeadlinePasses
<1>4. CASE Resp!ReaderReads
  <2>1. CASE s2.read < s2.sent /\ s2' = [s2 EXCEPT !.read = @ + 1]
             /\ s4' = [s4 EXCEPT !.pc = "chunk", !.held = s2.read + 1]
    <3>1. /\ s2'.read = s2.read + 1 /\ s2'.sent = s2.sent /\ s2'.end = s2.end /\ s2'.closed = s2.closed
          /\ s4'.pc = "chunk" /\ s4'.held = s2.read + 1
      BY <1>t, <2>1, Zenon
    <3>2. UNCHANGED <<s1, s3, s5, s6, s7, s8>>
      BY <1>4 DEF Resp!ReaderReads
    <3>3. s4.pc = "next"
      BY <1>4 DEF Resp!ReaderReads
    <3> HIDE DEF Resp!AnswerShape, Resp!ReaderShape, Resp!NetShape, Resp!FlagsShape
    <3> QED
      BY <1>t, <1>n, <3>1, <3>2, <3>3
  <2>2. CASE s2.read = s2.sent /\ s2.end = "error" /\ ~s2.closed /\ UNCHANGED s2
             /\ s4' = [s4 EXCEPT !.pc = "chunk", !.held = 0, !.status = "error"]
    BY <1>t, <1>4, <2>2 DEF Resp!ReaderReads
  <2>3. CASE s2.read = s2.sent /\ (s2.end = "ok" \/ s2.closed) /\ Resp!ReaderGoes("ended") /\ UNCHANGED s2
    BY <1>t, <1>4, <2>3 DEF Resp!ReaderReads
  <2> QED
    BY <1>4, <2>1, <2>2, <2>3, Zenon DEF Resp!ReaderReads
<1>5. CASE Resp!SseGenerate
  BY <1>t, <1>5 DEF Resp!SseGenerate
<1>6. CASE Resp!WriteData
  BY <1>t, <1>6 DEF Resp!WriteData
<1>7. CASE Resp!WriteEvent_
  <2>1. /\ s5'.body = Append(s5.body, s4.held) /\ s5'.result = s5.result
        /\ s4'.pc = (IF s4.held = 0 THEN "ended" ELSE "next") /\ s4.pc = "write" /\ s4'.held = s4.held
    BY <1>t, <1>7, Zenon DEF Resp!WriteEvent_
  <2>2. UNCHANGED <<s1, s2, s3, s6>> /\ s1 = "sse"
    BY <1>7 DEF Resp!WriteEvent_
  <2>3. s5.result # "ended"
    BY <1>t, <2>1, <2>2
  <2>4. CASE s3 \in {"generate", "select"} /\ s4.held = 0
    <3>1. s2.end = "error" /\ s2.read = s2.sent /\ s5.body = Resp!Upto(s2.sent)
      BY <1>t, <2>1, <2>2, <2>4
    <3> HIDE DEF Resp!Upto, Resp!AnswerShape, Resp!ReaderShape, Resp!NetShape, Resp!FlagsShape
    <3> QED
      BY <2>1, <2>2, <2>3, <2>4, <3>1
  <2>5. CASE s3 \in {"generate", "select"} /\ s4.held # 0
    <3>1. s4.held = s2.read /\ s5.body = Resp!Upto(s2.read - 1)
      BY <1>t, <2>1, <2>2, <2>5
    <3>2. s2.read \in 0..MaxAnswers /\ s2.read > 0
      BY <1>n, <2>5, <3>1
    <3>3. Append(Resp!Upto(s2.read - 1), s2.read) = Resp!Upto(s2.read)
      BY <3>2, UptoSequence
    <3> HIDE DEF Resp!Upto, Resp!AnswerShape, Resp!ReaderShape, Resp!NetShape, Resp!FlagsShape
    <3> QED
      BY <2>1, <2>2, <2>3, <2>5, <3>1, <3>3
  <2>6. CASE s3 \notin {"generate", "select"}
    <3> HIDE DEF Resp!Upto, Resp!AnswerShape, Resp!ReaderShape, Resp!NetShape, Resp!FlagsShape
    <3> QED
      BY <2>1, <2>2, <2>3, <2>6
  <2> QED
    BY <2>4, <2>5, <2>6
<1>8. CASE Resp!SseComplete
  BY <1>t, <1>8 DEF Resp!SseComplete, Resp!Completes
<1>9. CASE Resp!SseSelect
  <2>1. s1' = "sse" /\ s1 = "sse" /\ s3 = "select" /\ s3' = "returning" /\ s4' = s4 /\ s5.result = "none"
    BY <1>t, <1>9 DEF Resp!SseSelect
  <2>2. CASE s5'.result # "ended"
    BY <2>1, <2>2
  <2>3. CASE UNCHANGED s5
    BY <2>1, <2>2, <2>3
  <2>4. CASE s5' = [s5 EXCEPT !.body = Append(@, -1)]
    <3>1. s5'.result = s5.result
      BY <1>t, <2>4, Zenon
    <3> QED
      BY <2>1, <2>2, <3>1
  <2>5. CASE s6.done /\ s5' = [s5 EXCEPT !.result = "ended"] /\ UNCHANGED <<s2, s7, s8>>
    <3>1. s5'.body = s5.body /\ s2' = s2
      BY <1>t, <2>5, Zenon
    <3>2. /\ s2.end # "no" /\ s2.sent \in 0..MaxAnswers
          /\ s5.body = IF s2.end = "error" THEN Append(Resp!Upto(s2.sent), 0) ELSE Resp!Upto(s2.sent)
      BY <1>t, <2>1, <2>5
    <3>3. s5.body = Resp!Upto(s2.sent) \o (IF s2.end = "error" THEN <<0>> ELSE <<>>)
      BY <3>2, UptoSequence
    <3> QED
      BY <2>1, <3>1, <3>2, <3>3
  <2> QED
    BY <1>9, <2>3, <2>4, <2>5, Zenon DEF Resp!SseSelect
<1>10. CASE Resp!SseReturn
  BY <1>t, <1>10 DEF Resp!SseReturn
<1>11. CASE Resp!EpDeadline
  BY <1>t, <1>11 DEF Resp!EpDeadline, Resp!EpReturns
<1>12. CASE Resp!EpClientDone
  BY <1>t, <1>12 DEF Resp!EpClientDone
<1>13. CASE Resp!EpChunk
  BY <1>t, <1>13 DEF Resp!EpChunk, Resp!EpReturns
<1>14. CASE Resp!EpReaderStops
  BY <1>t, <1>14 DEF Resp!EpReaderStops
<1>15. CASE Resp!RespOver
  BY <1>t, <1>15 DEF Resp!RespOver, Resp!respVars
<1> QED
  BY <1>1, <1>2, <1>3, <1>4, <1>5, <1>6, <1>7, <1>8, <1>9, <1>10, <1>11, <1>12, <1>13, <1>14, <1>15 DEF Resp!RespNext

\* Every step keeps the control of an endpoint's request.
LEMMA EndpointControlStep ==
  ASSUME Resp!AnswersAssumption, Resp!RespIInv, Resp!RespNext
  PROVE  Resp!EndpointControl'
<1>t. /\ s2 \in Resp!AnswerShape /\ s4 \in Resp!ReaderShape /\ s5 \in Resp!NetShape
      /\ s6 \in Resp!FlagsShape /\ s1 \in {"sse", "endpoint"} /\ Resp!EndpointControl
  BY DEF Resp!RespIInv, Resp!RespShape
<1>n. /\ s2.read \in Nat /\ s2.sent \in Nat /\ s2.read \in 0..MaxAnswers
      /\ s2.read + 1 # 0 /\ (s2.read + 1) - 1 = s2.read /\ (s2.read # 0 => s2.read > 0)
  BY RespCounts
<1> USE DEF Resp!AnswerShape, Resp!ReaderShape, Resp!NetShape, Resp!FlagsShape,
            Resp!EndpointControl, Resp!SessionOutlivesClient, Resp!Sse, Resp!Endpoint_, Resp!ReaderGoes, Resp!Failing
<1>1. CASE Resp!PluginAnswers
  BY <1>t, <1>1 DEF Resp!PluginAnswers
<1>2. CASE Resp!ClientGoes
  BY <1>t, <1>2 DEF Resp!ClientGoes
<1>3. CASE Resp!DeadlinePasses
  BY <1>t, <1>3 DEF Resp!DeadlinePasses
<1>4. CASE Resp!ReaderReads
  <2>1. CASE s2.read < s2.sent /\ s2' = [s2 EXCEPT !.read = @ + 1]
             /\ s4' = [s4 EXCEPT !.pc = "chunk", !.held = s2.read + 1]
    <3>1. /\ s2'.read = s2.read + 1 /\ s2'.sent = s2.sent /\ s2'.end = s2.end /\ s2'.closed = s2.closed
          /\ s4'.pc = "chunk" /\ s4'.held = s2.read + 1
      BY <1>t, <2>1, Zenon
    <3>2. UNCHANGED <<s1, s3, s5, s6, s7, s8>>
      BY <1>4 DEF Resp!ReaderReads
    <3>3. s4.pc = "next"
      BY <1>4 DEF Resp!ReaderReads
    <3> HIDE DEF Resp!AnswerShape, Resp!ReaderShape, Resp!NetShape, Resp!FlagsShape
    <3> QED
      BY <1>t, <1>n, <3>1, <3>2, <3>3
  <2>2. CASE s2.read = s2.sent /\ s2.end = "error" /\ ~s2.closed /\ UNCHANGED s2
             /\ s4' = [s4 EXCEPT !.pc = "chunk", !.held = 0, !.status = "error"]
    BY <1>t, <1>4, <2>2 DEF Resp!ReaderReads
  <2>3. CASE s2.read = s2.sent /\ (s2.end = "ok" \/ s2.closed) /\ Resp!ReaderGoes("ended") /\ UNCHANGED s2
    BY <1>t, <1>4, <2>3 DEF Resp!ReaderReads
  <2> QED
    BY <1>4, <2>1, <2>2, <2>3, Zenon DEF Resp!ReaderReads
<1>5. CASE Resp!SseGenerate
  BY <1>t, <1>5 DEF Resp!SseGenerate
<1>6. CASE Resp!WriteData
  BY <1>t, <1>6 DEF Resp!WriteData
<1>7. CASE Resp!WriteEvent_
  BY <1>t, <1>7 DEF Resp!WriteEvent_
<1>8. CASE Resp!SseComplete
  BY <1>t, <1>8 DEF Resp!SseComplete, Resp!Completes
<1>9. CASE Resp!SseSelect
  BY <1>t, <1>9 DEF Resp!SseSelect, Resp!Completes
<1>10. CASE Resp!SseReturn
  BY <1>t, <1>10 DEF Resp!SseReturn
<1>11. CASE Resp!EpDeadline
  BY <1>t, <1>11 DEF Resp!EpDeadline, Resp!EpReturns
<1>12. CASE Resp!EpClientDone
  BY <1>t, <1>12 DEF Resp!EpClientDone
<1>13. CASE Resp!EpChunk
  BY <1>t, <1>13 DEF Resp!EpChunk, Resp!EpReturns
<1>14. CASE Resp!EpReaderStops
  BY <1>t, <1>14 DEF Resp!EpReaderStops
<1>15. CASE Resp!RespOver
  BY <1>t, <1>15 DEF Resp!RespOver, Resp!respVars
<1> QED
  BY <1>1, <1>2, <1>3, <1>4, <1>5, <1>6, <1>7, <1>8, <1>9, <1>10, <1>11, <1>12, <1>13, <1>14, <1>15 DEF Resp!RespNext

\* Every step keeps what an endpoint's request has written.
LEMMA EndpointBodyStep ==
  ASSUME Resp!AnswersAssumption, Resp!RespIInv, Resp!RespNext
  PROVE  Resp!EndpointBody'
<1>t. /\ s2 \in Resp!AnswerShape /\ s4 \in Resp!ReaderShape /\ s5 \in Resp!NetShape
      /\ s6 \in Resp!FlagsShape /\ s1 \in {"sse", "endpoint"} /\ Resp!EndpointControl /\ Resp!EndpointBody
  BY DEF Resp!RespIInv, Resp!RespShape
<1>n. /\ s2.read \in Nat /\ s2.sent \in Nat /\ s2.read \in 0..MaxAnswers
      /\ s2.read + 1 # 0 /\ (s2.read + 1) - 1 = s2.read /\ (s2.read # 0 => s2.read > 0)
  BY RespCounts
<1> USE DEF Resp!AnswerShape, Resp!ReaderShape, Resp!NetShape, Resp!FlagsShape,
            Resp!EndpointControl, Resp!EndpointBody, Resp!Written, Resp!EndedIsWhole, Resp!Upto,
            Resp!Sse, Resp!Endpoint_, Resp!ReaderGoes, Resp!Failing
<1>1. CASE Resp!PluginAnswers
  BY <1>t, <1>1 DEF Resp!PluginAnswers
<1>2. CASE Resp!ClientGoes
  BY <1>t, <1>2 DEF Resp!ClientGoes
<1>3. CASE Resp!DeadlinePasses
  BY <1>t, <1>3 DEF Resp!DeadlinePasses
<1>4. CASE Resp!ReaderReads
  <2>1. CASE s2.read < s2.sent /\ s2' = [s2 EXCEPT !.read = @ + 1]
             /\ s4' = [s4 EXCEPT !.pc = "chunk", !.held = s2.read + 1]
    <3>1. /\ s2'.read = s2.read + 1 /\ s2'.sent = s2.sent /\ s2'.end = s2.end /\ s2'.closed = s2.closed
          /\ s4'.pc = "chunk" /\ s4'.held = s2.read + 1
      BY <1>t, <2>1, Zenon
    <3>2. UNCHANGED <<s1, s3, s5, s6, s7, s8>>
      BY <1>4 DEF Resp!ReaderReads
    <3>3. s4.pc = "next"
      BY <1>4 DEF Resp!ReaderReads
    <3> HIDE DEF Resp!AnswerShape, Resp!ReaderShape, Resp!NetShape, Resp!FlagsShape
    <3> QED
      BY <1>t, <1>n, <3>1, <3>2, <3>3
  <2>2. CASE s2.read = s2.sent /\ s2.end = "error" /\ ~s2.closed /\ UNCHANGED s2
             /\ s4' = [s4 EXCEPT !.pc = "chunk", !.held = 0, !.status = "error"]
    BY <1>t, <1>4, <2>2 DEF Resp!ReaderReads
  <2>3. CASE s2.read = s2.sent /\ (s2.end = "ok" \/ s2.closed) /\ Resp!ReaderGoes("ended") /\ UNCHANGED s2
    BY <1>t, <1>4, <2>3 DEF Resp!ReaderReads
  <2> QED
    BY <1>4, <2>1, <2>2, <2>3, Zenon DEF Resp!ReaderReads
<1>5. CASE Resp!SseGenerate
  BY <1>t, <1>5 DEF Resp!SseGenerate
<1>6. CASE Resp!WriteData
  BY <1>t, <1>6 DEF Resp!WriteData
<1>7. CASE Resp!WriteEvent_
  BY <1>t, <1>7 DEF Resp!WriteEvent_
<1>8. CASE Resp!SseComplete
  BY <1>t, <1>8 DEF Resp!SseComplete, Resp!Completes
<1>9. CASE Resp!SseSelect
  BY <1>t, <1>9 DEF Resp!SseSelect, Resp!Completes
<1>10. CASE Resp!SseReturn
  BY <1>t, <1>10 DEF Resp!SseReturn
<1>11. CASE Resp!EpDeadline
  BY <1>t, <1>11 DEF Resp!EpDeadline, Resp!EpReturns
<1>12. CASE Resp!EpClientDone
  BY <1>t, <1>12 DEF Resp!EpClientDone
<1>13. CASE Resp!EpChunk
  <2>1. s1' = "endpoint" /\ s1 = "endpoint" /\ s3 = "select" /\ s5.result = "none" /\ ~s2.closed
    BY <1>t, <1>13 DEF Resp!EpChunk
  <2>2. ASSUME NEW r, r # "ended", Resp!EpReturns(r) PROVE Resp!EndpointBody'
    <3>1. s3' = "returned" /\ s5'.result # "ended"
      BY <1>t, <2>2, Zenon DEF Resp!EpReturns
    <3> QED
      BY <2>1, <3>1
  <2>3. Resp!Failing # "ended"
    OBVIOUS
  <2>4. CASE s4.pc = "ended" /\ Resp!EpReturns(IF s6.connected THEN "ended" ELSE "none")
    <3>1. CASE ~s6.connected
      BY <2>2, <2>4, <3>1
    <3>2. CASE s6.connected
      <4>1. s2'.end = s2.end /\ s2'.sent = s2.sent /\ s5'.body = s5.body /\ s3' = "returned"
        BY <1>t, <2>4, Zenon DEF Resp!EpReturns
      <4>2. s2.end = "ok" /\ s5.body = Resp!Upto(s2.sent)
        BY <1>t, <2>1, <2>4, <3>2
      <4> QED
        BY <2>1, <4>1, <4>2
    <3> QED
      BY <3>1, <3>2
  <2>5. CASE /\ s4.pc = "chunk" /\ s4.held # 0 /\ s6.connected /\ UNCHANGED <<s2, s3, s6>>
             /\ s5' = [s5 EXCEPT !.body = Append(@, s4.held)] /\ Resp!ReaderGoes("next")
    <3>1. s5'.body = Append(s5.body, s4.held) /\ s5'.result = s5.result /\ s4'.pc = "next"
      BY <1>t, <2>5, Zenon
    <3>2. s4.held = s2.read /\ s5.body = Resp!Upto(s2.read - 1)
      BY <1>t, <2>1, <2>5
    <3>3. s2.read \in 0..MaxAnswers /\ s2.read > 0
      BY <1>n, <2>5, <3>2
    <3>4. Append(Resp!Upto(s2.read - 1), s2.read) = Resp!Upto(s2.read)
      BY <3>3, UptoSequence
    <3> HIDE DEF Resp!Upto, Resp!AnswerShape, Resp!ReaderShape, Resp!NetShape, Resp!FlagsShape
    <3> QED
      BY <2>1, <2>5, <3>1, <3>2, <3>4
  <2>6. CASE s6' = [s6 EXCEPT !.connected = FALSE] /\ UNCHANGED <<s2, s3, s5>>
    <3>1. ~s6'.connected
      BY <1>t, <2>6, Zenon
    <3> QED
      BY <2>1, <2>6, <3>1
  <2> QED
    BY <1>13, <2>2, <2>3, <2>4, <2>5, <2>6, Zenon DEF Resp!EpChunk
<1>14. CASE Resp!EpReaderStops
  BY <1>t, <1>14 DEF Resp!EpReaderStops
<1>15. CASE Resp!RespOver
  BY <1>t, <1>15 DEF Resp!RespOver, Resp!respVars
<1> QED
  BY <1>1, <1>2, <1>3, <1>4, <1>5, <1>6, <1>7, <1>8, <1>9, <1>10, <1>11, <1>12, <1>13, <1>14, <1>15 DEF Resp!RespNext

\* A step that leaves the variables of the unit alone.
LEMMA RespStutter ==
  ASSUME Resp!RespIInv, UNCHANGED unitVars
  PROVE  Resp!RespIInv'
<1> USE DEF unitVars
<1>1. Resp!RespShape'
  BY DEF Resp!RespIInv, Resp!RespShape
<1>2. Resp!SseControl' /\ Resp!SseGauge'
  BY DEF Resp!RespIInv, Resp!SseControl, Resp!SseGauge, Resp!ReaderLeft, Resp!Sse
<1>3. Resp!SseBody'
  BY DEF Resp!RespIInv, Resp!SseBody, Resp!Written, Resp!EndedIsWhole, Resp!Sse
<1>4. Resp!EndpointControl'
  BY DEF Resp!RespIInv, Resp!EndpointControl, Resp!SessionOutlivesClient, Resp!Endpoint_
<1>5. Resp!EndpointBody'
  BY DEF Resp!RespIInv, Resp!EndpointBody, Resp!Written, Resp!EndedIsWhole, Resp!Endpoint_, Resp!Sse
<1> QED
  BY <1>1, <1>2, <1>3, <1>4, <1>5 DEF Resp!RespIInv

\* Before the first step nothing is read and nothing written.
LEMMA RespInitial ==
  ASSUME Resp!AnswersAssumption, Resp!RespInit
  PROVE  Resp!RespIInv
<1> USE DEF Resp!RespInit
<1>1. Resp!RespShape
  <2>1. 0 \in 0..MaxAnswers /\ <<>> \in Seq(-1..MaxAnswers) /\ 0 \in Nat
    BY DEF Resp!AnswersAssumption
  <2>2. s2 \in Resp!AnswerShape /\ s5 \in Resp!NetShape /\ s6 \in Resp!FlagsShape
    BY <2>1, Zenon DEF Resp!AnswerShape, Resp!NetShape, Resp!FlagsShape
  <2>3. s4 \in Resp!ReaderShape
    BY <2>1 DEF Resp!ReaderShape
  <2> QED
    BY <2>2, <2>3 DEF Resp!RespShape
<1>2. Resp!SseControl /\ Resp!SseGauge
  BY DEF Resp!SseControl, Resp!SseGauge, Resp!ReaderLeft, Resp!Sse
<1>3. s5.body = Resp!Upto(s2.read)
  BY UptoSequence DEF Resp!AnswersAssumption
<1>4. Resp!SseBody
  BY <1>3 DEF Resp!SseBody, Resp!Written, Resp!Sse
<1>5. Resp!EndpointControl
  BY DEF Resp!EndpointControl, Resp!Endpoint_
<1>6. Resp!EndpointBody
  BY <1>3 DEF Resp!EndpointBody, Resp!Written, Resp!EndedIsWhole, Resp!Endpoint_
<1> QED
  BY <1>1, <1>2, <1>4, <1>5, <1>6 DEF Resp!RespIInv

\* A body that ended like a whole one is the plugin's whole answer in order, with the
\* error if it failed; one event at most is written after the handler has returned; a
\* client that leaves does not end an endpoint's session; and a request whose handler
\* waited for the reader is completed once (base_sse.go, endpoint.go), for answers of
\* any length.
THEOREM AnswersArriveWhole == ServicesSpec => []ResponsesAreWhole
<1> DEFINE Inv == unit = "response" => Resp!RespIInv
<1>1. ServicesInit => Inv
  BY RespInitial, ServicesAssumption DEF ServicesInit
<1>2. Inv /\ [ServicesNext]_servicesVars => Inv'
  <2> SUFFICES ASSUME Inv, [ServicesNext]_servicesVars, unit' = "response" PROVE Resp!RespIInv'
    OBVIOUS
  <2>1. unit = "response" /\ Resp!RespIInv
    BY DEF ServicesNext, servicesVars
  <2>2. CASE Resp!RespNext
    BY <2>1, <2>2, RespShapeStep, SseControlStep, SseGaugeStep, SseBodyStep, EndpointControlStep,
       EndpointBodyStep, ServicesAssumption DEF Resp!RespIInv
  <2>3. CASE UNCHANGED unitVars
    BY <2>1, <2>3, RespStutter
  <2> QED
    BY <2>1, <2>2, <2>3 DEF ServicesNext, servicesVars
<1>3. Inv => ResponsesAreWhole
  <2> SUFFICES ASSUME unit = "response", Resp!RespIInv
               PROVE  /\ Resp!RespTypeOK /\ Resp!EndedIsWhole /\ Resp!LateWritesBounded
                      /\ Resp!SessionOutlivesClient /\ Resp!CompletedOnce
    BY DEF ResponsesAreWhole
  <2>0. s1 \in {"sse", "endpoint"}
    BY DEF Resp!RespIInv, Resp!RespShape
  <2>1. Resp!RespTypeOK
    <3>1. s7 \in {-1, 0, 1}
      BY <2>0 DEF Resp!RespIInv, Resp!SseGauge, Resp!EndpointControl, Resp!Sse, Resp!Endpoint_
    <3>2. s2.read \in 0..s2.sent /\ s2.sent <= MaxAnswers /\ s5.body \in Seq(-1..MaxAnswers)
      <4>1. s2.sent \in 0..MaxAnswers /\ s2.read \in Nat /\ s2.read <= s2.sent /\ MaxAnswers \in Nat
        BY RespFields, ServicesAssumption DEF Resp!RespIInv, Resp!AnswersAssumption
      <4>2. s5.body \in Seq(-1..MaxAnswers)
        BY RespFields, ServicesAssumption DEF Resp!RespIInv
      <4> QED
        BY <4>1, <4>2
    <3>3. s3 \in {"generate", "select", "returning", "returned"}
      BY DEF Resp!RespIInv, Resp!RespShape
    <3>4. s4.pc \in {"none", "next", "chunk", "write", "ended", "gone"}
      BY DEF Resp!RespIInv, Resp!RespShape, Resp!ReaderShape
    <3>5. s5.result \in {"none", "ended", "refused", "status 500", "aborted"}
      BY RespFields, ServicesAssumption DEF Resp!RespIInv
    <3> QED
      BY <3>1, <3>2, <3>3, <3>4, <3>5 DEF Resp!RespTypeOK
  <2>2. Resp!EndedIsWhole
    BY <2>0 DEF Resp!RespIInv, Resp!SseBody, Resp!EndpointBody, Resp!Sse, Resp!Endpoint_, Resp!EndedIsWhole
  <2>3. Resp!LateWritesBounded
    <3>1. s5.late \in {0, 1}
      BY RespFields, ServicesAssumption DEF Resp!RespIInv
    <3> QED
      BY <3>1 DEF Resp!LateWritesBounded
  <2>4. Resp!SessionOutlivesClient
    BY DEF Resp!RespIInv, Resp!EndpointControl, Resp!SessionOutlivesClient
  <2>5. Resp!CompletedOnce
    BY DEF Resp!RespIInv, Resp!SseControl, Resp!SseGauge, Resp!ReaderLeft, Resp!CompletedOnce, Resp!Sse
  <2> QED
    BY <2>1, <2>2, <2>3, <2>4, <2>5
<1> QED
  BY <1>1, <1>2, <1>3, PTL DEF ServicesSpec

------------------------------------------------------------------------------
(* Endpoints *)

\* The instance takes these operators from FiniteSets, too.
LEMMA EpFiniteSets ==
  ASSUME NEW S
  PROVE  (Ep!IsFiniteSet(S) <=> IsFiniteSet(S)) /\ Ep!Cardinality(S) = Cardinality(S)
<1>1. Ep!IsFiniteSet(S) <=> IsFiniteSet(S)
  BY Zenon DEF Ep!IsFiniteSet, IsFiniteSet
<1>2. Ep!Cardinality(S) = Cardinality(S)
  BY Zenon DEF Ep!Cardinality, Cardinality
<1> QED
  BY <1>1, <1>2

\* What a request becomes when it goes on, goes on with a row, or ends; the others stay.
LEMMA ReqMoves ==
  ASSUME s5 \in [EpProcs -> Ep!ReqShape], NEW p \in EpProcs,
         NEW c \in {"idle", "start", "save", "uncache", "read", "store", "serve"}
  PROVE  /\ Ep!ReqGoes(p, c) =>
              /\ s5' \in [EpProcs -> Ep!ReqShape]
              /\ s5'[p].op = s5[p].op /\ s5'[p].pc = c /\ s5'[p].ep = s5[p].ep /\ s5'[p].row = s5[p].row
              /\ \A q \in EpProcs \ {p} : s5'[q] = s5[q]
         /\ \A r \in Ep!Rows_ : s5' = [s5 EXCEPT ![p].pc = c, ![p].row = r] =>
              /\ s5' \in [EpProcs -> Ep!ReqShape]
              /\ s5'[p].op = s5[p].op /\ s5'[p].pc = c /\ s5'[p].ep = s5[p].ep /\ s5'[p].row = r
              /\ \A q \in EpProcs \ {p} : s5'[q] = s5[q]
         /\ Ep!ReqEnds(p) =>
              /\ s5' \in [EpProcs -> Ep!ReqShape]
              /\ s5'[p].pc = "idle"
              /\ \A q \in EpProcs \ {p} : s5'[q] = s5[q]
<1>1. Ep!IdleReq \in Ep!ReqShape /\ Ep!IdleReq.pc = "idle"
  <2>1. Ep!NoRow \in Ep!Rows_
    BY DEF Ep!NoRow, Ep!Rows_
  <2> QED
    BY <2>1 DEF Ep!IdleReq, Ep!ReqShape
<1>2. ASSUME Ep!ReqGoes(p, c)
      PROVE  /\ s5' \in [EpProcs -> Ep!ReqShape]
             /\ s5'[p].op = s5[p].op /\ s5'[p].pc = c /\ s5'[p].ep = s5[p].ep /\ s5'[p].row = s5[p].row
             /\ \A q \in EpProcs \ {p} : s5'[q] = s5[q]
  BY <1>2 DEF Ep!ReqGoes, Ep!ReqShape
<1>3. ASSUME NEW r \in Ep!Rows_, s5' = [s5 EXCEPT ![p].pc = c, ![p].row = r]
      PROVE  /\ s5' \in [EpProcs -> Ep!ReqShape]
             /\ s5'[p].op = s5[p].op /\ s5'[p].pc = c /\ s5'[p].ep = s5[p].ep /\ s5'[p].row = r
             /\ \A q \in EpProcs \ {p} : s5'[q] = s5[q]
  BY <1>3 DEF Ep!ReqShape
<1>4. ASSUME Ep!ReqEnds(p)
      PROVE  s5' \in [EpProcs -> Ep!ReqShape] /\ s5'[p].pc = "idle" /\ \A q \in EpProcs \ {p} : s5'[q] = s5[q]
  BY <1>1, <1>4 DEF Ep!ReqEnds
<1> QED
  BY <1>2, <1>3, <1>4

\* The rows of the table and of the cache have their fields.
LEMMA RowFacts ==
  /\ Ep!NoRow \in Ep!Rows_ /\ ~Ep!NoRow.there /\ ~Ep!NoRow.enabled
  /\ Ep!NewRow \in Ep!Rows_ /\ Ep!NewRow.there /\ Ep!NewRow.enabled
  /\ \A r \in Ep!Rows_ : r.there \in BOOLEAN /\ r.enabled \in BOOLEAN
  /\ \A r \in Ep!Rows_, k \in 0..2 :
       LET w == [r EXCEPT !.settings = k]
       IN  w \in Ep!Rows_ /\ w.there = r.there /\ w.enabled = r.enabled
  /\ \A r \in Ep!Rows_, b \in BOOLEAN :
       LET w == [r EXCEPT !.enabled = b]
       IN  w \in Ep!Rows_ /\ w.there = r.there /\ w.enabled = b
<1>1. /\ Ep!NoRow \in Ep!Rows_ /\ ~Ep!NoRow.there /\ ~Ep!NoRow.enabled
      /\ Ep!NewRow \in Ep!Rows_ /\ Ep!NewRow.there /\ Ep!NewRow.enabled
  BY DEF Ep!NoRow, Ep!NewRow, Ep!Rows_
<1>2. \A r \in Ep!Rows_ : r.there \in BOOLEAN /\ r.enabled \in BOOLEAN
  BY Zenon DEF Ep!Rows_
<1>3. \A r \in Ep!Rows_, k \in 0..2 :
        LET w == [r EXCEPT !.settings = k]
        IN  w \in Ep!Rows_ /\ w.there = r.there /\ w.enabled = r.enabled
  BY Zenon DEF Ep!Rows_
<1>4. \A r \in Ep!Rows_, b \in BOOLEAN :
        LET w == [r EXCEPT !.enabled = b]
        IN  w \in Ep!Rows_ /\ w.there = r.there /\ w.enabled = b
  BY Zenon DEF Ep!Rows_
<1> QED
  BY <1>1, <1>2, <1>3, <1>4

\* A step of a request that changes neither the table nor the cache.
LEMMA EpQuiet ==
  ASSUME Ep!EpIInv, NEW p \in EpProcs, UNCHANGED <<s1, s2, s3, s4, s6, s7, s8, s9>>,
         s5' \in [EpProcs -> Ep!ReqShape], \A q \in EpProcs \ {p} : s5'[q] = s5[q],
         s5[p].pc # "uncache", Ep!Knows(p)'
  PROVE  Ep!EpIInv'
<1>1. Ep!EpShape'
  <2>1. \A q \in EpProcs : s5'[q].row \in Ep!Rows_ /\ s5'[q].pc \in
          {"idle", "start", "save", "uncache", "read", "store", "serve"}
    BY DEF Ep!ReqShape
  <2> QED
    BY <2>1 DEF Ep!EpIInv, Ep!EpShape, Ep!EpTypeOK
<1>2. ASSUME NEW q \in EpProcs PROVE Ep!Knows(q)'
  BY DEF Ep!EpIInv, Ep!Knows, Ep!Ep
<1>3. Ep!CacheKnown'
  <2>1. \A e \in EpIds : (\A q \in EpProcs : ~(s5'[q].ep = e /\ s5'[q].pc = "uncache"))
                           => \A q \in EpProcs : ~(s5[q].ep = e /\ s5[q].pc = "uncache")
    OBVIOUS
  <2> QED
    BY <2>1 DEF Ep!EpIInv, Ep!CacheKnown, Ep!Ep
<1>4. Ep!CountsExact'
  BY DEF Ep!EpIInv, Ep!CountsExact
<1> QED
  BY <1>1, <1>2, <1>3, <1>4 DEF Ep!EpIInv

\* A step of a request that changes its row: every request that read the row to cache it
\* is noted, and the cached row is about to be cleared, noted or not there.
LEMMA EpRowChanges ==
  ASSUME Ep!EpIInv, NEW p \in EpProcs, NEW w \in Ep!Rows_, w.there \/ w = Ep!NoRow,
         s5[p].ep \in EpIds, s5[p].pc \in {"start", "save"},
         s1' = [s1 EXCEPT ![s5[p].ep] = w], s4' = s4, s6' = s6 \cup {s5[p].ep},
         s9' \in {s9, s9 \cup {s5[p].ep}}, s5[p].ep \in s9' \/ ~Ep!Cached(s5[p].ep),
         s5[p].ep \in s9' \/ ~s4[s5[p].ep].there \/ s5'[p].pc = "uncache",
         s5' \in [EpProcs -> Ep!ReqShape], \A q \in EpProcs \ {p} : s5'[q] = s5[q],
         s5'[p].pc \in {"idle", "save", "uncache"}, s5'[p].pc # "idle" => s5'[p].ep = s5[p].ep,
         s5'[p].pc = "save" => s5'[p].row.there,
         s2' \in Int, s3' \in Int, s7' \in BOOLEAN, s8' \in BOOLEAN
  PROVE  Ep!EpShape' /\ (\A q \in EpProcs : Ep!Knows(q)') /\ Ep!CacheKnown'
<1>1. Ep!EpShape'
  <2>1. \A q \in EpProcs : s5'[q].row \in Ep!Rows_ /\ s5'[q].pc \in
          {"idle", "start", "save", "uncache", "read", "store", "serve"}
    BY DEF Ep!ReqShape
  <2>2. Ep!IsFiniteSet(s6')
    <3>1. IsFiniteSet(s6)
      BY EpFiniteSets DEF Ep!EpIInv, Ep!EpShape
    <3>2. IsFiniteSet(s6 \cup {s5[p].ep})
      BY <3>1, FS_AddElement
    <3> QED
      BY <3>2, EpFiniteSets
  <2>3. /\ s1' \in [EpIds -> Ep!Rows_] /\ \A e \in EpIds : s1'[e].there => e \in s6'
        /\ \A e \in EpIds : ~s1'[e].there => s1'[e] = Ep!NoRow
    BY DEF Ep!EpIInv, Ep!EpShape, Ep!EpTypeOK
  <2> QED
    <3>1. s6' \subseteq EpIds /\ s9' \subseteq EpIds /\ s4' \in [EpIds -> Ep!Rows_]
      BY DEF Ep!EpIInv, Ep!EpShape, Ep!EpTypeOK
    <3> QED
      BY <2>1, <2>2, <2>3, <3>1 DEF Ep!EpShape, Ep!EpTypeOK
<1>2. ASSUME NEW q \in EpProcs PROVE Ep!Knows(q)'
  <2>1. CASE q = p
    BY <2>1 DEF Ep!Knows, Ep!Ep
  <2>2. CASE q # p
    <3>1. Ep!Knows(q) /\ s5'[q] = s5[q]
      BY <2>2 DEF Ep!EpIInv
    <3>2. CASE s5[q].pc = "store" /\ s5[q].ep = s5[p].ep /\ s5[q].ep \notin s9'
      <4>1. Ep!Cached(s5[p].ep)
        BY <3>1, <3>2 DEF Ep!Cached, Ep!ReqAt, Ep!Knows, Ep!Ep
      <4> QED
        BY <3>2, <4>1
    <3>3. CASE ~(s5[q].pc = "store" /\ s5[q].ep = s5[p].ep /\ s5[q].ep \notin s9')
      <4>1. s5[q].pc = "store" /\ s5[q].ep \notin s9' => s5[q].row = s1'[s5[q].ep]
        BY <3>1, <3>3 DEF Ep!Knows, Ep!Ep, Ep!EpIInv, Ep!EpShape, Ep!EpTypeOK
      <4> QED
        BY <3>1, <4>1 DEF Ep!Knows, Ep!Ep
    <3> QED
      BY <3>2, <3>3
  <2> QED
    BY <2>1, <2>2
<1>3. Ep!CacheKnown'
  <2>1. ASSUME NEW e \in EpIds \ s6' PROVE s4'[e] = Ep!NoRow
    BY DEF Ep!EpIInv, Ep!CacheKnown
  <2>2. ASSUME NEW e \in EpIds \ s9', \A q \in EpProcs : ~(s5'[q].ep = e /\ s5'[q].pc = "uncache")
        PROVE  s4'[e] \in {Ep!NoRow, s1'[e]}
    <3>1. s4[e] \in {Ep!NoRow, s1[e]}
      <4>1. \A q \in EpProcs : ~(s5[q].ep = e /\ s5[q].pc = "uncache")
        BY <2>2
      <4> QED
        BY <2>2, <4>1 DEF Ep!EpIInv, Ep!CacheKnown, Ep!Ep
    <3>2. CASE e # s5[p].ep
      BY <3>1, <3>2 DEF Ep!EpIInv, Ep!EpShape, Ep!EpTypeOK
    <3>3. CASE e = s5[p].ep
      <4>1. ~s4[e].there
        BY <2>2, <3>3
      <4>2. s4[e] = Ep!NoRow
        BY <3>1, <4>1 DEF Ep!EpIInv, Ep!EpShape, Ep!EpTypeOK
      <4> QED
        BY <4>2
    <3> QED
      BY <3>2, <3>3
  <2> QED
    BY <2>1, <2>2 DEF Ep!CacheKnown, Ep!Ep
<1> QED
  BY <1>1, <1>2, <1>3

\* The number of rows with a field set when one row changes.
LEMMA EpCounting ==
  ASSUME Ep!EpShape, NEW e \in EpIds, NEW w \in Ep!Rows_, s1' = [s1 EXCEPT ![e] = w],
         w.there \/ w = Ep!NoRow
  PROVE  /\ Ep!Cardinality({x \in EpIds : s1[x].there}) \in Int
         /\ Ep!Cardinality({x \in EpIds : s1[x].enabled}) \in Int
         /\ Ep!Cardinality({x \in EpIds : s1'[x].there}) =
              Ep!Cardinality({x \in EpIds : s1[x].there})
                + (IF w.there = s1[e].there THEN 0 ELSE IF w.there THEN 1 ELSE -1)
         /\ Ep!Cardinality({x \in EpIds : s1'[x].enabled}) =
              Ep!Cardinality({x \in EpIds : s1[x].enabled})
                + (IF w.enabled = s1[e].enabled THEN 0 ELSE IF w.enabled THEN 1 ELSE -1)
<1> DEFINE T == {x \in EpIds : s1[x].there}
           E == {x \in EpIds : s1[x].enabled}
           TN == {x \in EpIds : s1'[x].there}
           EN == {x \in EpIds : s1'[x].enabled}
<1>1. IsFiniteSet(T) /\ IsFiniteSet(E)
  <2>1. IsFiniteSet(s6)
    BY EpFiniteSets DEF Ep!EpShape
  <2>2. T \subseteq s6
    BY DEF Ep!EpShape, Ep!EpTypeOK
  <2>3. E \subseteq s6
    BY RowFacts DEF Ep!EpShape, Ep!EpTypeOK
  <2> QED
    BY <2>1, <2>2, <2>3, FS_Subset
<1>2. s1 \in [EpIds -> Ep!Rows_] /\ s1[e] \in Ep!Rows_
  BY DEF Ep!EpShape, Ep!EpTypeOK
<1>3. /\ w.there \in BOOLEAN /\ w.enabled \in BOOLEAN
      /\ s1[e].there \in BOOLEAN /\ s1[e].enabled \in BOOLEAN
  BY <1>2, RowFacts
<1>4. TN = IF w.there THEN T \cup {e} ELSE T \ {e}
  BY <1>2, <1>3
<1>5. EN = IF w.enabled THEN E \cup {e} ELSE E \ {e}
  BY <1>2, <1>3
<1>6. (e \in T <=> s1[e].there) /\ (e \in E <=> s1[e].enabled)
  OBVIOUS
<1> HIDE DEF T, E, TN, EN
<1>7. Cardinality(T) \in Nat /\ Cardinality(E) \in Nat
  BY <1>1, FS_CardinalityType
<1>8. Cardinality(TN) = Cardinality(T) + (IF w.there = s1[e].there THEN 0 ELSE IF w.there THEN 1 ELSE -1)
  <2>1. CASE w.there /\ s1[e].there
    <3>1. w.there = s1[e].there
      BY <1>3, <2>1, Zenon
    <3>2. TN = T
      BY <1>4, <1>6, <2>1
    <3> QED
      BY <1>7, <3>1, <3>2
  <2>2. CASE w.there /\ ~s1[e].there
    BY <1>1, <1>4, <1>6, <1>7, <2>2, FS_AddElement
  <2>3. CASE ~w.there /\ s1[e].there
    BY <1>1, <1>4, <1>6, <1>7, <2>3, FS_RemoveElement
  <2>4. CASE ~w.there /\ ~s1[e].there
    <3>1. w.there = s1[e].there
      BY <1>3, <2>4, Zenon
    <3>2. TN = T
      BY <1>4, <1>6, <2>4
    <3> QED
      BY <1>7, <3>1, <3>2
  <2> QED
    BY <1>3, <2>1, <2>2, <2>3, <2>4
<1>9. Cardinality(EN) = Cardinality(E) + (IF w.enabled = s1[e].enabled THEN 0 ELSE IF w.enabled THEN 1 ELSE -1)
  <2>1. CASE w.enabled /\ s1[e].enabled
    <3>1. w.enabled = s1[e].enabled
      BY <1>3, <2>1, Zenon
    <3>2. EN = E
      BY <1>5, <1>6, <2>1
    <3> QED
      BY <1>7, <3>1, <3>2
  <2>2. CASE w.enabled /\ ~s1[e].enabled
    BY <1>1, <1>5, <1>6, <1>7, <2>2, FS_AddElement
  <2>3. CASE ~w.enabled /\ s1[e].enabled
    BY <1>1, <1>5, <1>6, <1>7, <2>3, FS_RemoveElement
  <2>4. CASE ~w.enabled /\ ~s1[e].enabled
    <3>1. w.enabled = s1[e].enabled
      BY <1>3, <2>4, Zenon
    <3>2. EN = E
      BY <1>5, <1>6, <2>4
    <3> QED
      BY <1>7, <3>1, <3>2
  <2> QED
    BY <1>3, <2>1, <2>2, <2>3, <2>4
<1>10. /\ Ep!Cardinality(T) = Cardinality(T) /\ Ep!Cardinality(E) = Cardinality(E)
       /\ Ep!Cardinality(TN) = Cardinality(TN) /\ Ep!Cardinality(EN) = Cardinality(EN)
  BY EpFiniteSets
<1>11. /\ Ep!Cardinality(T) \in Int /\ Ep!Cardinality(E) \in Int
       /\ Ep!Cardinality(TN) = Ep!Cardinality(T)
            + (IF w.there = s1[e].there THEN 0 ELSE IF w.there THEN 1 ELSE -1)
       /\ Ep!Cardinality(EN) = Ep!Cardinality(E)
            + (IF w.enabled = s1[e].enabled THEN 0 ELSE IF w.enabled THEN 1 ELSE -1)
  BY <1>7, <1>8, <1>9, <1>10
<1> QED
  BY <1>11 DEF T, E, TN, EN

\* The steps that read, refuse or end leave table and cache alone.
LEMMA EpQuietSteps ==
  ASSUME Ep!EpIInv, NEW p \in EpProcs,
         \/ \E e \in EpIds :
              \/ \E op \in {"remove", "enable", "disable", "invoke"} : Ep!EpCall(p, op, e, 0)
              \/ Ep!EpCall(p, "setup", e, 1)
              \/ \E new \in {0, 2} : Ep!EpCall(p, "update", e, new)
         \/ Ep!SetupTaken(p) \/ Ep!UpdateRead(p) \/ Ep!InvokeGet(p) \/ Ep!InvokeRead(p) \/ Ep!InvokeServe(p)
         \/ /\ s5[p].pc # "uncache" /\ Ep!ReqEnds(p)
            /\ UNCHANGED <<s1, s2, s3, s4, s6, s7, s8, s9>>
  PROVE  Ep!EpIInv'
<1>0. s5 \in [EpProcs -> Ep!ReqShape] /\ Ep!Knows(p)
  BY DEF Ep!EpIInv, Ep!EpShape
<1>1. ASSUME s5[p].pc # "uncache", Ep!ReqEnds(p), UNCHANGED <<s1, s2, s3, s4, s6, s7, s8, s9>>
      PROVE  Ep!EpIInv'
  <2>1. /\ s5' \in [EpProcs -> Ep!ReqShape] /\ s5'[p].pc = "idle"
        /\ \A q \in EpProcs \ {p} : s5'[q] = s5[q]
    BY <1>0, <1>1, ReqMoves
  <2>2. Ep!Knows(p)'
    BY <2>1 DEF Ep!Knows
  <2> QED
    BY <1>1, <2>1, <2>2, EpQuiet
<1>2. ASSUME NEW e \in EpIds, NEW new \in {0, 1, 2},
             NEW op \in {"setup", "update", "remove", "enable", "disable", "invoke"},
             Ep!EpCall(p, op, e, new)
      PROVE  Ep!EpIInv'
  <2> DEFINE r == [op |-> op, pc |-> "start", ep |-> e, row |-> Ep!NoRow, new |-> new]
  <2>1. r \in Ep!ReqShape
    BY RowFacts DEF Ep!ReqShape
  <2>2. s5' = [s5 EXCEPT ![p] = r] /\ s5[p].pc = "idle" /\ (op # "setup" => e \in s6)
    BY <1>2 DEF Ep!EpCall
  <2>3. s5' \in [EpProcs -> Ep!ReqShape] /\ s5'[p] = r /\ \A q \in EpProcs \ {p} : s5'[q] = s5[q]
    BY <1>0, <2>1, <2>2, Zenon
  <2>4. UNCHANGED <<s1, s2, s3, s4, s6, s7, s8, s9>>
    BY <1>2 DEF Ep!EpCall
  <2>5. Ep!Knows(p)'
    BY <2>2, <2>3, <2>4 DEF Ep!Knows, Ep!Ep
  <2> HIDE DEF r
  <2> QED
    BY <2>2, <2>3, <2>4, <2>5, EpQuiet
<1>3. CASE Ep!SetupTaken(p)
  BY <1>1, <1>3 DEF Ep!SetupTaken, Ep!ReqAt
<1>4. CASE Ep!UpdateRead(p)
  <2>1. s5[p].pc = "start" /\ s5[p].op = "update" /\ UNCHANGED <<s1, s2, s3, s4, s6, s7, s8, s9>>
    BY <1>4 DEF Ep!UpdateRead, Ep!ReqAt
  <2>2. CASE s1[s5[p].ep].there /\ s5' = [s5 EXCEPT ![p].pc = "save", ![p].row = s1[s5[p].ep]]
    <3>1. s5[p].ep \in s6 /\ s5[p].ep \in EpIds
      BY <1>0, <2>1 DEF Ep!Knows, Ep!Ep
    <3>2. s1[s5[p].ep] \in Ep!Rows_
      BY <3>1 DEF Ep!EpIInv, Ep!EpShape, Ep!EpTypeOK
    <3>3. /\ s5' \in [EpProcs -> Ep!ReqShape]
          /\ s5'[p].op = s5[p].op /\ s5'[p].pc = "save" /\ s5'[p].ep = s5[p].ep
          /\ s5'[p].row = s1[s5[p].ep] /\ \A q \in EpProcs \ {p} : s5'[q] = s5[q]
      BY <1>0, <2>2, <3>2, ReqMoves
    <3>4. Ep!Knows(p)'
      BY <2>1, <2>2, <3>1, <3>3 DEF Ep!Knows, Ep!Ep
    <3> QED
      BY <2>1, <3>3, <3>4, EpQuiet
  <2> QED
    BY <1>1, <1>4, <2>1, <2>2 DEF Ep!UpdateRead, Ep!Ep
<1>5. CASE Ep!InvokeGet(p)
  <2>1. s5[p].pc = "start" /\ s5[p].op = "invoke" /\ UNCHANGED <<s1, s2, s3, s4, s6, s7, s8, s9>>
    BY <1>5 DEF Ep!InvokeGet, Ep!ReqAt
  <2>2. s5[p].ep \in s6 /\ s5[p].ep \in EpIds
    BY <1>0, <2>1 DEF Ep!Knows, Ep!Ep
  <2>3. CASE s5' = [s5 EXCEPT ![p].pc = "serve", ![p].row = s4[s5[p].ep]]
    <3>1. s4[s5[p].ep] \in Ep!Rows_
      BY <2>2 DEF Ep!EpIInv, Ep!EpShape, Ep!EpTypeOK
    <3>2. /\ s5' \in [EpProcs -> Ep!ReqShape]
          /\ s5'[p].op = s5[p].op /\ s5'[p].pc = "serve" /\ s5'[p].ep = s5[p].ep
          /\ \A q \in EpProcs \ {p} : s5'[q] = s5[q]
      BY <1>0, <2>3, <3>1, ReqMoves
    <3>3. Ep!Knows(p)'
      BY <2>1, <2>2, <3>2 DEF Ep!Knows, Ep!Ep
    <3> QED
      BY <2>1, <3>2, <3>3, EpQuiet
  <2>4. CASE Ep!ReqGoes(p, "read")
    <3>1. /\ s5' \in [EpProcs -> Ep!ReqShape]
          /\ s5'[p].op = s5[p].op /\ s5'[p].pc = "read" /\ s5'[p].ep = s5[p].ep
          /\ \A q \in EpProcs \ {p} : s5'[q] = s5[q]
      BY <1>0, <2>4, ReqMoves
    <3>2. Ep!Knows(p)'
      BY <2>1, <2>2, <3>1 DEF Ep!Knows, Ep!Ep
    <3> QED
      BY <2>1, <3>1, <3>2, EpQuiet
  <2> QED
    BY <1>1, <1>5, <2>1, <2>3, <2>4 DEF Ep!InvokeGet, Ep!Ep
<1>6. CASE Ep!InvokeRead(p)
  <2>1. s5[p].pc = "read" /\ s5[p].op = "invoke" /\ UNCHANGED <<s1, s2, s3, s4, s6, s7, s8, s9>>
    BY <1>6 DEF Ep!InvokeRead, Ep!ReqAt
  <2>2. s5[p].ep \in s6 /\ s5[p].ep \in EpIds
    BY <1>0, <2>1 DEF Ep!Knows, Ep!Ep
  <2>3. CASE s5' = [s5 EXCEPT ![p].pc = "store", ![p].row = s1[s5[p].ep]]
    <3>1. s1[s5[p].ep] \in Ep!Rows_
      BY <2>2 DEF Ep!EpIInv, Ep!EpShape, Ep!EpTypeOK
    <3>2. /\ s5' \in [EpProcs -> Ep!ReqShape]
          /\ s5'[p].op = s5[p].op /\ s5'[p].pc = "store" /\ s5'[p].ep = s5[p].ep
          /\ s5'[p].row = s1[s5[p].ep] /\ \A q \in EpProcs \ {p} : s5'[q] = s5[q]
      BY <1>0, <2>3, <3>1, ReqMoves
    <3>3. Ep!Knows(p)'
      BY <2>1, <2>2, <3>2 DEF Ep!Knows, Ep!Ep
    <3> QED
      BY <2>1, <3>2, <3>3, EpQuiet
  <2> QED
    BY <1>1, <1>6, <2>1, <2>3 DEF Ep!InvokeRead, Ep!Ep
<1>7. CASE Ep!InvokeServe(p)
  BY <1>1, <1>7 DEF Ep!InvokeServe, Ep!ReqAt
<1> QED
  BY <1>1, <1>2, <1>3, <1>4, <1>5, <1>6, <1>7

\* The steps that fill or clear the cache.
LEMMA EpCacheSteps ==
  ASSUME Ep!EpIInv,
         \/ \E e \in EpIds : Ep!EpCacheExpires(e)
         \/ \E p \in EpProcs : Ep!InvokeStore(p) \/ Ep!InvalidateEndpointCache(p)
  PROVE  Ep!EpIInv'
<1>1. ASSUME NEW e \in EpIds, NEW c \in Ep!Rows_, s4' = [s4 EXCEPT ![e] = c],
             UNCHANGED <<s1, s2, s3, s6, s7, s8, s9>>, s5' \in [EpProcs -> Ep!ReqShape],
             \A q \in EpProcs : Ep!Knows(q)',
             e \in s9 \/ c \in {Ep!NoRow, s1[e]}, e \in s6 \/ c = Ep!NoRow,
             \A q \in EpProcs : s5[q].pc = "uncache" /\ s5'[q] # s5[q] => s5[q].ep = e
      PROVE  Ep!EpIInv'
  <2>1. Ep!EpShape'
    <3>1. \A q \in EpProcs : s5'[q].row \in Ep!Rows_ /\ s5'[q].pc \in
            {"idle", "start", "save", "uncache", "read", "store", "serve"}
      BY <1>1 DEF Ep!ReqShape
    <3>2. s4' \in [EpIds -> Ep!Rows_]
      BY <1>1 DEF Ep!EpIInv, Ep!EpShape, Ep!EpTypeOK
    <3> QED
      BY <1>1, <3>1, <3>2 DEF Ep!EpIInv, Ep!EpShape, Ep!EpTypeOK
  <2>2. Ep!CacheKnown'
    <3>1. ASSUME NEW x \in EpIds \ s6' PROVE s4'[x] = Ep!NoRow
      BY <1>1, <3>1 DEF Ep!EpIInv, Ep!EpShape, Ep!EpTypeOK, Ep!CacheKnown
    <3>2. ASSUME NEW x \in EpIds \ s9', \A q \in EpProcs : ~(s5'[q].ep = x /\ s5'[q].pc = "uncache")
          PROVE  s4'[x] \in {Ep!NoRow, s1'[x]}
      <4>1. CASE x = e
        BY <1>1, <3>2, <4>1 DEF Ep!EpIInv, Ep!EpShape, Ep!EpTypeOK
      <4>2. CASE x # e
        <5>1. \A q \in EpProcs : ~(s5[q].ep = x /\ s5[q].pc = "uncache")
          BY <1>1, <3>2, <4>2
        <5> QED
          BY <1>1, <3>2, <4>2, <5>1 DEF Ep!EpIInv, Ep!EpShape, Ep!EpTypeOK, Ep!CacheKnown, Ep!Ep
      <4> QED
        BY <4>1, <4>2
    <3> QED
      BY <3>1, <3>2 DEF Ep!CacheKnown, Ep!Ep
  <2>3. Ep!CountsExact'
    BY <1>1 DEF Ep!EpIInv, Ep!CountsExact
  <2> QED
    BY <1>1, <2>1, <2>2, <2>3 DEF Ep!EpIInv
<1>2. ASSUME NEW e \in EpIds, Ep!EpCacheExpires(e) PROVE Ep!EpIInv'
  <2>1. UNCHANGED <<s1, s2, s3, s5, s6, s7, s8, s9>> /\ s4' = [s4 EXCEPT ![e] = Ep!NoRow]
    BY <1>2 DEF Ep!EpCacheExpires
  <2>2. \A q \in EpProcs : Ep!Knows(q)'
    BY <2>1 DEF Ep!EpIInv, Ep!Knows, Ep!Ep
  <2>3. s5' \in [EpProcs -> Ep!ReqShape]
    BY <2>1 DEF Ep!EpIInv, Ep!EpShape
  <2> QED
    BY <1>1, <2>1, <2>2, <2>3, RowFacts
<1>3. ASSUME NEW p \in EpProcs, Ep!InvokeStore(p) PROVE Ep!EpIInv'
  <2>0. s5 \in [EpProcs -> Ep!ReqShape] /\ \A q \in EpProcs : Ep!Knows(q)
    BY DEF Ep!EpIInv, Ep!EpShape
  <2>1. s5[p].pc = "store" /\ s5[p].op = "invoke" /\ UNCHANGED <<s1, s2, s3, s6, s7, s8, s9>>
    BY <1>3 DEF Ep!InvokeStore, Ep!ReqAt
  <2>2. CASE Ep!ReqEnds(p) /\ UNCHANGED s4
    BY <2>1, <2>2, EpQuietSteps
  <2>3. CASE s4' = [s4 EXCEPT ![s5[p].ep] = s5[p].row] /\ Ep!ReqGoes(p, "serve")
    <3>1. /\ s5[p].ep \in s6 /\ s5[p].ep \in EpIds
          /\ s5[p].ep \in s9 \/ s5[p].row = s1[s5[p].ep]
      BY <2>0, <2>1 DEF Ep!Knows, Ep!Ep
    <3>2. s5[p].row \in Ep!Rows_
      BY <2>0 DEF Ep!ReqShape
    <3>3. /\ s5' \in [EpProcs -> Ep!ReqShape]
          /\ s5'[p].op = s5[p].op /\ s5'[p].pc = "serve" /\ s5'[p].ep = s5[p].ep
          /\ \A q \in EpProcs \ {p} : s5'[q] = s5[q]
      BY <2>0, <2>3, ReqMoves
    <3>4. \A q \in EpProcs : Ep!Knows(q)'
      BY <2>0, <2>1, <3>1, <3>3 DEF Ep!Knows, Ep!Ep
    <3>5. \A q \in EpProcs : s5[q].pc = "uncache" /\ s5'[q] # s5[q] => s5[q].ep = s5[p].ep
      BY <3>3
    <3> QED
      BY <1>1, <2>1, <2>3, <3>1, <3>2, <3>3, <3>4, <3>5
  <2> QED
    BY <1>3, <2>2, <2>3 DEF Ep!InvokeStore, Ep!Ep
<1>4. ASSUME NEW p \in EpProcs, Ep!InvalidateEndpointCache(p) PROVE Ep!EpIInv'
  <2>0. s5 \in [EpProcs -> Ep!ReqShape] /\ \A q \in EpProcs : Ep!Knows(q)
    BY DEF Ep!EpIInv, Ep!EpShape
  <2>1. s5[p].pc = "uncache" /\ Ep!ReqEnds(p) /\ UNCHANGED <<s1, s2, s3, s6, s7, s8>>
    BY <1>4 DEF Ep!InvalidateEndpointCache
  <2>2. s5[p].ep \in s6 /\ s5[p].ep \in EpIds
    BY <2>0, <2>1 DEF Ep!Knows, Ep!Ep
  <2>3. /\ s5' \in [EpProcs -> Ep!ReqShape] /\ s5'[p].pc = "idle"
        /\ \A q \in EpProcs \ {p} : s5'[q] = s5[q]
    BY <2>0, <2>1, ReqMoves
  <2>4. CASE s4' = [s4 EXCEPT ![s5[p].ep] = Ep!NoRow] /\ UNCHANGED s9
    <3>1. \A q \in EpProcs : Ep!Knows(q)'
      BY <2>0, <2>1, <2>3, <2>4 DEF Ep!Knows, Ep!Ep
    <3>2. \A q \in EpProcs : s5[q].pc = "uncache" /\ s5'[q] # s5[q] => s5[q].ep = s5[p].ep
      BY <2>3
    <3> QED
      BY <1>1, <2>1, <2>2, <2>3, <2>4, <3>1, <3>2, RowFacts
  <2>5. CASE s9' = s9 \cup {s5[p].ep} /\ UNCHANGED s4
    <3>1. \A q \in EpProcs : Ep!Knows(q)'
      BY <2>0, <2>1, <2>3, <2>5 DEF Ep!Knows, Ep!Ep
    <3>2. Ep!EpShape'
      <4>1. \A q \in EpProcs : s5'[q].row \in Ep!Rows_ /\ s5'[q].pc \in
              {"idle", "start", "save", "uncache", "read", "store", "serve"}
        BY <2>3 DEF Ep!ReqShape
      <4>2. s9' \subseteq EpIds
        BY <2>2, <2>5 DEF Ep!EpIInv, Ep!EpShape, Ep!EpTypeOK
      <4> QED
        BY <2>1, <2>3, <2>5, <4>1, <4>2 DEF Ep!EpIInv, Ep!EpShape, Ep!EpTypeOK
    <3>3. Ep!CacheKnown'
      <4>1. \A e \in EpIds \ s9' : (\A q \in EpProcs : ~(s5'[q].ep = e /\ s5'[q].pc = "uncache"))
                                     => \A q \in EpProcs : ~(s5[q].ep = e /\ s5[q].pc = "uncache")
        BY <2>3, <2>5
      <4> QED
        BY <2>1, <2>5, <4>1 DEF Ep!EpIInv, Ep!CacheKnown, Ep!Ep
    <3>4. Ep!CountsExact'
      BY <2>1 DEF Ep!EpIInv, Ep!CountsExact
    <3> QED
      BY <3>1, <3>2, <3>3, <3>4 DEF Ep!EpIInv
  <2> QED
    BY <1>4, <2>4, <2>5 DEF Ep!InvalidateEndpointCache, Ep!Ep
<1> QED
  BY <1>2, <1>3, <1>4

\* InstallEndpoint: the row and both counts in one transaction.
LEMMA EpSetupStep ==
  ASSUME Ep!EpIInv, NEW p \in EpProcs, Ep!SetupInstall(p)
  PROVE  Ep!EpIInv'
<1>0. s5 \in [EpProcs -> Ep!ReqShape] /\ Ep!Knows(p) /\ Ep!EpShape
  BY DEF Ep!EpIInv, Ep!EpShape
<1>1. s5[p].pc = "start" /\ s5[p].ep \notin s6 /\ s5[p].ep \in EpIds /\ UNCHANGED <<s4, s7, s8, s9>>
  BY <1>0 DEF Ep!SetupInstall, Ep!ReqAt, Ep!Ep, Ep!Knows
<1>2. CASE Ep!ReqEnds(p) /\ UNCHANGED <<s1, s2, s3, s6>>
  BY <1>1, <1>2, EpQuietSteps
<1>3. CASE /\ s1' = [s1 EXCEPT ![s5[p].ep] = Ep!NewRow] /\ s2' = s2 + 1 /\ s3' = s3 + 1
           /\ s6' = s6 \cup {s5[p].ep}
           /\ s5' = [s5 EXCEPT ![p].pc = "save", ![p].row = Ep!NewRow]
  <2>1. /\ s5' \in [EpProcs -> Ep!ReqShape]
        /\ s5'[p].op = s5[p].op /\ s5'[p].pc = "save" /\ s5'[p].ep = s5[p].ep /\ s5'[p].row = Ep!NewRow
        /\ \A q \in EpProcs \ {p} : s5'[q] = s5[q]
    BY <1>0, <1>3, RowFacts, ReqMoves
  <2>2. ~Ep!Cached(s5[p].ep)
    BY <1>1 DEF Ep!EpIInv, Ep!Cached, Ep!ReqAt, Ep!Ep, Ep!Knows
  <2>3. s4[s5[p].ep] = Ep!NoRow
    BY <1>1 DEF Ep!EpIInv, Ep!CacheKnown
  <2>4. s2 \in Int /\ s3 \in Int /\ s7 \in BOOLEAN /\ s8 \in BOOLEAN
    BY <1>0 DEF Ep!EpShape, Ep!EpTypeOK
  <2>5. s2' \in Int /\ s3' \in Int /\ s7' \in BOOLEAN /\ s8' \in BOOLEAN
    BY <1>1, <1>3, <2>4
  <2>6. Ep!EpShape' /\ (\A q \in EpProcs : Ep!Knows(q)') /\ Ep!CacheKnown'
    <3>1. Ep!NewRow \in Ep!Rows_ /\ Ep!NewRow.there /\ ~s4[s5[p].ep].there
      BY <2>3, RowFacts
    <3>2. s9' \in {s9, s9 \cup {s5[p].ep}} /\ s4' = s4
      BY <1>1
    <3> QED
      BY <1>1, <1>3, <2>1, <2>2, <2>5, <3>1, <3>2, EpRowChanges
  <2>7. Ep!CountsExact'
    <3>1. s1[s5[p].ep] = Ep!NoRow
      BY <1>0, <1>1 DEF Ep!EpShape, Ep!EpTypeOK
    <3>2. /\ Ep!Cardinality({x \in EpIds : s1[x].there}) \in Int
          /\ Ep!Cardinality({x \in EpIds : s1[x].enabled}) \in Int
          /\ Ep!Cardinality({x \in EpIds : s1'[x].there}) = Ep!Cardinality({x \in EpIds : s1[x].there}) + 1
          /\ Ep!Cardinality({x \in EpIds : s1'[x].enabled}) = Ep!Cardinality({x \in EpIds : s1[x].enabled}) + 1
      BY <1>0, <1>1, <1>3, <3>1, RowFacts, EpCounting
    <3> QED
      BY <1>1, <1>3, <2>4, <3>2 DEF Ep!EpIInv, Ep!CountsExact
  <2> QED
    BY <2>6, <2>7 DEF Ep!EpIInv
<1> QED
  BY <1>2, <1>3 DEF Ep!SetupInstall, Ep!Ep

\* Save: the row as it was read, with other settings; over a row that has changed since
\* it is a lost update.
LEMMA EpSaveStep ==
  ASSUME Ep!EpIInv, NEW p \in EpProcs, Ep!SaveRow(p)
  PROVE  Ep!EpIInv'
<1>0. s5 \in [EpProcs -> Ep!ReqShape] /\ Ep!Knows(p) /\ Ep!EpShape
  BY DEF Ep!EpIInv, Ep!EpShape
<1>1. /\ s5[p].pc = "save" /\ s5[p].ep \in s6 /\ s5[p].ep \in EpIds /\ s5[p].row.there
      /\ UNCHANGED <<s2, s3, s4, s6, s8>>
  BY <1>0 DEF Ep!SaveRow, Ep!Ep, Ep!Knows
<1>2. CASE Ep!ReqEnds(p) /\ UNCHANGED <<s1, s7, s9>>
  BY <1>1, <1>2, EpQuietSteps
<1> DEFINE w == [s5[p].row EXCEPT !.settings = Ep!NewSettings(p)]
<1>3. s5[p].row \in Ep!Rows_ /\ Ep!NewSettings(p) \in 0..2
  <2>1. s5[p].row \in Ep!Rows_ /\ s5[p].new \in 0..2
    BY <1>0 DEF Ep!ReqShape
  <2>2. s5[p].row.settings \in 0..2
    BY <2>1 DEF Ep!Rows_
  <2> QED
    BY <2>1, <2>2 DEF Ep!NewSettings
<1>4. w \in Ep!Rows_ /\ w.there /\ w.enabled = s5[p].row.enabled /\ w.there = s5[p].row.there
  BY <1>1, <1>3, Zenon DEF Ep!Rows_
<1> HIDE DEF w
<1>5. ASSUME s1' = [s1 EXCEPT ![s5[p].ep] = w], s7' = (s7 \/ s1[s5[p].ep] # s5[p].row),
             s9' \in {s9, s9 \cup {s5[p].ep}}, s5[p].ep \in s9' \/ ~Ep!Cached(s5[p].ep),
             s5[p].ep \in s9' \/ ~s4[s5[p].ep].there \/ s5'[p].pc = "uncache",
             s5' \in [EpProcs -> Ep!ReqShape], \A q \in EpProcs \ {p} : s5'[q] = s5[q],
             s5'[p].pc \in {"idle", "uncache"}, s5'[p].pc # "idle" => s5'[p].ep = s5[p].ep
      PROVE  Ep!EpIInv'
  <2>1. s7' \in BOOLEAN
    BY <1>5, Zenon
  <2>2. s2' \in Int /\ s3' \in Int /\ s8' \in BOOLEAN /\ s6' = s6 \cup {s5[p].ep}
    BY <1>0, <1>1 DEF Ep!EpShape, Ep!EpTypeOK
  <2>3. Ep!EpShape' /\ (\A q \in EpProcs : Ep!Knows(q)') /\ Ep!CacheKnown'
    BY <1>1, <1>4, <1>5, <2>1, <2>2, EpRowChanges
  <2>4. Ep!CountsExact'
    <3>1. CASE s7'
      BY <3>1 DEF Ep!CountsExact
    <3>2. CASE ~s7'
      <4>1. ~s7 /\ s1[s5[p].ep] = s5[p].row
        BY <1>5, <3>2
      <4>2. {x \in EpIds : s1'[x].there} = {x \in EpIds : s1[x].there}
        BY <1>0, <1>4, <1>5, <4>1 DEF Ep!EpShape, Ep!EpTypeOK
      <4>3. {x \in EpIds : s1'[x].enabled} = {x \in EpIds : s1[x].enabled}
        BY <1>0, <1>4, <1>5, <4>1 DEF Ep!EpShape, Ep!EpTypeOK
      <4> QED
        BY <1>1, <4>1, <4>2, <4>3 DEF Ep!EpIInv, Ep!CountsExact
    <3> QED
      BY <3>1, <3>2
  <2> QED
    BY <2>3, <2>4 DEF Ep!EpIInv
<1>6. CASE /\ s1' = [s1 EXCEPT ![s5[p].ep] = w] /\ s7' = (s7 \/ s1[s5[p].ep] # s5[p].row)
           /\ Ep!Changes(s5[p].ep) /\ Ep!ReqGoes(p, "uncache")
  <2>1. /\ s5' \in [EpProcs -> Ep!ReqShape] /\ s5'[p].pc = "uncache" /\ s5'[p].ep = s5[p].ep
        /\ \A q \in EpProcs \ {p} : s5'[q] = s5[q]
    BY <1>0, <1>6, ReqMoves
  <2>2. s9' \in {s9, s9 \cup {s5[p].ep}} /\ (s5[p].ep \in s9' \/ ~Ep!Cached(s5[p].ep))
    BY <1>6 DEF Ep!Changes
  <2> QED
    BY <1>5, <1>6, <2>1, <2>2
<1>7. CASE /\ s1' = [s1 EXCEPT ![s5[p].ep] = w] /\ s7' = (s7 \/ s1[s5[p].ep] # s5[p].row)
           /\ Ep!ReqEnds(p)
           /\ IF s4[s5[p].ep].there THEN s9' = s9 \cup {s5[p].ep} ELSE Ep!Changes(s5[p].ep)
  <2>1. /\ s5' \in [EpProcs -> Ep!ReqShape] /\ s5'[p].pc = "idle"
        /\ \A q \in EpProcs \ {p} : s5'[q] = s5[q]
    BY <1>0, <1>7, ReqMoves
  <2>2. /\ s9' \in {s9, s9 \cup {s5[p].ep}} /\ (s5[p].ep \in s9' \/ ~Ep!Cached(s5[p].ep))
        /\ s5[p].ep \in s9' \/ ~s4[s5[p].ep].there
    BY <1>7 DEF Ep!Changes
  <2> QED
    BY <1>5, <1>7, <2>1, <2>2
<1> QED
  BY <1>2, <1>6, <1>7 DEF Ep!SaveRow, Ep!Ep, w

\* UninstallEndpoint, EnabledEndpoint and DisabledEndpoint: row and counts in one
\* transaction.
LEMMA EpRemoveSwitchStep ==
  ASSUME Ep!EpIInv, NEW p \in EpProcs, Ep!RemoveRow(p) \/ Ep!SwitchRow(p)
  PROVE  Ep!EpIInv'
<1>0. s5 \in [EpProcs -> Ep!ReqShape] /\ Ep!Knows(p) /\ Ep!EpShape
  BY DEF Ep!EpIInv, Ep!EpShape
<1>1. s5[p].pc = "start" /\ s5[p].ep \in s6 /\ s5[p].ep \in EpIds /\ UNCHANGED <<s4, s6, s7>>
  BY <1>0 DEF Ep!RemoveRow, Ep!SwitchRow, Ep!ReqAt, Ep!Ep, Ep!Knows
<1>2. CASE Ep!ReqEnds(p) /\ UNCHANGED <<s1, s2, s3, s8, s9>>
  BY <1>1, <1>2, EpQuietSteps
<1>3. s1[s5[p].ep] \in Ep!Rows_ /\ s2 \in Int /\ s3 \in Int /\ s7 \in BOOLEAN /\ s8 \in BOOLEAN
  BY <1>0, <1>1 DEF Ep!EpShape, Ep!EpTypeOK
<1>4. ASSUME NEW w \in Ep!Rows_, w.there \/ w = Ep!NoRow, s1' = [s1 EXCEPT ![s5[p].ep] = w],
             Ep!Changes(s5[p].ep), Ep!ReqGoes(p, "uncache"), s2' \in Int, s3' \in Int, s8' \in BOOLEAN
      PROVE  Ep!EpShape' /\ (\A q \in EpProcs : Ep!Knows(q)') /\ Ep!CacheKnown'
  <2>1. /\ s5' \in [EpProcs -> Ep!ReqShape] /\ s5'[p].pc = "uncache" /\ s5'[p].ep = s5[p].ep
        /\ \A q \in EpProcs \ {p} : s5'[q] = s5[q]
    BY <1>0, <1>4, ReqMoves
  <2>2. s9' \in {s9, s9 \cup {s5[p].ep}} /\ (s5[p].ep \in s9' \/ ~Ep!Cached(s5[p].ep))
    BY <1>4 DEF Ep!Changes
  <2>3. s6' = s6 \cup {s5[p].ep} /\ s7' \in BOOLEAN
    BY <1>1, <1>3
  <2> QED
    BY <1>1, <1>4, <2>1, <2>2, <2>3, EpRowChanges
<1>5. CASE /\ s1[s5[p].ep].there /\ s1' = [s1 EXCEPT ![s5[p].ep] = Ep!NoRow]
           /\ s2' = s2 - 1 /\ s3' = s3 - 1 /\ s8' = (s8 \/ ~s1[s5[p].ep].enabled)
           /\ Ep!Changes(s5[p].ep) /\ Ep!ReqGoes(p, "uncache")
  <2>1. s8' \in BOOLEAN
    BY <1>5, Zenon
  <2>2. s2' \in Int /\ s3' \in Int
    BY <1>3, <1>5
  <2>3. Ep!EpShape' /\ (\A q \in EpProcs : Ep!Knows(q)') /\ Ep!CacheKnown'
    BY <1>4, <1>5, <2>1, <2>2, RowFacts
  <2>4. Ep!CountsExact'
    <3> DEFINE T == Ep!Cardinality({x \in EpIds : s1[x].there})
               E == Ep!Cardinality({x \in EpIds : s1[x].enabled})
               TN == Ep!Cardinality({x \in EpIds : s1'[x].there})
               EN == Ep!Cardinality({x \in EpIds : s1'[x].enabled})
    <3>1. /\ T \in Int /\ E \in Int /\ TN = T - 1
          /\ s1[s5[p].ep].enabled => EN = E - 1
          /\ ~s1[s5[p].ep].enabled => EN = E
      <4>0. s1[s5[p].ep].there \in BOOLEAN /\ s1[s5[p].ep].enabled \in BOOLEAN
        BY <1>3, RowFacts
      <4>1. Ep!NoRow.there = FALSE /\ Ep!NoRow.enabled = FALSE
        BY DEF Ep!NoRow
      <4>2. /\ T \in Int /\ E \in Int
            /\ TN = T + (IF Ep!NoRow.there = s1[s5[p].ep].there THEN 0 ELSE IF Ep!NoRow.there THEN 1 ELSE -1)
            /\ EN = E + (IF Ep!NoRow.enabled = s1[s5[p].ep].enabled THEN 0 ELSE IF Ep!NoRow.enabled THEN 1 ELSE -1)
        <5>1. Ep!NoRow \in Ep!Rows_
          BY RowFacts
        <5> QED
          BY <1>0, <1>1, <1>5, <5>1, EpCounting
      <4> HIDE DEF T, E, TN, EN
      <4>3. Ep!NoRow.there # s1[s5[p].ep].there
        BY <1>5, <4>1
      <4>4. s1[s5[p].ep].enabled => Ep!NoRow.enabled # s1[s5[p].ep].enabled
        BY <4>1
      <4>5. ~s1[s5[p].ep].enabled => Ep!NoRow.enabled = s1[s5[p].ep].enabled
        BY <4>0, <4>1, Zenon
      <4> QED
        BY <4>1, <4>2, <4>3, <4>4, <4>5
    <3>2. ~s7 => s2 = T /\ (~s8 => s3 = E) /\ s3 <= E
      BY DEF Ep!EpIInv, Ep!CountsExact
    <3> HIDE DEF T, E, TN, EN
    <3>3. ~s7' => s2' = TN /\ (~s8' => s3' = EN) /\ s3' <= EN
      <4>1. (~s7' => ~s7) /\ (~s8' => ~s8 /\ s1[s5[p].ep].enabled) /\ s2' = s2 - 1 /\ s3' = s3 - 1
        BY <1>1, <1>5, Zenon
      <4>2. EN \in Int /\ E - 1 <= EN
        BY <3>1
      <4> QED
        BY <1>3, <3>1, <3>2, <4>1, <4>2
    <3> QED
      BY <3>3 DEF T, E, TN, EN, Ep!CountsExact
  <2> QED
    BY <2>3, <2>4 DEF Ep!EpIInv
<1>6. ASSUME NEW on \in BOOLEAN, s1[s5[p].ep].there, s1' = [s1 EXCEPT ![s5[p].ep].enabled = on],
             s3' = s3 + Ep!Counts(s1[s5[p].ep], on), UNCHANGED <<s2, s8>>,
             Ep!Changes(s5[p].ep), Ep!ReqGoes(p, "uncache")
      PROVE  Ep!EpIInv'
  <2> DEFINE w == [s1[s5[p].ep] EXCEPT !.enabled = on]
  <2>1. w \in Ep!Rows_ /\ w.there = s1[s5[p].ep].there /\ w.enabled = on
    BY <1>3, RowFacts
  <2>2. s1' = [s1 EXCEPT ![s5[p].ep] = w]
    BY <1>6
  <2> HIDE DEF w
  <2>3. s2' \in Int /\ s3' \in Int /\ s8' \in BOOLEAN /\ w.there
    BY <1>3, <1>6, <2>1 DEF Ep!Counts
  <2>4. Ep!EpShape' /\ (\A q \in EpProcs : Ep!Knows(q)') /\ Ep!CacheKnown'
    BY <1>4, <1>6, <2>1, <2>2, <2>3
  <2>5. Ep!CountsExact'
    <3> DEFINE T == Ep!Cardinality({x \in EpIds : s1[x].there})
               E == Ep!Cardinality({x \in EpIds : s1[x].enabled})
               TN == Ep!Cardinality({x \in EpIds : s1'[x].there})
               EN == Ep!Cardinality({x \in EpIds : s1'[x].enabled})
    <3>1. /\ T \in Int /\ E \in Int
          /\ TN = T + (IF w.there = s1[s5[p].ep].there THEN 0 ELSE IF w.there THEN 1 ELSE -1)
          /\ EN = E + (IF w.enabled = s1[s5[p].ep].enabled THEN 0 ELSE IF w.enabled THEN 1 ELSE -1)
      BY <1>0, <1>1, <2>1, <2>2, <2>3, EpCounting
    <3>2. ~s7 => s2 = T /\ (~s8 => s3 = E) /\ s3 <= E
      BY DEF Ep!EpIInv, Ep!CountsExact
    <3> HIDE DEF T, E, TN, EN
    <3>3. TN = T /\ EN = E + Ep!Counts(s1[s5[p].ep], on)
      BY <2>1, <3>1 DEF Ep!Counts
    <3>4. ~s7' => s2' = TN /\ (~s8' => s3' = EN) /\ s3' <= EN
      <4>1. Ep!Counts(s1[s5[p].ep], on) \in Int
        BY DEF Ep!Counts
      <4>2. (~s7' => ~s7) /\ (~s8' => ~s8) /\ s2' = s2 /\ s3' = s3 + Ep!Counts(s1[s5[p].ep], on)
        BY <1>1, <1>6
      <4> QED
        BY <1>3, <3>1, <3>2, <3>3, <4>1, <4>2
    <3> QED
      BY <3>4 DEF T, E, TN, EN, Ep!CountsExact
  <2> QED
    BY <2>4, <2>5 DEF Ep!EpIInv
<1>7. CASE Ep!RemoveRow(p)
  BY <1>2, <1>5, <1>7 DEF Ep!RemoveRow, Ep!Ep
<1>8. CASE Ep!SwitchRow(p)
  <2> DEFINE on == s5[p].op = "enable"
  <2>1. on \in BOOLEAN
    BY Zenon
  <2>2. UNCHANGED <<s2, s8>>
    BY <1>8 DEF Ep!SwitchRow
  <2>3. \/ /\ s1[s5[p].ep].there /\ s1' = [s1 EXCEPT ![s5[p].ep].enabled = on]
           /\ s3' = s3 + Ep!Counts(s1[s5[p].ep], on) /\ Ep!Changes(s5[p].ep) /\ Ep!ReqGoes(p, "uncache")
        \/ Ep!ReqEnds(p) /\ UNCHANGED <<s1, s3, s9>>
    BY <1>8, Zenon DEF Ep!SwitchRow, Ep!Ep
  <2> HIDE DEF on
  <2> QED
    BY <1>2, <1>6, <2>1, <2>2, <2>3
<1> QED
  BY <1>7, <1>8

\* A step that leaves the variables of the unit alone.
LEMMA EpStutter ==
  ASSUME Ep!EpIInv, UNCHANGED unitVars
  PROVE  Ep!EpIInv'
<1> USE DEF unitVars
<1>1. Ep!EpShape'
  BY DEF Ep!EpIInv, Ep!EpShape, Ep!EpTypeOK
<1>2. \A p \in EpProcs : Ep!Knows(p)'
  BY DEF Ep!EpIInv, Ep!Knows, Ep!Ep
<1>3. Ep!CacheKnown'
  BY DEF Ep!EpIInv, Ep!CacheKnown, Ep!Ep
<1>4. Ep!CountsExact'
  BY DEF Ep!EpIInv, Ep!CountsExact
<1> QED
  BY <1>1, <1>2, <1>3, <1>4 DEF Ep!EpIInv

\* No endpoint is set up and none is counted.
LEMMA EpInitial == Ep!EpInit => Ep!EpIInv
<1> SUFFICES ASSUME Ep!EpInit PROVE Ep!EpIInv
  OBVIOUS
<1>0. s1 = [e \in EpIds |-> Ep!NoRow] /\ s4 = s1 /\ s2 = 0 /\ s3 = 0 /\ s6 = {} /\ s9 = {}
      /\ s5 = [p \in EpProcs |-> Ep!IdleReq]
  BY DEF Ep!EpInit
<1>1. \A e \in EpIds : s1[e] = Ep!NoRow /\ ~s1[e].there /\ ~s1[e].enabled /\ s4[e] = Ep!NoRow
  BY <1>0, RowFacts
<1>2. \A p \in EpProcs : s5[p] = Ep!IdleReq /\ s5[p].pc = "idle" /\ s5[p].row \in Ep!Rows_
  BY <1>0, RowFacts DEF Ep!IdleReq
<1>3. Ep!EpShape
  <2>1. s5 \in [EpProcs -> Ep!ReqShape]
    <3>1. Ep!IdleReq \in Ep!ReqShape
      BY RowFacts DEF Ep!IdleReq, Ep!ReqShape
    <3> QED
      BY <1>0, <3>1
  <2>2. Ep!IsFiniteSet(s6)
    BY <1>0, FS_EmptySet, EpFiniteSets
  <2>3. s7 \in BOOLEAN /\ s8 \in BOOLEAN
    BY Zenon DEF Ep!EpInit
  <2>4. s1 \in [EpIds -> Ep!Rows_] /\ s4 \in [EpIds -> Ep!Rows_]
    BY <1>0, RowFacts
  <2> QED
    BY <1>0, <1>1, <1>2, <2>1, <2>2, <2>3, <2>4 DEF Ep!EpShape, Ep!EpTypeOK
<1>4. \A p \in EpProcs : Ep!Knows(p)
  BY <1>2 DEF Ep!Knows
<1>5. Ep!CacheKnown
  BY <1>0, <1>1 DEF Ep!CacheKnown
<1>6. Ep!CountsExact
  <2>1. {e \in EpIds : s1[e].there} = {} /\ {e \in EpIds : s1[e].enabled} = {}
    BY <1>1
  <2>2. Ep!Cardinality({}) = 0
    BY FS_EmptySet, EpFiniteSets
  <2> QED
    <3>1. Ep!Cardinality({e \in EpIds : s1[e].there}) = 0 /\ Ep!Cardinality({e \in EpIds : s1[e].enabled}) = 0
      BY <2>1, <2>2, Zenon
    <3> QED
      BY <1>0, <3>1 DEF Ep!CountsExact
<1> QED
  BY <1>3, <1>4, <1>5, <1>6 DEF Ep!EpIInv

\* The counts of endpoints and of enabled ones are exact unless a save overtook a change,
\* and a call is served from the row as it is, a read that overlapped a change apart
\* (setup_endpoint.go, install_service/endpoint.go, server/endpoint.go), for any number
\* of endpoints, requests and goroutines.
THEOREM EndpointsStayCurrent == ServicesSpec => []EndpointsAreCurrent
<1> DEFINE Inv == unit = "endpoint" => Ep!EpIInv
<1>1. ServicesInit => Inv
  BY EpInitial DEF ServicesInit
<1>2. Inv /\ [ServicesNext]_servicesVars => Inv'
  <2> SUFFICES ASSUME Inv, [ServicesNext]_servicesVars, unit' = "endpoint" PROVE Ep!EpIInv'
    OBVIOUS
  <2>1. unit = "endpoint" /\ Ep!EpIInv
    BY DEF ServicesNext, servicesVars
  <2>2. CASE Ep!EpNext
    <3>1. CASE Ep!EpOver
      <4>1. UNCHANGED <<s1, s2, s3, s4, s5, s6, s7, s8, s9>>
        BY <3>1 DEF Ep!EpOver, Ep!epVars
      <4>2. Ep!EpShape' /\ \A p \in EpProcs : Ep!Knows(p)'
        BY <2>1, <4>1 DEF Ep!EpIInv, Ep!EpShape, Ep!EpTypeOK, Ep!Knows, Ep!Ep
      <4>3. Ep!CacheKnown' /\ Ep!CountsExact'
        BY <2>1, <4>1 DEF Ep!EpIInv, Ep!CacheKnown, Ep!CountsExact, Ep!Ep
      <4> QED
        BY <4>2, <4>3 DEF Ep!EpIInv
    <3> QED
      BY <2>1, <2>2, <3>1, EpQuietSteps, EpCacheSteps, EpSetupStep, EpSaveStep, EpRemoveSwitchStep
         DEF Ep!EpNext
  <2>3. CASE UNCHANGED unitVars
    BY <2>1, <2>3, EpStutter
  <2> QED
    BY <2>1, <2>2, <2>3 DEF ServicesNext, servicesVars
<1>3. Inv => EndpointsAreCurrent
  <2> SUFFICES ASSUME unit = "endpoint", Ep!EpIInv
               PROVE  Ep!EpTypeOK /\ Ep!CountsExact /\ Ep!EndpointCacheFresh
    BY DEF EndpointsAreCurrent
  <2>1. Ep!EpTypeOK /\ Ep!CountsExact
    BY DEF Ep!EpIInv, Ep!EpShape
  <2>2. Ep!EndpointCacheFresh
    BY DEF Ep!EpIInv, Ep!CacheKnown, Ep!EndpointCacheFresh
  <2> QED
    BY <2>1, <2>2
<1> QED
  BY <1>1, <1>2, <1>3, PTL DEF ServicesSpec

------------------------------------------------------------------------------
(* InstallTask *)

\* Finite sets and their sizes are the same in the instance.
LEMMA TaskFiniteSets ==
  ASSUME NEW S
  PROVE  /\ Task!Cardinality(S) = Cardinality(S)
         /\ Task!IsFiniteSet(S) <=> IsFiniteSet(S)
<1>1. Task!IsFiniteSet(S) <=> IsFiniteSet(S)
  BY Zenon DEF Task!IsFiniteSet, IsFiniteSet
<1>2. Task!Cardinality(S) = Cardinality(S)
  BY Zenon DEF Task!Cardinality, Cardinality, Task!IsFiniteSet, IsFiniteSet
<1> QED
  BY <1>1, <1>2

\* A set of plugins is finite, its size a number that grows with it.
LEMMA PluginSets ==
  ASSUME Task!TaskAssumption
  PROVE  /\ \A S \in SUBSET Plugins : Task!Cardinality(S) \in Nat
         /\ \A S, T \in SUBSET Plugins : S \subseteq T => Task!Cardinality(S) <= Task!Cardinality(T)
         /\ \A S \in SUBSET Plugins : \A p \in Plugins \ S :
              Task!Cardinality(S \cup {p}) = Task!Cardinality(S) + 1
         /\ Task!Cardinality({}) = 0
<1>0. \A S \in SUBSET Plugins : IsFiniteSet(S)
  BY TaskFiniteSets, FS_Subset DEF Task!TaskAssumption
<1>1. \A S \in SUBSET Plugins : Cardinality(S) \in Nat
  BY <1>0, FS_CardinalityType
<1>2. \A S, T \in SUBSET Plugins : S \subseteq T => Cardinality(S) <= Cardinality(T)
  BY <1>0, FS_Subset
<1>3. \A S \in SUBSET Plugins : \A p \in Plugins \ S : Cardinality(S \cup {p}) = Cardinality(S) + 1
  BY <1>0, FS_AddElement
<1> QED
  BY <1>1, <1>2, <1>3, TaskFiniteSets, FS_EmptySet

\* What the fields of a record may be.
LEMMA TaskRowFields ==
  ASSUME NEW r \in Task!RowShape
  PROVE  /\ r.total \in Nat /\ r.completed \in Nat /\ r.status \in Task!Statuses \cup {"none"}
         /\ DOMAIN r.plugins \subseteq Plugins /\ r.plugins \in [DOMAIN r.plugins -> Task!Statuses]
         /\ Task!Succeeded(r) \subseteq DOMAIN r.plugins
<1>1. PICK ps \in SUBSET Plugins : r.plugins \in [ps -> Task!Statuses]
  BY DEF Task!RowShape
<1> QED
  BY <1>1 DEF Task!RowShape, Task!Succeeded

\* What stands for a row that is not there is a record too.
LEMMA NoRowShape == Task!NoRow \in Task!RowShape /\ Task!NoRow.status = "none"
<1>1. Task!NoRow.plugins \in [{} -> Task!Statuses] /\ {} \in SUBSET Plugins
  BY DEF Task!NoRow
<1> QED
  BY <1>1 DEF Task!NoRow, Task!RowShape

\* A record stays good while the jobs go forward and plugins are installed.
LEMMA RowStable ==
  ASSUME Task!TaskAssumption, NEW r, NEW js, NEW js2, NEW ins, NEW ins2,
         Task!GoodRow(r, js, ins), ins \subseteq ins2,
         Task!Reported(js) \subseteq Task!Reported(js2),
         Task!JobsOf(js2) = Task!JobsOf(js) \/ Task!JobsOf(js) = {}, r = Task!NoRow \/ r \in Task!RowShape
  PROVE  Task!GoodRow(r, js2, ins2)
<1> SUFFICES ASSUME r # Task!NoRow PROVE Task!GoodRow(r, js2, ins2)
  BY DEF Task!GoodRow
<1>1. /\ Task!Reported(js) \subseteq Plugins /\ Task!Reported(js2) \subseteq Plugins
  BY DEF Task!Reported
<1>2. /\ Task!Cardinality(Task!Reported(js)) \in Nat /\ Task!Cardinality(Task!Reported(js2)) \in Nat
      /\ Task!Cardinality(Task!Reported(js)) <= Task!Cardinality(Task!Reported(js2))
  BY <1>1, PluginSets
<1>3. r.completed \in Nat
  BY TaskRowFields
<1>4. r.completed <= Task!Cardinality(Task!Reported(js))
  BY DEF Task!GoodRow
<1>5. r.completed <= Task!Cardinality(Task!Reported(js2))
  BY <1>2, <1>3, <1>4
<1> QED
  BY <1>5 DEF Task!GoodRow

\* The job of p goes on.
LEMMA JobMoves ==
  ASSUME NEW js \in [Plugins -> Task!JobPCs], NEW p \in Plugins, NEW l \in Task!JobPCs,
         l # "none", js[p] \notin {"none", "end", "over"} \/ l \in {"end", "over"}, js[p] # "none"
  PROVE  /\ [js EXCEPT ![p] = l] \in [Plugins -> Task!JobPCs]
         /\ Task!Reported(js) \subseteq Task!Reported([js EXCEPT ![p] = l])
         /\ Task!JobsOf([js EXCEPT ![p] = l]) = Task!JobsOf(js)
BY DEF Task!Reported, Task!JobsOf

\* UpdateTaskStatus keeps a record good: its job had not reported, so p was not shown
\* as a success, and is counted once.
LEMMA UpdatedGood ==
  ASSUME Task!TaskAssumption, NEW r \in Task!RowShape, NEW js \in [Plugins -> Task!JobPCs], NEW ins,
         Task!GoodRow(r, js, ins), NEW p \in DOMAIN r.plugins, js[p] \in Task!InProgress,
         NEW s \in {"running", "success", "failed"}, NEW l \in Task!JobPCs,
         (s = "running" /\ l = "stream") \/ l = "end", s = "success" => p \in ins,
         s = "running" \/ l = "end"
  PROVE  /\ Task!Updated(r, p, s) \in Task!RowShape
         /\ Task!GoodRow(Task!Updated(r, p, s), [js EXCEPT ![p] = l], ins)
<1> DEFINE ps == [r.plugins EXCEPT ![p] = s]
           n == IF s = "success" THEN r.completed + 1 ELSE r.completed
           st == IF Task!AllSucceed(ps) THEN "success" ELSE IF s = "failed" THEN s ELSE r.status
           u == Task!Updated(r, p, s)
           js2 == [js EXCEPT ![p] = l]
<1>0. /\ r.total \in Nat /\ r.completed \in Nat /\ r.status \in Task!Statuses \cup {"none"}
      /\ DOMAIN r.plugins \subseteq Plugins /\ r.plugins \in [DOMAIN r.plugins -> Task!Statuses]
      /\ Task!Succeeded(r) \subseteq DOMAIN r.plugins /\ p \in Plugins
  BY TaskRowFields
<1>1. r # Task!NoRow
  BY DEF Task!NoRow
<1>2. p \notin Task!Reported(js) /\ p \notin Task!Succeeded(r) /\ r.plugins[p] # "success"
  BY <1>0, <1>1 DEF Task!GoodRow, Task!Reported, Task!Succeeded, Task!InProgress
<1>3. u = [r EXCEPT !.plugins = ps, !.completed = n, !.status = st]
  BY <1>2 DEF Task!Updated
<1>4. ps \in [DOMAIN r.plugins -> Task!Statuses] /\ n \in Nat /\ st \in Task!Statuses \cup {"none"}
  BY <1>0 DEF Task!Statuses
<1>5. /\ u \in Task!RowShape
      /\ u.status = st /\ u.total = r.total /\ u.completed = n /\ u.plugins = ps
  <2> HIDE DEF ps, n, st, u
  <2>1. ps \in UNION {[S -> Task!Statuses] : S \in SUBSET Plugins}
    BY <1>0, <1>4
  <2> QED
    BY <1>3, <1>4, <2>1 DEF Task!RowShape
<1>6. Task!Succeeded(u) = IF s = "success" THEN Task!Succeeded(r) \cup {p} ELSE Task!Succeeded(r)
  <2> HIDE DEF n, st, u
  <2> QED
    BY <1>0, <1>2, <1>5 DEF Task!Succeeded
<1>7. /\ Task!Reported(js2) = IF l = "end" THEN Task!Reported(js) \cup {p} ELSE Task!Reported(js)
      /\ Task!JobsOf(js2) = Task!JobsOf(js)
  BY <1>0 DEF Task!Reported, Task!JobsOf, Task!InProgress
<1> HIDE DEF ps, n, st, u, js2
<1>8. /\ Task!Reported(js) \subseteq Plugins /\ Task!Succeeded(r) \subseteq Plugins
      /\ Task!Cardinality(Task!Reported(js)) \in Nat /\ Task!Cardinality(Task!Succeeded(r)) \in Nat
      /\ Task!Cardinality(Task!Reported(js) \cup {p}) = Task!Cardinality(Task!Reported(js)) + 1
      /\ Task!Cardinality(Task!Succeeded(r) \cup {p}) = Task!Cardinality(Task!Succeeded(r)) + 1
  <2>1. Task!Reported(js) \subseteq Plugins /\ Task!Succeeded(r) \subseteq Plugins
    BY <1>0 DEF Task!Reported
  <2> QED
    BY <1>0, <1>2, <2>1, PluginSets
<1>9. /\ Task!Cardinality(Task!Succeeded(r)) <= r.completed
      /\ r.completed <= Task!Cardinality(Task!Reported(js))
      /\ Task!Succeeded(r) \subseteq ins \cap Task!Reported(js)
      /\ r.total = Task!Cardinality(Task!JobsOf(js)) /\ Task!JobsOf(js) # {} /\ r.status # "none"
      /\ r.status = "success" => Task!AllSucceed(r.plugins)
  BY <1>1 DEF Task!GoodRow
<1>10. Task!Cardinality(Task!Succeeded(u)) <= u.completed
  BY <1>0, <1>5, <1>6, <1>8, <1>9 DEF n
<1>11. u.completed <= Task!Cardinality(Task!Reported(js2))
  BY <1>0, <1>5, <1>7, <1>8, <1>9 DEF n
<1>12. Task!Succeeded(u) \subseteq ins \cap Task!Reported(js2)
  BY <1>6, <1>7, <1>9
<1>13. u.status # "none" /\ (u.status = "success" => Task!AllSucceed(u.plugins))
  <2>1. r.status # "success"
    BY <1>2, <1>9 DEF Task!AllSucceed
  <2> QED
    BY <1>5, <1>9, <2>1 DEF st
<1>14. u.total = Task!Cardinality(Task!JobsOf(js2)) /\ Task!JobsOf(js2) # {}
  BY <1>5, <1>7, <1>9
<1>15. Task!GoodRow(u, js2, ins)
  BY <1>10, <1>11, <1>12, <1>13, <1>14 DEF Task!GoodRow
<1> QED
  BY <1>5, <1>15 DEF u, js2

\* A record written back as failed, from whatever copy.
LEMMA FailedGood ==
  ASSUME Task!TaskAssumption, NEW r \in Task!RowShape, NEW js, NEW ins, r # Task!NoRow,
         Task!GoodRow(r, js, ins)
  PROVE  /\ Task!Failed(r) \in Task!RowShape /\ Task!GoodRow(Task!Failed(r), js, ins)
         /\ ~Task!Running(Task!Failed(r))
<1> DEFINE u == Task!Failed(r)
           ps == [p \in DOMAIN r.plugins |-> "failed"]
<1>0. /\ r.total \in Nat /\ r.completed \in Nat /\ r.status \in Task!Statuses \cup {"none"}
      /\ DOMAIN r.plugins \subseteq Plugins /\ r.plugins \in [DOMAIN r.plugins -> Task!Statuses]
  BY TaskRowFields
<1>1. u = [r EXCEPT !.status = "failed", !.plugins = ps]
  BY DEF Task!Failed
<1>2. ps \in [DOMAIN r.plugins -> Task!Statuses]
  BY DEF Task!Statuses
<1>3. /\ u \in Task!RowShape /\ u.status = "failed" /\ u.plugins = ps
      /\ u.completed = r.completed /\ u.total = r.total
  <2> HIDE DEF ps, u
  <2>1. ps \in UNION {[S -> Task!Statuses] : S \in SUBSET Plugins}
    BY <1>0, <1>2
  <2> QED
    BY <1>0, <1>1, <2>1 DEF Task!RowShape, Task!Statuses
<1>4. Task!Succeeded(u) = {}
  <2> HIDE DEF u
  <2> QED
    BY <1>3 DEF Task!Succeeded
<1> HIDE DEF u, ps
<1>5. Task!GoodRow(u, js, ins)
  BY <1>0, <1>3, <1>4, PluginSets DEF Task!GoodRow
<1> QED
  BY <1>3, <1>5 DEF u, Task!Running

\* The same of a record from which a plugin was deleted.
LEMMA ItemGood ==
  ASSUME Task!TaskAssumption, NEW r \in Task!RowShape, NEW js, NEW ins,
         Task!GoodRow(r, js, ins), NEW p \in DOMAIN r.plugins, NEW ps,
         ps = [q \in DOMAIN r.plugins \ {p} |-> r.plugins[q]], ~Task!AllSucceed(ps)
  PROVE  /\ [r EXCEPT !.plugins = ps] \in Task!RowShape
         /\ Task!GoodRow([r EXCEPT !.plugins = ps], js, ins)
<1> DEFINE u == [r EXCEPT !.plugins = ps]
<1>0. /\ r.total \in Nat /\ r.completed \in Nat /\ r.status \in Task!Statuses \cup {"none"}
      /\ DOMAIN r.plugins \subseteq Plugins /\ r.plugins \in [DOMAIN r.plugins -> Task!Statuses]
      /\ r # Task!NoRow
  BY TaskRowFields DEF Task!NoRow
<1>1. ps \in [DOMAIN r.plugins \ {p} -> Task!Statuses]
  BY <1>0
<1>2. /\ u \in Task!RowShape /\ u.plugins = ps /\ u.status = r.status
      /\ u.completed = r.completed /\ u.total = r.total
  <2>1. ps \in UNION {[S -> Task!Statuses] : S \in SUBSET Plugins}
    BY <1>0, <1>1
  <2> QED
    BY <1>0, <2>1 DEF Task!RowShape
<1> HIDE DEF u
<1>3. Task!Succeeded(u) \subseteq Task!Succeeded(r) /\ Task!Succeeded(r) \subseteq Plugins
  BY <1>0, <1>2 DEF Task!Succeeded
<1>4. /\ Task!Cardinality(Task!Succeeded(u)) <= Task!Cardinality(Task!Succeeded(r))
      /\ Task!Cardinality(Task!Succeeded(u)) \in Nat /\ Task!Cardinality(Task!Succeeded(r)) \in Nat
  BY <1>3, PluginSets
<1>5. Task!Cardinality(Task!Succeeded(r)) <= r.completed
  BY <1>0 DEF Task!GoodRow
<1>6. Task!Cardinality(Task!Succeeded(u)) <= u.completed
  BY <1>0, <1>2, <1>4, <1>5
<1>7. r.status # "success"
  BY <1>0 DEF Task!GoodRow, Task!AllSucceed
<1>8. Task!GoodRow(u, js, ins)
  BY <1>0, <1>2, <1>3, <1>6, <1>7 DEF Task!GoodRow
<1> QED
  BY <1>2, <1>8 DEF u

\* A step that moves jobs forward, and writes only good records and copies.
LEMMA TaskKeeps ==
  ASSUME Task!TaskAssumption, Task!TaskIInv, Task!TaskShape', s5 \subseteq s5',
         \A t \in TaskIds : /\ Task!Reported(s2[t]) \subseteq Task!Reported(s2'[t])
                            /\ Task!JobsOf(s2'[t]) = Task!JobsOf(s2[t]) \/ Task!JobsOf(s2[t]) = {},
         \A t \in TaskIds : s1'[t] = s1[t] \/ Task!GoodRow(s1'[t], s2'[t], s5'),
         \A c \in s9' \cup ({s11'.copy} \ {Task!NoCopy}) :
            \/ c \in s9 \cup ({s11.copy} \ {Task!NoCopy})
            \/ c.row # Task!NoRow /\ Task!GoodRow(c.row, s2'[c.id], s5')
  PROVE  Task!TaskRows' /\ Task!TaskCopies'
<1>1. ASSUME NEW t \in TaskIds PROVE Task!GoodRow(s1'[t], s2'[t], s5')
  <2>1. s1[t] \in Task!RowShape /\ Task!GoodRow(s1[t], s2[t], s5)
    BY DEF Task!TaskIInv, Task!TaskShape, Task!TaskRows
  <2>2. Task!GoodRow(s1[t], s2'[t], s5')
    BY <2>1, RowStable
  <2> QED
    BY <2>2
<1>2. ASSUME NEW c \in s9' \cup ({s11'.copy} \ {Task!NoCopy}), c \in s9 \cup ({s11.copy} \ {Task!NoCopy})
      PROVE  c.row # Task!NoRow /\ Task!GoodRow(c.row, s2'[c.id], s5')
  <2>1. c \in Task!CopyShape
    BY <1>2 DEF Task!TaskIInv, Task!TaskShape
  <2>2. c.id \in TaskIds /\ c.row \in Task!RowShape
    BY <2>1 DEF Task!CopyShape
  <2>3. c.row # Task!NoRow /\ Task!GoodRow(c.row, s2[c.id], s5)
    BY <1>2 DEF Task!TaskIInv, Task!TaskCopies
  <2>4. Task!GoodRow(c.row, s2'[c.id], s5')
    BY <2>2, <2>3, RowStable
  <2> QED
    BY <2>3, <2>4
<1>3. Task!TaskRows'
  BY <1>1 DEF Task!TaskRows
<1>4. Task!TaskCopies'
  BY <1>2 DEF Task!TaskCopies
<1> QED
  BY <1>3, <1>4

\* A task that was open has a job to report as long as its record is the same and its
\* jobs have not ended.
LEMMA OpenKeeps ==
  ASSUME NEW t \in TaskIds, Task!OpenHasWork(t), s10' = "up" => s10 = "up", s12 \subseteq s12',
         \/ ~Task!Running(s1'[t])
         \/ t \in s12'
         \/ /\ s1'[t] = s1[t]
            /\ \A p \in DOMAIN s1[t].plugins :
                 s2'[t][p] = s2[t][p] \/ s2'[t][p] \notin {"none", "end", "over", "killed"}
  PROVE  Task!OpenHasWork(t)'
BY DEF Task!OpenHasWork

\* UpdateTaskStatus with the step of the job that calls it.
LEMMA TaskUpdates ==
  ASSUME Task!TaskAssumption, Task!TaskIInv, NEW t \in TaskIds, NEW p \in Plugins,
         s2[t][p] \in Task!InProgress, NEW s \in {"running", "success", "failed"},
         NEW l \in Task!JobPCs, NEW more \in BOOLEAN,
         (s = "running" /\ l = "stream") \/ (s # "running" /\ l = "end"), s = "success" => p \in s5,
         Task!UpdateTaskStatus(t, p, s, more), Task!Goto(t, p, l),
         UNCHANGED <<s3, s4, s5, s6, s8, s9, s10, s11>>
  PROVE  Task!TaskIInv'
<1>0. /\ s1 \in [TaskIds -> Task!RowShape] /\ s2 \in [TaskIds -> [Plugins -> Task!JobPCs]]
      /\ s7 \subseteq TaskIds /\ s12 \subseteq TaskIds
  BY DEF Task!TaskIInv, Task!TaskShape
<1>1. s2' = [s2 EXCEPT ![t] = [s2[t] EXCEPT ![p] = l]]
  BY DEF Task!Goto
<1>2. /\ s2'[t] = [s2[t] EXCEPT ![p] = l] /\ \A u \in TaskIds \ {t} : s2'[u] = s2[u]
      /\ s2' \in [TaskIds -> [Plugins -> Task!JobPCs]]
  BY <1>0, <1>1
<1>3. /\ Task!Reported(s2[t]) \subseteq Task!Reported(s2'[t])
      /\ Task!JobsOf(s2'[t]) = Task!JobsOf(s2[t])
  <2>1. s2[t] \in [Plugins -> Task!JobPCs] /\ s2[t][p] # "none"
        /\ (s2[t][p] \notin {"none", "end", "over"} \/ l \in {"end", "over"}) /\ l # "none"
    BY <1>0 DEF Task!InProgress
  <2>2. /\ Task!Reported(s2[t]) \subseteq Task!Reported([s2[t] EXCEPT ![p] = l])
        /\ Task!JobsOf([s2[t] EXCEPT ![p] = l]) = Task!JobsOf(s2[t])
    BY <2>1, JobMoves
  <2> QED
    BY <1>2, <2>2
<1>4. s7' \subseteq TaskIds
  BY <1>0 DEF Task!UpdateTaskStatus
<1>5. \/ /\ p \in DOMAIN s1[t].plugins /\ s1' = [s1 EXCEPT ![t] = Task!Updated(s1[t], p, s)] /\ s12' = s12
      \/ p \notin DOMAIN s1[t].plugins /\ UNCHANGED <<s1, s12>>
      \/ s12' = s12 \cup {t} /\ s1' = s1
  BY DEF Task!UpdateTaskStatus
<1>6. ASSUME p \in DOMAIN s1[t].plugins
      PROVE  /\ Task!Updated(s1[t], p, s) \in Task!RowShape
             /\ Task!GoodRow(Task!Updated(s1[t], p, s), s2'[t], s5')
  <2>1. s1[t] \in Task!RowShape /\ Task!GoodRow(s1[t], s2[t], s5) /\ s2[t] \in [Plugins -> Task!JobPCs]
    BY <1>0 DEF Task!TaskIInv, Task!TaskRows
  <2> QED
    BY <1>2, <1>6, <2>1, UpdatedGood
<1>7. s1' \in [TaskIds -> Task!RowShape] /\ s12' \subseteq TaskIds /\ s12 \subseteq s12'
  BY <1>0, <1>5, <1>6
<1>8. Task!TaskShape'
  BY <1>2, <1>4, <1>7 DEF Task!TaskIInv, Task!TaskShape
<1>9. Task!TaskRows' /\ Task!TaskCopies'
  <2>1. \A u \in TaskIds : s1'[u] = s1[u] \/ Task!GoodRow(s1'[u], s2'[u], s5')
    BY <1>0, <1>5, <1>6
  <2>2. \A u \in TaskIds : /\ Task!Reported(s2[u]) \subseteq Task!Reported(s2'[u])
                           /\ Task!JobsOf(s2'[u]) = Task!JobsOf(s2[u])
    BY <1>2, <1>3
  <2> QED
    BY <1>8, <2>1, <2>2, TaskKeeps
<1>10. Task!SavedIsInstalled'
  BY <1>0, <1>2 DEF Task!TaskIInv, Task!SavedIsInstalled
<1>11. ASSUME NEW u \in TaskIds PROVE Task!OpenHasWork(u)'
  <2>0. Task!OpenHasWork(u)
    BY DEF Task!TaskIInv
  <2>1. CASE u # t \/ t \in s12' \/ p \notin DOMAIN s1[t].plugins
    <3>1. u = t => s2'[t][p] = l /\ \A q \in Plugins \ {p} : s2'[t][q] = s2[t][q]
      BY <1>0, <1>2
    <3>2. u # t => s1'[u] = s1[u] /\ s2'[u] = s2[u]
      BY <1>0, <1>2, <1>5
    <3>3. DOMAIN s1[t].plugins \subseteq Plugins
      BY <1>0, TaskRowFields
    <3> QED
      BY <1>5, <1>7, <2>0, <2>1, <3>1, <3>2, <3>3, OpenKeeps
  <2>2. CASE u = t /\ t \notin s12' /\ p \in DOMAIN s1[t].plugins
    <3> DEFINE r == s1[t]
               w == Task!Updated(s1[t], p, s)
    <3>0. /\ r.plugins \in [DOMAIN r.plugins -> Task!Statuses] /\ DOMAIN r.plugins \subseteq Plugins
          /\ r \in Task!RowShape
      BY <1>0, TaskRowFields
    <3>1. s1'[t] = w /\ s12' = s12
      BY <1>0, <1>5, <2>2
    <3>2. /\ w.plugins = [r.plugins EXCEPT ![p] = s]
          /\ w.status = IF Task!AllSucceed(w.plugins) THEN "success" ELSE IF s = "failed" THEN s ELSE r.status
      BY <3>0 DEF Task!Updated, Task!RowShape
    <3> HIDE DEF w, r
    <3> SUFFICES ASSUME s10' = "up", t \notin s12', Task!Running(w)
                 PROVE  /\ ~Task!AllSucceed(w.plugins)
                        /\ \A q \in DOMAIN w.plugins \ Task!Succeeded(w) :
                              s2'[t][q] \notin {"none", "end", "over", "killed"}
      BY <2>2, <3>1 DEF Task!OpenHasWork
    <3>3. ~Task!AllSucceed(w.plugins) /\ s # "failed" /\ Task!Running(r)
      BY <3>2 DEF Task!Running
    <3>4. \A q \in DOMAIN r.plugins \ Task!Succeeded(r) : s2[t][q] \notin {"none", "end", "over", "killed"}
      BY <2>0, <2>2, <3>1, <3>3 DEF Task!OpenHasWork, r
    <3>5. ASSUME NEW q \in DOMAIN w.plugins \ Task!Succeeded(w)
          PROVE  s2'[t][q] \notin {"none", "end", "over", "killed"}
      <4>1. CASE q = p
        <5>1. s = "running" /\ l = "stream"
          BY <3>0, <3>2, <3>3, <3>5, <4>1 DEF Task!Succeeded
        <5> QED
          BY <1>0, <1>2, <4>1, <5>1
      <4>2. CASE q # p
        <5>1. q \in DOMAIN r.plugins \ Task!Succeeded(r) /\ q \in Plugins
          BY <3>0, <3>2, <3>5, <4>2 DEF Task!Succeeded
        <5> QED
          BY <1>0, <1>2, <3>4, <4>2, <5>1
      <4> QED
        BY <4>1, <4>2
    <3> QED
      BY <3>3, <3>5
  <2> QED
    BY <2>1, <2>2
<1> QED
  BY <1>8, <1>9, <1>10, <1>11 DEF Task!TaskIInv

\* A step of a job that writes no status.
LEMMA TaskJobGoes ==
  ASSUME Task!TaskAssumption, Task!TaskIInv, NEW t \in TaskIds, NEW p \in Plugins, NEW l \in Task!JobPCs,
         l # "none", s2[t][p] # "none", s2[t][p] \notin {"end", "over"} \/ l = "over",
         s2[t][p] = "end" \/ l \notin {"end", "over", "killed"},
         Task!Goto(t, p, l), l = "installed" => p \in s5', s5 \subseteq s5', s5' \subseteq Plugins,
         s3' \subseteq s3, s4' \subseteq s4, s6' \subseteq TaskIds,
         UNCHANGED <<s1, s7, s8, s9, s10, s11, s12>>
  PROVE  Task!TaskIInv'
<1>0. s1 \in [TaskIds -> Task!RowShape] /\ s2 \in [TaskIds -> [Plugins -> Task!JobPCs]]
  BY DEF Task!TaskIInv, Task!TaskShape
<1>1. s2' = [s2 EXCEPT ![t] = [s2[t] EXCEPT ![p] = l]]
  BY DEF Task!Goto
<1>2. /\ s2'[t] = [s2[t] EXCEPT ![p] = l] /\ \A u \in TaskIds \ {t} : s2'[u] = s2[u]
      /\ s2' \in [TaskIds -> [Plugins -> Task!JobPCs]]
  BY <1>0, <1>1
<1>3. /\ Task!Reported(s2[t]) \subseteq Task!Reported(s2'[t])
      /\ Task!JobsOf(s2'[t]) = Task!JobsOf(s2[t])
  <2>1. s2[t] \in [Plugins -> Task!JobPCs] /\ s2[t][p] # "none"
        /\ (s2[t][p] \notin {"none", "end", "over"} \/ l \in {"end", "over"}) /\ l # "none"
    BY <1>0
  <2>2. /\ Task!Reported(s2[t]) \subseteq Task!Reported([s2[t] EXCEPT ![p] = l])
        /\ Task!JobsOf([s2[t] EXCEPT ![p] = l]) = Task!JobsOf(s2[t])
    BY <2>1, JobMoves
  <2> QED
    BY <1>2, <2>2
<1>4. Task!TaskShape'
  BY <1>2 DEF Task!TaskIInv, Task!TaskShape
<1>5. Task!TaskRows' /\ Task!TaskCopies'
  BY <1>2, <1>3, <1>4, TaskKeeps
<1>6. Task!SavedIsInstalled'
  BY <1>0, <1>2 DEF Task!TaskIInv, Task!SavedIsInstalled
<1>7. ASSUME NEW u \in TaskIds PROVE Task!OpenHasWork(u)'
  <2>0. Task!OpenHasWork(u) /\ DOMAIN s1[u].plugins \subseteq Plugins
    BY <1>0, TaskRowFields DEF Task!TaskIInv
  <2>1. CASE u # t \/ l \notin {"end", "over", "killed"}
    <3>1. \A q \in Plugins : s2'[u][q] = s2[u][q] \/ s2'[u][q] \notin {"none", "end", "over", "killed"}
      BY <1>0, <1>2, <2>1
    <3> QED
      BY <2>0, <3>1, OpenKeeps
  <2>2. CASE u = t /\ s2[t][p] = "end"
    <3>1. \A q \in Plugins \ {p} : s2'[t][q] = s2[t][q]
      BY <1>0, <1>2
    <3> QED
      BY <2>0, <2>2, <3>1 DEF Task!OpenHasWork
  <2> QED
    BY <2>1, <2>2
<1> QED
  BY <1>4, <1>5, <1>6, <1>7 DEF Task!TaskIInv

\* A step that leaves jobs and installations alone and writes or reads good records.
LEMMA TaskWrites ==
  ASSUME Task!TaskAssumption, Task!TaskIInv, Task!TaskShape',
         \A t \in TaskIds : s1'[t] = s1[t] \/ Task!GoodRow(s1'[t], s2'[t], s5'),
         \A c \in s9' \cup ({s11'.copy} \ {Task!NoCopy}) :
            \/ c \in s9 \cup ({s11.copy} \ {Task!NoCopy})
            \/ c.row # Task!NoRow /\ Task!GoodRow(c.row, s2'[c.id], s5'),
         \A t \in TaskIds : s1'[t] = s1[t] \/ ~Task!Running(s1'[t]) \/ Task!OpenHasWork(t)',
         s10' = "up" => s10 = "up", s12 \subseteq s12', UNCHANGED <<s2, s5>>
  PROVE  Task!TaskIInv'
<1>1. Task!TaskRows' /\ Task!TaskCopies'
  BY TaskKeeps
<1>2. Task!SavedIsInstalled'
  BY DEF Task!TaskIInv, Task!SavedIsInstalled
<1>3. \A t \in TaskIds : Task!OpenHasWork(t)'
  BY OpenKeeps DEF Task!TaskIInv
<1> QED
  BY <1>1, <1>2, <1>3 DEF Task!TaskIInv

\* The requests: a task is new, so no record or copy of it exists.
LEMMA TaskRequests ==
  ASSUME Task!TaskAssumption, Task!TaskIInv, NEW t \in TaskIds,
         \/ \E ps \in SUBSET Plugins : Task!InstallMultiple(t, ps)
         \/ \E p \in Plugins : Task!UpgradeTask(t, p)
  PROVE  Task!TaskIInv'
<1>0. /\ s1 \in [TaskIds -> Task!RowShape] /\ s2 \in [TaskIds -> [Plugins -> Task!JobPCs]]
      /\ s3 \subseteq TaskIds \X Plugins /\ s4 \subseteq TaskIds
  BY DEF Task!TaskIInv, Task!TaskShape
<1>1. ASSUME NEW ps \in SUBSET Plugins, ps # {}, \A p \in Plugins : s2[t][p] = "none",
             s1' = [s1 EXCEPT ![t] = Task!NewRow(ps)],
             s2' = [s2 EXCEPT ![t] = [p \in Plugins |-> IF p \in ps THEN "submitted" ELSE "none"]],
             s3' \subseteq TaskIds \X Plugins, s4' \subseteq TaskIds,
             UNCHANGED <<s5, s6, s7, s8, s9, s10, s11, s12>>
      PROVE  Task!TaskIInv'
  <2> DEFINE js == [p \in Plugins |-> IF p \in ps THEN "submitted" ELSE "none"]
             n == Task!NewRow(ps)
  <2>1. /\ s2'[t] = js /\ \A u \in TaskIds \ {t} : s2'[u] = s2[u] /\ s1'[u] = s1[u]
        /\ s1'[t] = n /\ s2' \in [TaskIds -> [Plugins -> Task!JobPCs]]
    BY <1>0, <1>1 DEF Task!JobPCs
  <2>2. Task!Cardinality(ps) \in Nat /\ Task!Cardinality({}) = 0
    BY PluginSets
  <2>3. [p \in ps |-> "pending"] \in UNION {[S -> Task!Statuses] : S \in SUBSET Plugins}
    <3>1. [p \in ps |-> "pending"] \in [ps -> Task!Statuses]
      BY DEF Task!Statuses
    <3> QED
      BY <3>1
  <2>4. /\ n \in Task!RowShape /\ n.status = "running" /\ n.completed = 0
        /\ n.total = Task!Cardinality(ps) /\ n.plugins = [p \in ps |-> "pending"]
    BY <2>2, <2>3 DEF Task!NewRow, Task!RowShape, Task!Statuses
  <2>5. Task!TaskShape'
    <3>1. s1' \in [TaskIds -> Task!RowShape]
      BY <1>0, <1>1, <2>4
    <3> QED
      BY <1>1, <2>1, <3>1 DEF Task!TaskIInv, Task!TaskShape
  <2>6. Task!JobsOf(js) = ps /\ Task!Reported(js) = {}
    BY DEF Task!JobsOf, Task!Reported
  <2>7. Task!Succeeded(n) = {}
    <3> HIDE DEF n
    <3> QED
      BY <2>4 DEF Task!Succeeded
  <2> HIDE DEF n, js
  <2>8. Task!GoodRow(n, js, s5')
    BY <1>1, <2>2, <2>4, <2>6, <2>7 DEF Task!GoodRow
  <2>9. /\ Task!Reported(s2[t]) = {} /\ Task!JobsOf(s2[t]) = {}
    BY <1>1 DEF Task!Reported, Task!JobsOf
  <2>10. Task!TaskRows' /\ Task!TaskCopies'
    <3>1. \A u \in TaskIds : /\ Task!Reported(s2[u]) \subseteq Task!Reported(s2'[u])
                             /\ Task!JobsOf(s2'[u]) = Task!JobsOf(s2[u]) \/ Task!JobsOf(s2[u]) = {}
      BY <2>1, <2>9
    <3>2. \A u \in TaskIds : s1'[u] = s1[u] \/ Task!GoodRow(s1'[u], s2'[u], s5')
      BY <2>1, <2>8
    <3> QED
      BY <1>1, <2>5, <3>1, <3>2, TaskKeeps
  <2>11. Task!SavedIsInstalled'
    <3>1. \A p \in Plugins : js[p] # "installed"
      BY DEF js
    <3> QED
      BY <1>1, <2>1, <3>1 DEF Task!TaskIInv, Task!SavedIsInstalled
  <2>12. ASSUME NEW u \in TaskIds PROVE Task!OpenHasWork(u)'
    <3>0. Task!OpenHasWork(u)
      BY DEF Task!TaskIInv
    <3>1. CASE u # t
      BY <1>1, <2>1, <3>0, <3>1, OpenKeeps
    <3>2. CASE u = t
      <4>1. ~Task!AllSucceed(n.plugins)
        BY <1>1, <2>4 DEF Task!AllSucceed
      <4>2. \A p \in DOMAIN n.plugins : js[p] = "submitted"
        BY <2>4 DEF js
      <4> QED
        BY <2>1, <3>2, <4>1, <4>2 DEF Task!OpenHasWork
    <3> QED
      BY <3>1, <3>2
  <2> QED
    BY <2>5, <2>10, <2>11, <2>12 DEF Task!TaskIInv
<1>2. ASSUME NEW ps \in SUBSET Plugins, Task!InstallMultiple(t, ps) PROVE Task!TaskIInv'
  <2>1. s3' \subseteq TaskIds \X Plugins /\ s4' \subseteq TaskIds
    BY <1>0, <1>2 DEF Task!InstallMultiple
  <2> QED
    BY <1>1, <1>2, <2>1 DEF Task!InstallMultiple, Task!Others
<1>3. ASSUME NEW p \in Plugins, Task!UpgradeTask(t, p) PROVE Task!TaskIInv'
  <2>1. s2' = [s2 EXCEPT ![t] = [q \in Plugins |-> IF q \in {p} THEN "submitted" ELSE "none"]]
    <3>1. [s2[t] EXCEPT ![p] = "submitted"] = [q \in Plugins |-> IF q \in {p} THEN "submitted" ELSE "none"]
      BY <1>0, <1>3 DEF Task!UpgradeTask
    <3>2. s2' = [s2 EXCEPT ![t] = [s2[t] EXCEPT ![p] = "submitted"]]
      BY <1>3 DEF Task!UpgradeTask, Task!Goto
    <3> QED
      BY <3>1, <3>2
  <2>2. s3' \subseteq TaskIds \X Plugins /\ s4' \subseteq TaskIds
    BY <1>0, <1>3 DEF Task!UpgradeTask
  <2>3. /\ \A q \in Plugins : s2[t][q] = "none"
        /\ s1' = [s1 EXCEPT ![t] = Task!NewRow({p})]
        /\ UNCHANGED <<s5, s6, s7, s8, s9, s10, s11, s12>>
    BY <1>3 DEF Task!UpgradeTask, Task!Others
  <2> QED
    BY <1>1, <2>1, <2>2, <2>3
<1> QED
  BY <1>2, <1>3

\* The steps of a job.
LEMMA TaskJobs ==
  ASSUME Task!TaskAssumption, Task!TaskIInv, NEW t \in TaskIds, NEW p \in Plugins, Task!JobStep(t, p)
  PROVE  Task!TaskIInv'
<1>0. s2[t][p] \in Task!JobPCs /\ s5 \subseteq Plugins /\ s6 \subseteq TaskIds
  BY DEF Task!TaskIInv, Task!TaskShape
<1> USE DEF Task!Request, Task!Others
<1>1. CASE Task!StartJob(t, p)
  <2>1. /\ s2[t][p] = "submitted" /\ s6' = s6 \cup {t}
        /\ UNCHANGED <<s1, s3, s4, s5, s7, s8, s9, s10, s11, s12>>
    BY <1>1 DEF Task!StartJob
  <2>2. \E l \in {"save", "mark"} : Task!Goto(t, p, l)
    BY <1>1 DEF Task!StartJob
  <2> QED
    BY <1>0, <2>1, <2>2, TaskJobGoes DEF Task!JobPCs
<1>2. CASE Task!MarkRunning(t, p)
  BY <1>2, TaskUpdates DEF Task!MarkRunning, Task!InProgress, Task!JobPCs
<1>3. CASE Task!StreamError(t, p)
  BY <1>3, TaskUpdates DEF Task!StreamError, Task!InProgress, Task!JobPCs
<1>4. CASE Task!StreamDone(t, p)
  BY <1>0, <1>4, TaskJobGoes DEF Task!StreamDone, Task!JobPCs
<1>5. CASE Task!SaveInstallation(t, p)
  <2>1. s2[t][p] = "save" /\ UNCHANGED <<s1, s3, s4, s6, s7, s8, s9, s10, s11, s12>>
    BY <1>5 DEF Task!SaveInstallation
  <2>2. CASE s5' = s5 \cup {p} /\ Task!Goto(t, p, "installed")
    BY <1>0, <2>1, <2>2, TaskJobGoes DEF Task!JobPCs
  <2>3. CASE s5' = s5 /\ Task!Goto(t, p, "refused")
    BY <1>0, <2>1, <2>3, TaskJobGoes DEF Task!JobPCs
  <2> QED
    BY <1>5, <2>2, <2>3 DEF Task!SaveInstallation
<1>6. CASE Task!Report(t, p)
  <2>1. Task!Goto(t, p, "end") /\ UNCHANGED <<s3, s4, s5, s6, s8, s9, s10, s11>>
    BY <1>6 DEF Task!Report
  <2> DEFINE more == t \notin s4 /\ <<t, p>> \notin s3
  <2>2. CASE s2[t][p] = "installed" /\ Task!UpdateTaskStatus(t, p, "success", more)
    <3>1. more \in BOOLEAN
      BY Zenon
    <3>2. p \in s5
      BY <2>2 DEF Task!TaskIInv, Task!SavedIsInstalled
    <3> HIDE DEF more
    <3> QED
      BY <2>1, <2>2, <3>1, <3>2, TaskUpdates DEF Task!InProgress, Task!JobPCs
  <2>3. CASE s2[t][p] = "refused" /\ Task!UpdateTaskStatus(t, p, "failed", FALSE)
    BY <2>1, <2>3, TaskUpdates DEF Task!InProgress, Task!JobPCs
  <2> QED
    BY <1>6, <2>2, <2>3 DEF Task!Report
<1>7. CASE Task!EndJob(t, p)
  <2>1. /\ s2[t][p] = "end" /\ s6' \subseteq s6 /\ s3' \subseteq s3 /\ s4' \subseteq s4
        /\ Task!Goto(t, p, "over") /\ UNCHANGED <<s1, s5, s7, s8, s9, s10, s11, s12>>
    BY <1>7 DEF Task!EndJob
  <2> QED
    BY <1>0, <2>1, TaskJobGoes DEF Task!JobPCs
<1> QED
  BY <1>1, <1>2, <1>3, <1>4, <1>5, <1>6, <1>7 DEF Task!JobStep

\* Deletions: the whole record, or one plugin of it.
LEMMA TaskDeletions ==
  ASSUME Task!TaskAssumption, Task!TaskIInv, NEW t \in TaskIds,
         Task!TimerFires(t) \/ Task!DeleteTask(t) \/ \E p \in Plugins : Task!DeleteItem(t, p)
  PROVE  Task!TaskIInv'
<1>0. s1 \in [TaskIds -> Task!RowShape]
  BY DEF Task!TaskIInv, Task!TaskShape
<1> USE DEF Task!Request, Task!Others
<1>1. ASSUME NEW w \in Task!RowShape, s1' = [s1 EXCEPT ![t] = w], s7' \subseteq s7,
             Task!GoodRow(w, s2[t], s5), ~Task!Running(w) \/ Task!OpenHasWork(t)',
             UNCHANGED <<s2, s3, s4, s5, s6, s8, s9, s10, s11, s12>>
      PROVE  Task!TaskIInv'
  <2>1. s1' \in [TaskIds -> Task!RowShape] /\ s1'[t] = w /\ \A u \in TaskIds \ {t} : s1'[u] = s1[u]
    BY <1>0, <1>1
  <2>2. Task!TaskShape'
    BY <1>1, <2>1 DEF Task!TaskIInv, Task!TaskShape
  <2>3. \A u \in TaskIds : s1'[u] = s1[u] \/ Task!GoodRow(s1'[u], s2'[u], s5')
    BY <1>1, <2>1
  <2>4. \A u \in TaskIds : s1'[u] = s1[u] \/ ~Task!Running(s1'[u]) \/ Task!OpenHasWork(u)'
    BY <1>1, <2>1
  <2> QED
    BY <1>1, <2>2, <2>3, <2>4, TaskWrites
<1>2. ASSUME s1' = [s1 EXCEPT ![t] = Task!NoRow], s7' \subseteq s7,
             UNCHANGED <<s2, s3, s4, s5, s6, s8, s9, s10, s11, s12>>
      PROVE  Task!TaskIInv'
  <2>1. Task!GoodRow(Task!NoRow, s2[t], s5)
    BY DEF Task!GoodRow
  <2>2. ~Task!Running(Task!NoRow)
    BY NoRowShape DEF Task!Running
  <2> QED
    BY <1>1, <1>2, <2>1, <2>2, NoRowShape
<1>3. CASE Task!TimerFires(t) \/ Task!DeleteTask(t)
  BY <1>2, <1>3 DEF Task!TimerFires, Task!DeleteTask
<1>4. ASSUME NEW p \in Plugins, Task!DeleteItem(t, p) PROVE Task!TaskIInv'
  <2> DEFINE ps == [q \in DOMAIN s1[t].plugins \ {p} |-> s1[t].plugins[q]]
             w == [s1[t] EXCEPT !.plugins = ps]
  <2>1. /\ p \in DOMAIN s1[t].plugins
        /\ s1' = [s1 EXCEPT ![t] = IF Task!AllSucceed(ps) THEN Task!NoRow ELSE w]
        /\ UNCHANGED <<s2, s3, s4, s5, s6, s7, s8, s9, s10, s11, s12>>
    BY <1>4 DEF Task!DeleteItem
  <2>2. CASE Task!AllSucceed(ps)
    BY <1>2, <2>1, <2>2
  <2>3. CASE ~Task!AllSucceed(ps)
    <3>1. /\ s1[t] \in Task!RowShape /\ Task!GoodRow(s1[t], s2[t], s5) /\ Task!OpenHasWork(t)
      BY <1>0 DEF Task!TaskIInv, Task!TaskRows
    <3>2. w \in Task!RowShape /\ Task!GoodRow(w, s2[t], s5)
      BY <2>1, <2>3, <3>1, ItemGood
    <3>3. w.plugins = ps /\ w.status = s1[t].status
      BY <3>1 DEF Task!RowShape
    <3>4. Task!Succeeded(w) = {q \in DOMAIN ps : ps[q] = "success"} /\ DOMAIN ps = DOMAIN s1[t].plugins \ {p}
      <4> HIDE DEF w
      <4> QED
        BY <3>3 DEF Task!Succeeded
    <3>5. DOMAIN ps \ Task!Succeeded(w) \subseteq DOMAIN s1[t].plugins \ Task!Succeeded(s1[t])
      BY <3>4 DEF Task!Succeeded
    <3>6. s1'[t] = w
      BY <1>0, <2>1, <2>3
    <3> HIDE DEF w
    <3>7. Task!OpenHasWork(t)'
      <4> HIDE DEF ps
      <4>1. Task!Running(w) => Task!Running(s1[t])
        BY <3>3 DEF Task!Running
      <4> QED
        BY <2>1, <2>3, <3>1, <3>3, <3>5, <3>6, <4>1 DEF Task!OpenHasWork
    <3> QED
      BY <1>1, <2>1, <2>3, <3>2, <3>7
  <2> QED
    BY <2>2, <2>3
<1> QED
  BY <1>3, <1>4

\* The monitor and the recycler: they read good records and write them back as failed.
LEMMA TaskMonitors ==
  ASSUME Task!TaskAssumption, Task!TaskIInv,
         \/ \E t \in TaskIds : Task!Age(t) \/ Task!RecycleReads(t)
         \/ Task!MonitorReads \/ Task!MonitorWrites \/ Task!MonitorFails \/ Task!Signal \/ Task!RecycleWrites
  PROVE  Task!TaskIInv'
<1> USE DEF Task!Request, Task!Others
<1>0. /\ s1 \in [TaskIds -> Task!RowShape] /\ s8 \subseteq TaskIds /\ s9 \subseteq Task!CopyShape
      /\ s11 \in [todo : SUBSET TaskIds, copy : Task!CopyShape \cup {Task!NoCopy}]
      /\ s6 \subseteq TaskIds /\ s12 \subseteq TaskIds
  BY DEF Task!TaskIInv, Task!TaskShape
<1>1. ASSUME NEW t \in TaskIds, Task!Running(s1[t])
      PROVE  /\ [id |-> t, row |-> s1[t]] \in Task!CopyShape /\ s1[t] # Task!NoRow
             /\ Task!GoodRow(s1[t], s2[t], s5)
  <2>1. s1[t] # Task!NoRow
    BY <1>1, NoRowShape DEF Task!Running
  <2> QED
    BY <1>0, <2>1 DEF Task!TaskIInv, Task!TaskRows, Task!CopyShape
<1>2. ASSUME NEW c \in s9 \cup ({s11.copy} \ {Task!NoCopy})
      PROVE  /\ c.id \in TaskIds /\ Task!Failed(c.row) \in Task!RowShape
             /\ Task!GoodRow(Task!Failed(c.row), s2[c.id], s5) /\ ~Task!Running(Task!Failed(c.row))
  <2>1. c \in Task!CopyShape
    BY <1>0, <1>2
  <2>2. c.id \in TaskIds /\ c.row \in Task!RowShape
    BY <2>1 DEF Task!CopyShape
  <2>3. c.row # Task!NoRow /\ Task!GoodRow(c.row, s2[c.id], s5)
    BY <1>2 DEF Task!TaskIInv, Task!TaskCopies
  <2> QED
    BY <2>2, <2>3, FailedGood
<1>3. ASSUME NEW t \in TaskIds, Task!Age(t) PROVE Task!TaskIInv'
  <2>1. s8' \subseteq TaskIds /\ UNCHANGED <<s1, s2, s3, s4, s5, s6, s7, s9, s10, s11, s12>>
    BY <1>0, <1>3 DEF Task!Age
  <2>2. Task!TaskShape'
    BY <2>1 DEF Task!TaskIInv, Task!TaskShape
  <2> QED
    BY <2>1, <2>2, TaskWrites
<1>4. ASSUME NEW t \in TaskIds, Task!RecycleReads(t) PROVE Task!TaskIInv'
  <2> DEFINE d == [id |-> t, row |-> s1[t]]
             c == IF Task!Running(s1[t]) THEN d ELSE Task!NoCopy
  <2>1. /\ s11' = [s11 EXCEPT !.todo = @ \ {t}, !.copy = c]
        /\ UNCHANGED <<s1, s2, s3, s4, s5, s6, s7, s8, s9, s10, s12>>
    BY <1>4 DEF Task!RecycleReads
  <2>2. c \in Task!CopyShape \cup {Task!NoCopy}
    BY <1>1
  <2>3. c # Task!NoCopy => c.id = t /\ c.row = s1[t] /\ Task!Running(s1[t])
    OBVIOUS
  <2> HIDE DEF c
  <2>4. s11'.copy = c /\ s11' \in [todo : SUBSET TaskIds, copy : Task!CopyShape \cup {Task!NoCopy}]
    BY <1>0, <2>1, <2>2
  <2>5. Task!TaskShape'
    BY <2>1, <2>4 DEF Task!TaskIInv, Task!TaskShape
  <2>6. c # Task!NoCopy => c.row # Task!NoRow /\ Task!GoodRow(c.row, s2'[c.id], s5')
    BY <1>1, <2>1, <2>3
  <2> QED
    BY <2>1, <2>4, <2>5, <2>6, TaskWrites
<1>5. CASE Task!MonitorReads
  <2> DEFINE found == {t \in s8 : Task!Running(s1[t])}
  <2>1. /\ s9' = {[id |-> t, row |-> s1[t]] : t \in found}
        /\ UNCHANGED <<s1, s2, s3, s4, s5, s6, s7, s8, s10, s11, s12>>
    BY <1>5 DEF Task!MonitorReads
  <2>2. \A c \in s9' : \E t \in TaskIds : Task!Running(s1[t]) /\ c = [id |-> t, row |-> s1[t]]
    BY <1>0, <2>1
  <2>3. \A c \in s9' : c \in Task!CopyShape /\ c.row # Task!NoRow /\ Task!GoodRow(c.row, s2'[c.id], s5')
    BY <1>1, <2>1, <2>2
  <2>4. Task!TaskShape'
    BY <2>1, <2>3 DEF Task!TaskIInv, Task!TaskShape
  <2> QED
    BY <2>1, <2>3, <2>4, TaskWrites
<1>6. CASE Task!MonitorWrites
  <2>1. /\ s9' = {} /\ UNCHANGED <<s2, s3, s4, s5, s6, s7, s8, s10, s11, s12>>
        /\ s1' = [t \in TaskIds |-> IF \E c \in s9 : c.id = t
                    THEN Task!Failed((CHOOSE c \in s9 : c.id = t).row) ELSE s1[t]]
    BY <1>6 DEF Task!MonitorWrites
  <2>2. ASSUME NEW t \in TaskIds, \E c \in s9 : c.id = t
        PROVE  /\ s1'[t] \in Task!RowShape /\ Task!GoodRow(s1'[t], s2'[t], s5')
               /\ ~Task!Running(s1'[t])
    <3> DEFINE c == CHOOSE x \in s9 : x.id = t
    <3>1. c \in s9 /\ c.id = t
      BY <2>2
    <3>2. s1'[t] = Task!Failed(c.row)
      BY <2>1, <2>2
    <3> HIDE DEF c
    <3> QED
      BY <1>2, <2>1, <3>1, <3>2
  <2>3. \A t \in TaskIds : (~\E c \in s9 : c.id = t) => s1'[t] = s1[t]
    BY <2>1
  <2>4. s1' \in [TaskIds -> Task!RowShape]
    <3>1. \A t \in TaskIds : s1'[t] \in Task!RowShape
      BY <1>0, <2>2, <2>3
    <3> QED
      BY <2>1, <3>1
  <2>5. Task!TaskShape'
    BY <2>1, <2>4 DEF Task!TaskIInv, Task!TaskShape
  <2> QED
    BY <2>1, <2>2, <2>3, <2>5, TaskWrites
<1>7. CASE Task!MonitorFails
  <2>1. s9' = {} /\ UNCHANGED <<s1, s2, s3, s4, s5, s6, s7, s8, s10, s11, s12>>
    BY <1>7 DEF Task!MonitorFails
  <2>2. Task!TaskShape'
    BY <2>1 DEF Task!TaskIInv, Task!TaskShape
  <2> QED
    BY <2>1, <2>2, TaskWrites
<1>8. CASE Task!Signal
  <2>1. /\ s10' = "stopping" /\ UNCHANGED <<s1, s2, s3, s4, s5, s6, s7, s8, s9, s12>>
        /\ s11' = [s11 EXCEPT !.todo = s6]
    BY <1>8 DEF Task!Signal
  <2>2. s11'.copy = s11.copy /\ s11' \in [todo : SUBSET TaskIds, copy : Task!CopyShape \cup {Task!NoCopy}]
    BY <1>0, <2>1
  <2>3. Task!TaskShape'
    BY <2>1, <2>2 DEF Task!TaskIInv, Task!TaskShape
  <2> QED
    BY <2>1, <2>2, <2>3, TaskWrites
<1>9. CASE Task!RecycleWrites
  <2> DEFINE c == s11.copy
  <2>1. /\ c # Task!NoCopy /\ s11' = [s11 EXCEPT !.copy = Task!NoCopy]
        /\ UNCHANGED <<s2, s3, s4, s5, s6, s7, s8, s9, s10>>
        /\ \/ s1' = [s1 EXCEPT ![c.id] = Task!Failed(c.row)] /\ UNCHANGED s12
           \/ UNCHANGED s1 /\ s12' = s12 \cup {c.id}
    BY <1>9 DEF Task!RecycleWrites
  <2>2. /\ c.id \in TaskIds /\ Task!Failed(c.row) \in Task!RowShape
        /\ Task!GoodRow(Task!Failed(c.row), s2[c.id], s5) /\ ~Task!Running(Task!Failed(c.row))
    BY <1>2, <2>1
  <2>3. s11'.copy = Task!NoCopy /\ s11' \in [todo : SUBSET TaskIds, copy : Task!CopyShape \cup {Task!NoCopy}]
    BY <1>0, <2>1
  <2> HIDE DEF c
  <2>4. /\ s1' \in [TaskIds -> Task!RowShape] /\ s12' \subseteq TaskIds /\ s12 \subseteq s12'
        /\ \A t \in TaskIds : s1'[t] = s1[t] \/ (t = c.id /\ s1'[t] = Task!Failed(c.row))
    BY <1>0, <2>1, <2>2
  <2>5. Task!TaskShape'
    BY <2>1, <2>3, <2>4 DEF Task!TaskIInv, Task!TaskShape
  <2> QED
    BY <2>1, <2>2, <2>3, <2>4, <2>5, TaskWrites
<1> QED
  BY <1>3, <1>4, <1>5, <1>6, <1>7, <1>8, <1>9

\* The process is gone: jobs that were at work are killed, the others count as over.
LEMMA TaskExit ==
  ASSUME Task!TaskAssumption, Task!TaskIInv, Task!ExitDaemon
  PROVE  Task!TaskIInv'
<1>0. /\ s2 \in [TaskIds -> [Plugins -> Task!JobPCs]]
      /\ s11 \in [todo : SUBSET TaskIds, copy : Task!CopyShape \cup {Task!NoCopy}]
  BY DEF Task!TaskIInv, Task!TaskShape
<1>1. /\ s10' \in {"exited", "crashed"} /\ UNCHANGED <<s1, s5, s8, s9, s12>>
      /\ s3' = {} /\ s4' = {} /\ s6' = {} /\ s7' = {}
      /\ s2' = [t \in TaskIds |-> [p \in Plugins |->
           IF s2[t][p] \in Task!InProgress THEN "killed"
           ELSE IF s2[t][p] = "none" THEN "none" ELSE "over"]]
  BY DEF Task!ExitDaemon
<1>2. s2' \in [TaskIds -> [Plugins -> Task!JobPCs]]
  BY <1>1 DEF Task!JobPCs
<1>3. \A t \in TaskIds : /\ Task!Reported(s2[t]) \subseteq Task!Reported(s2'[t])
                         /\ Task!JobsOf(s2'[t]) = Task!JobsOf(s2[t])
  <2> TAKE t \in TaskIds
  <2>1. \A p \in Plugins : /\ s2'[t][p] # "none" <=> s2[t][p] # "none"
                           /\ s2[t][p] \in {"end", "over"} => s2'[t][p] = "over"
    BY <1>1 DEF Task!InProgress
  <2> QED
    BY <2>1 DEF Task!Reported, Task!JobsOf
<1>4. /\ s11'.copy \in {s11.copy, Task!NoCopy}
      /\ s11' \in [todo : SUBSET TaskIds, copy : Task!CopyShape \cup {Task!NoCopy}]
  BY <1>0 DEF Task!ExitDaemon
<1>5. Task!TaskShape'
  BY <1>1, <1>2, <1>4 DEF Task!TaskIInv, Task!TaskShape
<1>6. Task!TaskRows' /\ Task!TaskCopies'
  BY <1>1, <1>3, <1>4, <1>5, TaskKeeps
<1>7. Task!SavedIsInstalled'
  <2>1. \A t \in TaskIds, p \in Plugins : s2'[t][p] # "installed"
    BY <1>1
  <2> QED
    BY <2>1 DEF Task!SavedIsInstalled
<1>8. \A t \in TaskIds : Task!OpenHasWork(t)'
  BY <1>1 DEF Task!OpenHasWork
<1> QED
  BY <1>5, <1>6, <1>7, <1>8 DEF Task!TaskIInv

\* Before the first request there is neither a record nor a job.
LEMMA TaskInitial == Task!TaskInit => Task!TaskIInv
<1> SUFFICES ASSUME Task!TaskInit PROVE Task!TaskIInv
  OBVIOUS
<1>1. /\ s1 = [t \in TaskIds |-> Task!NoRow] /\ s5 \subseteq Plugins /\ s9 = {} /\ s12 = {}
      /\ s2 = [t \in TaskIds |-> [p \in Plugins |-> "none"]]
      /\ s11 = [todo |-> {}, copy |-> Task!NoCopy]
  BY DEF Task!TaskInit
<1>2. Task!TaskShape
  <2>1. s1 \in [TaskIds -> Task!RowShape] /\ s2 \in [TaskIds -> [Plugins -> Task!JobPCs]]
    BY <1>1, NoRowShape DEF Task!JobPCs
  <2> QED
    BY <1>1, <2>1 DEF Task!TaskShape, Task!TaskInit
<1>3. Task!TaskRows
  BY <1>1 DEF Task!TaskRows, Task!GoodRow
<1>4. Task!TaskCopies
  BY <1>1 DEF Task!TaskCopies
<1>5. Task!SavedIsInstalled
  BY <1>1 DEF Task!SavedIsInstalled
<1>6. \A t \in TaskIds : Task!OpenHasWork(t)
  BY <1>1, NoRowShape DEF Task!OpenHasWork, Task!Running
<1> QED
  BY <1>2, <1>3, <1>4, <1>5, <1>6 DEF Task!TaskIInv

\* What the invariant says of the record a tenant sees.
LEMMA TaskRecordFollows ==
  ASSUME Task!TaskAssumption, Task!TaskIInv
  PROVE  Task!TaskTypeOK /\ Task!CompletedBounds /\ Task!SuccessIsInstalled /\ Task!ReturnedIsClosed
<1>0. s1 \in [TaskIds -> Task!RowShape] /\ s2 \in [TaskIds -> [Plugins -> Task!JobPCs]]
  BY DEF Task!TaskIInv, Task!TaskShape
<1>1. ASSUME NEW r \in Task!RowShape, NEW js, NEW ins, Task!GoodRow(r, js, ins)
      PROVE  /\ Task!IsRow(r)
             /\ r # Task!NoRow => r.completed <= r.total
  <2>0. /\ r.total \in Nat /\ r.completed \in Nat /\ r.status \in Task!Statuses \cup {"none"}
        /\ DOMAIN r.plugins \subseteq Plugins /\ r.plugins \in [DOMAIN r.plugins -> Task!Statuses]
    BY TaskRowFields
  <2>1. /\ Task!Reported(js) \subseteq Task!JobsOf(js) /\ Task!JobsOf(js) \subseteq Plugins
    BY DEF Task!Reported, Task!JobsOf
  <2>2. /\ Task!Cardinality(Task!Reported(js)) \in Nat /\ Task!Cardinality(Task!JobsOf(js)) \in Nat
        /\ Task!Cardinality(Plugins) \in Nat
        /\ Task!Cardinality(Task!Reported(js)) <= Task!Cardinality(Task!JobsOf(js))
        /\ Task!Cardinality(Task!JobsOf(js)) <= Task!Cardinality(Plugins)
    BY <2>1, PluginSets
  <2>3. r = Task!NoRow => r.total = 0 /\ r.completed = 0
    BY DEF Task!NoRow
  <2>4. r # Task!NoRow => /\ r.total = Task!Cardinality(Task!JobsOf(js))
                          /\ r.completed <= Task!Cardinality(Task!Reported(js))
    BY <1>1 DEF Task!GoodRow
  <2>5. /\ r.total \in 0..Task!Cardinality(Plugins) /\ r.completed \in 0..Task!Cardinality(Plugins)
        /\ r # Task!NoRow => r.completed <= r.total
    BY <2>0, <2>2, <2>3, <2>4
  <2> QED
    BY <2>0, <2>5 DEF Task!IsRow
<1>2. Task!TaskTypeOK
  <2>1. \A t \in TaskIds : Task!IsRow(s1[t])
    BY <1>0, <1>1 DEF Task!TaskIInv, Task!TaskRows
  <2>2. ASSUME NEW c \in s9 PROVE c.id \in TaskIds /\ Task!IsRow(c.row)
    <3>1. c \in Task!CopyShape
      BY <2>2 DEF Task!TaskIInv, Task!TaskShape
    <3>2. c.id \in TaskIds /\ c.row \in Task!RowShape
      BY <3>1 DEF Task!CopyShape
    <3> QED
      BY <1>1, <2>2, <3>2 DEF Task!TaskIInv, Task!TaskCopies
  <2> QED
    BY <2>1, <2>2 DEF Task!TaskIInv, Task!TaskShape, Task!TaskTypeOK
<1>3. Task!CompletedBounds
  <2> SUFFICES ASSUME NEW t \in TaskIds, s1[t] # Task!NoRow
               PROVE  /\ Task!Cardinality(Task!Succeeded(s1[t])) <= s1[t].completed
                      /\ s1[t].completed <= s1[t].total
    BY DEF Task!CompletedBounds, Task!Succeeded
  <2>1. s1[t] \in Task!RowShape /\ Task!GoodRow(s1[t], s2[t], s5)
    BY <1>0 DEF Task!TaskIInv, Task!TaskRows
  <2> QED
    BY <1>1, <2>1 DEF Task!GoodRow
<1>4. Task!SuccessIsInstalled
  <2> SUFFICES ASSUME NEW t \in TaskIds, s1[t] # Task!NoRow, NEW p \in DOMAIN s1[t].plugins,
                      s1[t].plugins[p] = "success" \/ s1[t].status = "success"
               PROVE  p \in s5
    BY DEF Task!SuccessIsInstalled
  <2>1. Task!GoodRow(s1[t], s2[t], s5)
    BY <1>0 DEF Task!TaskIInv, Task!TaskRows
  <2>2. p \in Task!Succeeded(s1[t])
    BY <2>1 DEF Task!GoodRow, Task!Succeeded, Task!AllSucceed
  <2> QED
    BY <2>1, <2>2 DEF Task!GoodRow
<1>5. Task!ReturnedIsClosed
  <2> SUFFICES ASSUME NEW t \in TaskIds, s10 = "up", t \notin s12,
                      \A p \in Plugins : s2[t][p] \in {"none", "over"}, Task!Running(s1[t])
               PROVE  FALSE
    BY DEF Task!ReturnedIsClosed
  <2>1. Task!OpenHasWork(t)
    BY DEF Task!TaskIInv
  <2>2. PICK p \in DOMAIN s1[t].plugins : s1[t].plugins[p] # "success"
    BY <2>1 DEF Task!OpenHasWork, Task!AllSucceed
  <2>3. p \in Plugins
    BY <1>0, TaskRowFields
  <2> QED
    BY <2>1, <2>2, <2>3 DEF Task!OpenHasWork, Task!Succeeded
<1> QED
  BY <1>2, <1>3, <1>4, <1>5

\* The record a tenant polls is true (internal/tasks, install_task_service.go): the count
\* covers what is shown as installed and is at most the total, what is shown as a success
\* is installed, and a task whose jobs have returned is not shown as running, for any
\* number of tasks and plugins and however old the copies are that monitor and recycler
\* write back.
THEOREM TaskRecordStaysTrue == ServicesSpec => []TaskRecordIsTrue
<1> DEFINE Inv == unit = "task" => Task!TaskIInv
<1>0. Task!TaskAssumption
  BY ServicesAssumption
<1>1. ServicesInit => Inv
  BY TaskInitial DEF ServicesInit
<1>2. Inv /\ [ServicesNext]_servicesVars => Inv'
  <2> SUFFICES ASSUME Inv, [ServicesNext]_servicesVars, unit' = "task" PROVE Task!TaskIInv'
    OBVIOUS
  <2>1. unit = "task" /\ Task!TaskIInv
    BY DEF ServicesNext, servicesVars
  <2>2. CASE Task!TaskNext
    BY <1>0, <2>1, <2>2, TaskRequests, TaskJobs, TaskDeletions, TaskMonitors, TaskExit
       DEF Task!TaskNext
  <2>3. CASE UNCHANGED unitVars
    <3>1. UNCHANGED <<s1, s2, s3, s4, s5, s6, s7, s8, s9, s10, s11, s12>>
      BY <2>3 DEF unitVars
    <3>2. Task!TaskShape'
      BY <2>1, <3>1 DEF Task!TaskIInv, Task!TaskShape
    <3> QED
      BY <1>0, <2>1, <3>1, <3>2, TaskWrites
  <2> QED
    BY <2>1, <2>2, <2>3 DEF ServicesNext, servicesVars
<1>3. Inv => TaskRecordIsTrue
  BY <1>0, TaskRecordFollows DEF TaskRecordIsTrue
<1> QED
  BY <1>1, <1>2, <1>3, PTL DEF ServicesSpec

------------------------------------------------------------------------------
(* ConnectionKey *)

\* What becomes of the requests when one of them goes on: the others keep their place and
\* their key.
LEMMA KeyMoves ==
  ASSUME s3 \in [KeyCallers -> Key!KeyCallShape], NEW c \in KeyCallers
  PROVE  /\ \A from, to \in {"idle", "expire_id", "expire_key", "watch", "exec", "del_key", "del_id",
                             "done", "error", "cleared"}, touches \in BOOLEAN :
              Key!Goes2(c, from, to, touches) =>
                /\ s3[c].at = from /\ s3' \in [KeyCallers -> Key!KeyCallShape]
                /\ s3'[c].at = to /\ s3'[c].key = s3[c].key
                /\ \A d \in KeyCallers \ {c} : s3'[d].at = s3[d].at /\ s3'[d].key = s3[d].key
         /\ \A r \in Key!KeyCallShape : s3' = [s3 EXCEPT ![c] = r] =>
                /\ s3' \in [KeyCallers -> Key!KeyCallShape] /\ s3'[c] = r
                /\ \A d \in KeyCallers \ {c} : s3'[d] = s3[d]
<1>1. ASSUME NEW from \in {"idle", "expire_id", "expire_key", "watch", "exec", "del_key", "del_id",
                           "done", "error", "cleared"},
             NEW to \in {"idle", "expire_id", "expire_key", "watch", "exec", "del_key", "del_id",
                         "done", "error", "cleared"},
             NEW touches \in BOOLEAN, Key!Goes2(c, from, to, touches)
      PROVE  /\ s3[c].at = from /\ s3' \in [KeyCallers -> Key!KeyCallShape]
             /\ s3'[c].at = to /\ s3'[c].key = s3[c].key
             /\ \A d \in KeyCallers \ {c} : s3'[d].at = s3[d].at /\ s3'[d].key = s3[d].key
  <2> DEFINE m(d) == IF d = c THEN [s3[c] EXCEPT !.at = to]
                     ELSE [s3[d] EXCEPT !.dirty = @ \/ (touches /\ s3[d].at = "exec")]
  <2>1. s3[c].at = from /\ s3' = [d \in KeyCallers |-> m(d)]
    BY <1>1 DEF Key!Goes2
  <2>2. /\ m(c) \in Key!KeyCallShape /\ m(c).at = to /\ m(c).key = s3[c].key
    <3>1. [s3[c] EXCEPT !.at = to] \in Key!KeyCallShape
      BY Zenon DEF Key!KeyCallShape
    <3> QED
      BY <3>1 DEF Key!KeyCallShape
  <2>3. ASSUME NEW d \in KeyCallers \ {c}
        PROVE  m(d) \in Key!KeyCallShape /\ m(d).at = s3[d].at /\ m(d).key = s3[d].key
    <3> DEFINE b == s3[d].dirty \/ (touches /\ s3[d].at = "exec")
    <3>1. b \in BOOLEAN
      BY Zenon
    <3>2. m(d) = [s3[d] EXCEPT !.dirty = b]
      OBVIOUS
    <3> HIDE DEF b
    <3>3. [s3[d] EXCEPT !.dirty = b] \in Key!KeyCallShape
      BY <3>1, Zenon DEF Key!KeyCallShape
    <3>4. s3[d] \in Key!KeyCallShape
      OBVIOUS
    <3> QED
      BY <3>2, <3>3, <3>4 DEF Key!KeyCallShape
  <2> HIDE DEF m
  <2>4. \A d \in KeyCallers : m(d) \in Key!KeyCallShape
    BY <2>2, <2>3
  <2>5. \A d \in KeyCallers : s3'[d] = m(d)
    BY <2>1
  <2> QED
    BY <2>1, <2>2, <2>3, <2>4, <2>5
<1>2. ASSUME NEW r \in Key!KeyCallShape, s3' = [s3 EXCEPT ![c] = r]
      PROVE  /\ s3' \in [KeyCallers -> Key!KeyCallShape] /\ s3'[c] = r
             /\ \A d \in KeyCallers \ {c} : s3'[d] = s3[d]
  BY <1>2
<1> QED
  BY <1>1, <1>2

\* What the invariant says of the single variables.
LEMMA KeyFields ==
  ASSUME Key!KeyIInv, Key!KeyAssumption
  PROVE  /\ s1.key \in Nat /\ s1.ttl \in Nat /\ s1.key <= s4 /\ s1.ttl <= KeyTTL
         /\ s1 # Key!NoEntry => s1.key \in Key!Keys_ /\ s1.ttl \in 1..KeyTTL
         /\ s2 \in [Key!Keys_ -> 0..KeyTTL] /\ s4 \in 0..MaxKeys
         /\ \A c \in KeyCallers : s3[c].key \in 0..s4 /\ (s3[c].key # 0 => s3[c].key \in Key!Keys_)
         /\ Key!NoEntry.key = 0 /\ Key!NoEntry.ttl = 0 /\ KeyTTL \in Nat /\ KeyTTL > 0 /\ MaxKeys \in Nat
         /\ s1 \in [key : 0..MaxKeys, ttl : 0..KeyTTL]
<1>1. Key!NoEntry.key = 0 /\ Key!NoEntry.ttl = 0
  BY DEF Key!NoEntry
<1>2. s1 = Key!NoEntry => s1.key <= s4
  BY <1>1 DEF Key!KeyIInv, Key!KeyTypeOK, Key!KeyAssumption
<1>3. s1 # Key!NoEntry => s1.key \in 1..s4 /\ s1.ttl \in 1..KeyTTL
  BY DEF Key!KeyIInv, Key!EntryIsDrawn
<1>4. /\ s1.key \in 0..MaxKeys /\ s1.ttl \in 0..KeyTTL /\ s2 \in [Key!Keys_ -> 0..KeyTTL]
      /\ s4 \in 0..MaxKeys /\ \A c \in KeyCallers : s3[c].key \in 0..s4
      /\ MaxKeys \in Nat /\ KeyTTL \in Nat /\ KeyTTL > 0
  BY DEF Key!KeyIInv, Key!KeyTypeOK, Key!KeyAssumption
<1>5. s1 \in [key : 0..MaxKeys, ttl : 0..KeyTTL]
  BY DEF Key!KeyIInv, Key!KeyTypeOK
<1> QED
  BY <1>1, <1>2, <1>3, <1>4, <1>5 DEF Key!Keys_

\* A step of one request that leaves both entries alone: it holds the key it held, none, or
\* that of the tenant's entry.
LEMMA KeyQuiet ==
  ASSUME Key!KeyAssumption, Key!KeyIInv, NEW c \in KeyCallers, UNCHANGED <<s1, s2, s4>>,
         s3' \in [KeyCallers -> Key!KeyCallShape], s5' \in 0..MaxTicks, s6' \in 0..MaxLost,
         s7' = s7 \/ s7' = TRUE,
         \A d \in KeyCallers \ {c} : s3'[d].at = s3[d].at /\ s3'[d].key = s3[d].key,
         s3'[c].at # "exec",
         s3'[c].at \in {"expire_id", "expire_key", "del_key", "del_id", "cleared"} => s3'[c].key # 0,
         s3'[c].key \in {0, s1.key} \/ s3'[c].key = s3[c].key,
         s3'[c].at \in {"del_id", "cleared"} => s7',
         s3[c].at \in {"del_key", "del_id", "expire_key"} => s7' \/ s3'[c].at = s3[c].at
  PROVE  Key!KeyIInv'
<1>0. s7' \in BOOLEAN /\ (~s7' => ~s7)
  <2>1. s7 \in BOOLEAN
    BY DEF Key!KeyIInv, Key!KeyTypeOK
  <2>2. CASE s7' = s7
    BY <2>1, <2>2
  <2>3. CASE s7' = TRUE
    BY <2>3
  <2> QED
    BY <2>2, <2>3
<1>1. Key!KeyTypeOK' /\ Key!EntryIsDrawn'
  <2>1. s3'[c].key \in 0..s4'
    BY KeyFields
  <2>2. \A d \in KeyCallers : s3'[d].key \in 0..s4'
    BY <2>1, KeyFields
  <2> QED
    BY <1>0, <2>2 DEF Key!KeyIInv, Key!KeyTypeOK, Key!EntryIsDrawn, Key!Keys_
<1>2. ASSUME NEW d \in KeyCallers PROVE Key!KeyIsHeld(d)'
  <2>0. Key!KeyIsHeld(d)
    BY DEF Key!KeyIInv
  <2>1. CASE d = c
    BY <1>0, <2>1 DEF Key!KeyIsHeld
  <2>2. CASE d # c
    <3>1. s3[d].at = "exec" => s3'[c].key # s3[d].key
      BY <2>0, <2>2 DEF Key!KeyIsHeld
    <3>2. s3'[d].at = "exec" => \A e \in KeyCallers \ {d} : s3'[e].key # s3'[d].key
      BY <2>0, <2>2, <3>1 DEF Key!KeyIsHeld
    <3> QED
      BY <1>0, <2>0, <2>2, <3>2 DEF Key!KeyIsHeld
  <2> QED
    BY <2>1, <2>2
<1>3. Key!HeldKeyResolves'
  <2> SUFFICES ASSUME s1 # Key!NoEntry, ~s7', ~Key!Clearing', ~Key!Renewing(s1.key)'
               PROVE  s2[s1.key] >= s1.ttl
    BY DEF Key!HeldKeyResolves, Key!Renewing
  <2>1. ~Key!Clearing /\ ~Key!Renewing(s1.key)
    BY DEF Key!Clearing, Key!Renewing
  <2> QED
    BY <1>0, <2>1 DEF Key!KeyIInv, Key!HeldKeyResolves
<1> QED
  BY <1>1, <1>2, <1>3 DEF Key!KeyIInv

\* The fallible commands count their failures.
LEMMA KeyClocks ==
  ASSUME Key!KeyIInv, Key!KeyAssumption
  PROVE  /\ s5 \in 0..MaxTicks /\ s6 \in 0..MaxLost
         /\ Key!CmdFails => s5' \in 0..MaxTicks /\ s6' \in 0..MaxLost
         /\ UNCHANGED Key!Clocks => s5' \in 0..MaxTicks /\ s6' \in 0..MaxLost
BY DEF Key!KeyIInv, Key!KeyTypeOK, Key!KeyAssumption, Key!CmdFails, Key!Clocks

\* A request without a key, and one that has just got a key.
LEMMA NoKeyCallShape ==
  ASSUME Key!KeyAssumption, NEW k \in 0..MaxKeys,
         NEW at \in {"idle", "expire_id", "watch", "exec", "del_key", "error"}
  PROVE  /\ Key!NoKeyCall \in Key!KeyCallShape /\ Key!NoKeyCall.at = "idle" /\ Key!NoKeyCall.key = 0
         /\ [at |-> at, key |-> k, dirty |-> FALSE] \in Key!KeyCallShape
<1>1. 0 \in 0..MaxKeys
  BY DEF Key!KeyAssumption
<1>2. FALSE \in BOOLEAN
  OBVIOUS
<1>3. [at |-> at, key |-> k, dirty |-> FALSE] \in Key!KeyCallShape
  BY <1>2, Zenon DEF Key!KeyCallShape
<1>4. Key!NoKeyCall \in Key!KeyCallShape
  BY <1>1, <1>2, Zenon DEF Key!KeyCallShape, Key!NoKeyCall
<1>5. Key!NoKeyCall.at = "idle" /\ Key!NoKeyCall.key = 0
  BY DEF Key!NoKeyCall
<1> QED
  BY <1>3, <1>4, <1>5

\* The steps that change neither entry.
LEMMA KeyQuietSteps ==
  ASSUME Key!KeyAssumption, Key!KeyIInv, NEW c \in KeyCallers,
         Key!GetKey(c) \/ Key!ClearRead(c) \/ Key!CallAgain(c)
  PROVE  Key!KeyIInv'
<1>0. s3 \in [KeyCallers -> Key!KeyCallShape] /\ Key!KeyIsHeld(c) /\ s7' = s7
  BY DEF Key!KeyIInv, Key!GetKey, Key!ClearRead, Key!CallAgain
<1>1. s1.key \in 0..MaxKeys
  BY DEF Key!KeyIInv, Key!KeyTypeOK
<1>2. ASSUME NEW r \in Key!KeyCallShape, r.key \in {0, s1.key},
             r.at \in {"idle", "expire_id", "watch", "del_key", "error"},
             r.at \in {"expire_id", "del_key"} => r.key = s1.key /\ s1 # Key!NoEntry,
             s3[c].at \in {"idle", "done", "error", "cleared"}, s3' = [s3 EXCEPT ![c] = r],
             UNCHANGED <<s1, s2, s4, s7>>, s5' \in 0..MaxTicks, s6' \in 0..MaxLost
      PROVE  Key!KeyIInv'
  <2>1. /\ s3' \in [KeyCallers -> Key!KeyCallShape] /\ s3'[c] = r
        /\ \A d \in KeyCallers \ {c} : s3'[d] = s3[d]
    BY <1>0, <1>2, KeyMoves
  <2>2. r.at \in {"expire_id", "del_key"} => r.key # 0
    BY <1>2, KeyFields DEF Key!Keys_
  <2> QED
    BY <1>2, <2>1, <2>2, KeyQuiet
<1>6. Key!NoKeyCall \in Key!KeyCallShape /\ Key!NoKeyCall.at = "idle" /\ Key!NoKeyCall.key = 0
  BY <1>1, NoKeyCallShape
<1>3. CASE Key!GetKey(c)
  <2>0. s3[c].at = "idle" /\ UNCHANGED <<s1, s2, s4, s7>> /\ s5' \in 0..MaxTicks /\ s6' \in 0..MaxLost
    BY <1>3, KeyClocks DEF Key!GetKey
  <2>1. CASE s1 # Key!NoEntry /\ s3' = [s3 EXCEPT ![c] = [Key!NoKeyCall EXCEPT !.at = "expire_id", !.key = s1.key]]
    <3> DEFINE r == [Key!NoKeyCall EXCEPT !.at = "expire_id", !.key = s1.key]
    <3>1. r \in Key!KeyCallShape
      BY <1>1, <1>6, Zenon DEF Key!KeyCallShape
    <3>2. r.at = "expire_id" /\ r.key = s1.key
      BY <1>6 DEF Key!KeyCallShape
    <3> HIDE DEF r
    <3> QED
      BY <1>2, <2>0, <2>1, <3>1, <3>2 DEF r
  <2>2. CASE s3' = [s3 EXCEPT ![c] = [Key!NoKeyCall EXCEPT !.at = "watch"]]
    <3> DEFINE r == [Key!NoKeyCall EXCEPT !.at = "watch"]
    <3>1. r \in Key!KeyCallShape
      BY <1>6, Zenon DEF Key!KeyCallShape
    <3>2. r.at = "watch" /\ r.key = 0
      BY <1>6 DEF Key!KeyCallShape
    <3> HIDE DEF r
    <3> QED
      BY <1>2, <2>0, <2>2, <3>1, <3>2 DEF r
  <2>3. CASE s3' = [s3 EXCEPT ![c].at = "error"]
    <3> DEFINE r == [s3[c] EXCEPT !.at = "error"]
    <3>1. s3' = [s3 EXCEPT ![c] = r]
      BY <2>3
    <3>2. r \in Key!KeyCallShape
      BY <1>0, Zenon DEF Key!KeyCallShape
    <3>5. r.at = "error" /\ r.key = s3[c].key
      BY <1>0 DEF Key!KeyCallShape
    <3> HIDE DEF r
    <3>3. /\ s3' \in [KeyCallers -> Key!KeyCallShape] /\ s3'[c] = r
          /\ \A d \in KeyCallers \ {c} : s3'[d] = s3[d]
      BY <1>0, <3>1, <3>2, KeyMoves
    <3> QED
      BY <2>0, <3>2, <3>3, <3>5, KeyQuiet
  <2> QED
    BY <1>3, <2>1, <2>2, <2>3 DEF Key!GetKey
<1>4. CASE Key!ClearRead(c)
  <2>1. /\ s3[c].at = "idle" /\ s1 # Key!NoEntry /\ UNCHANGED <<s1, s2, s4, s7>>
        /\ s5' \in 0..MaxTicks /\ s6' \in 0..MaxLost
        /\ s3' = [s3 EXCEPT ![c] = [Key!NoKeyCall EXCEPT !.at = "del_key", !.key = s1.key]]
    BY <1>4, KeyClocks DEF Key!ClearRead
  <2> DEFINE r == [Key!NoKeyCall EXCEPT !.at = "del_key", !.key = s1.key]
  <2>2. r \in Key!KeyCallShape
    BY <1>1, <1>6, Zenon DEF Key!KeyCallShape
  <2>3. r.at = "del_key" /\ r.key = s1.key
    BY <1>6 DEF Key!KeyCallShape
  <2> HIDE DEF r
  <2> QED
    BY <1>2, <2>1, <2>2, <2>3 DEF r
<1>5. CASE Key!CallAgain(c)
  <2>1. /\ s3[c].at \in {"done", "error", "cleared"} /\ UNCHANGED <<s1, s2, s4, s7>>
        /\ s5' \in 0..MaxTicks /\ s6' \in 0..MaxLost /\ s3' = [s3 EXCEPT ![c] = Key!NoKeyCall]
    BY <1>5, KeyClocks DEF Key!CallAgain
  <2> QED
    BY <1>1, <1>2, <2>1, NoKeyCallShape
<1> QED
  BY <1>3, <1>4, <1>5

\* WATCH: the key that is drawn is held by nobody.
LEMMA KeyWatch ==
  ASSUME Key!KeyAssumption, Key!KeyIInv, NEW c \in KeyCallers, Key!WatchKey(c)
  PROVE  Key!KeyIInv'
<1>0. s3 \in [KeyCallers -> Key!KeyCallShape] /\ s4 \in 0..MaxKeys /\ MaxKeys \in Nat
  BY DEF Key!KeyIInv, Key!KeyTypeOK, Key!KeyAssumption
<1>1. /\ s3[c].at = "watch" /\ s4 < MaxKeys /\ s4' = s4 + 1 /\ UNCHANGED <<s1, s2, s5, s6, s7>>
      /\ s3' = [s3 EXCEPT ![c] = [at |-> "exec", key |-> s4 + 1, dirty |-> FALSE]]
  BY DEF Key!WatchKey, Key!Clocks
<1>2. s4 + 1 \in 0..MaxKeys
  BY <1>0, <1>1
<1>3. /\ s3' \in [KeyCallers -> Key!KeyCallShape] /\ s3'[c].at = "exec" /\ s3'[c].key = s4 + 1
      /\ \A d \in KeyCallers \ {c} : s3'[d] = s3[d]
  <2> DEFINE r == [at |-> "exec", key |-> s4 + 1, dirty |-> FALSE]
  <2>1. r \in Key!KeyCallShape
    BY <1>2, NoKeyCallShape
  <2>2. r.at = "exec" /\ r.key = s4 + 1
    OBVIOUS
  <2>3. s3' = [s3 EXCEPT ![c] = r]
    BY <1>1
  <2> HIDE DEF r
  <2> QED
    BY <1>0, <2>1, <2>2, <2>3, KeyMoves
<1>4. \A d \in KeyCallers : s3[d].key \in Nat /\ s3[d].key <= s4 /\ s3[d].key # s4 + 1
  BY <1>0, KeyFields
<1>5. Key!KeyTypeOK' /\ Key!EntryIsDrawn'
  <2>1. \A d \in KeyCallers : s3'[d].key \in 0..s4'
    BY <1>0, <1>1, <1>3, <1>4
  <2>2. Key!EntryIsDrawn'
    BY <1>0, <1>1 DEF Key!KeyIInv, Key!EntryIsDrawn
  <2> QED
    BY <1>1, <1>2, <2>1, <2>2 DEF Key!KeyIInv, Key!KeyTypeOK, Key!Keys_
<1>6. ASSUME NEW d \in KeyCallers PROVE Key!KeyIsHeld(d)'
  <2>0. Key!KeyIsHeld(d)
    BY DEF Key!KeyIInv
  <2>1. CASE d = c
    <3>1. s1.key # s4 + 1 /\ s4 + 1 # 0
      BY <1>0, KeyFields
    <3> QED
      BY <1>1, <1>3, <1>4, <2>1, <3>1 DEF Key!KeyIsHeld
  <2>2. CASE d # c
    BY <1>1, <1>3, <1>4, <2>0, <2>2 DEF Key!KeyIsHeld
  <2> QED
    BY <2>1, <2>2
<1>7. Key!HeldKeyResolves'
  <2> SUFFICES ASSUME s1 # Key!NoEntry, ~s7, ~Key!Clearing', ~Key!Renewing(s1.key)'
               PROVE  s2[s1.key] >= s1.ttl
    BY <1>1 DEF Key!HeldKeyResolves, Key!Renewing
  <2>1. ~Key!Clearing /\ ~Key!Renewing(s1.key)
    BY <1>1, <1>3 DEF Key!Clearing, Key!Renewing
  <2> QED
    BY <2>1 DEF Key!KeyIInv, Key!HeldKeyResolves
<1> QED
  BY <1>3, <1>5, <1>6, <1>7 DEF Key!KeyIInv

\* The steps that write an entry: c goes on with the key it has, and what it writes is the
\* entry of that key, or the tenant's.
LEMMA KeyWrites ==
  ASSUME Key!KeyAssumption, Key!KeyIInv, NEW c \in KeyCallers, UNCHANGED <<s4>>,
         s3' \in [KeyCallers -> Key!KeyCallShape], s5' \in 0..MaxTicks, s6' \in 0..MaxLost,
         s7' \in BOOLEAN, ~s7' => ~s7,
         \A d \in KeyCallers \ {c} : s3'[d].at = s3[d].at /\ s3'[d].key = s3[d].key,
         s3'[c].key = s3[c].key, s3[c].key # 0,
         s3'[c].at \in {"expire_key", "done", "del_id", "cleared"},
         s1' = Key!NoEntry \/ (s1'.key \in {s1.key, s3[c].key} /\ s1'.key # 0 /\ s1'.ttl \in 1..KeyTTL
                               /\ s1' \in [key : 0..MaxKeys, ttl : 0..KeyTTL]),
         s1'.key = s3[c].key => s1.key = s3[c].key \/ s3[c].at = "exec",
         NEW n \in 0..KeyTTL, s2' = [s2 EXCEPT ![s3[c].key] = n],
         n = 0 \/ s3[c].at = "exec" \/ s2[s3[c].key] # 0,
         s3'[c].at \in {"del_id", "cleared"} /\ ~s7' => n = 0,
         s3'[c].at = "cleared" => s7' \/ s1' = Key!NoEntry,
         Key!HeldKeyResolves'
  PROVE  Key!KeyIInv'
<1>0. /\ s3[c].key \in Key!Keys_ /\ s3[c].key \in 1..s4 /\ s2 \in [Key!Keys_ -> 0..KeyTTL]
      /\ s4 \in 0..MaxKeys /\ s1.key \in 0..s4 /\ MaxKeys \in Nat
  <2>1. s3[c].key \in 0..s4
    BY KeyFields
  <2> QED
    BY <2>1, KeyFields
<1>1. s2' \in [Key!Keys_ -> 0..KeyTTL] /\ s2'[s3[c].key] = n /\ \A k \in Key!Keys_ \ {s3[c].key} : s2'[k] = s2[k]
  BY <1>0
<1>2. Key!NoEntry.key = 0 /\ Key!NoEntry \in [key : 0..MaxKeys, ttl : 0..KeyTTL]
  BY DEF Key!NoEntry, Key!KeyAssumption
<1>3. Key!KeyTypeOK' /\ Key!EntryIsDrawn'
  <2>1. s1' \in [key : 0..MaxKeys, ttl : 0..KeyTTL]
    BY <1>2
  <2>2. \A d \in KeyCallers : s3'[d].key \in 0..s4'
    BY KeyFields
  <2>3. Key!EntryIsDrawn'
    BY <1>0 DEF Key!EntryIsDrawn
  <2> QED
    BY <1>0, <1>1, <2>1, <2>2, <2>3 DEF Key!KeyTypeOK, Key!Keys_
<1>4. ASSUME NEW d \in KeyCallers PROVE Key!KeyIsHeld(d)'
  <2>0. Key!KeyIsHeld(d) /\ Key!KeyIsHeld(c)
    BY DEF Key!KeyIInv
  <2>1. CASE d = c
    BY <1>1, <1>2, <2>1 DEF Key!KeyIsHeld
  <2>2. CASE d # c
    <3>1. s3'[d].at = "exec" =>
            s1'.key # s3'[d].key /\ \A e \in KeyCallers \ {d} : s3'[e].key # s3'[d].key
      BY <1>2, <2>0, <2>2 DEF Key!KeyIsHeld
    <3>2. s3'[d].at \in {"del_id", "cleared"} /\ ~s7' => s2'[s3'[d].key] = 0
      <4> SUFFICES ASSUME s3[d].at \in {"del_id", "cleared"}, ~s7' PROVE s2'[s3[d].key] = 0
        BY <2>2
      <4>1. s2[s3[d].key] = 0 /\ s3[d].key \in Key!Keys_
        BY <2>0, KeyFields DEF Key!KeyIsHeld
      <4>2. CASE s3[d].key = s3[c].key
        <5>1. s3[c].at # "exec"
          BY <2>0, <2>2, <4>2 DEF Key!KeyIsHeld
        <5> QED
          BY <1>1, <4>1, <4>2, <5>1
      <4>3. CASE s3[d].key # s3[c].key
        BY <1>1, <4>1, <4>3
      <4> QED
        BY <4>2, <4>3
    <3>3. s3'[d].at = "cleared" /\ ~s7' => s1'.key # s3'[d].key
      <4> SUFFICES ASSUME s3[d].at = "cleared", ~s7', s1'.key = s3[d].key PROVE FALSE
        BY <2>2
      <4>1. s1.key # s3[d].key /\ s3[d].key # 0
        BY <2>0 DEF Key!KeyIsHeld
      <4>2. s1'.key = s3[c].key /\ s3[c].at = "exec"
        BY <1>2, <4>1
      <4> QED
        BY <2>0, <2>2, <4>2 DEF Key!KeyIsHeld
    <3>4. s3'[d].at \in {"expire_id", "expire_key", "exec", "del_key", "del_id", "cleared"} => s3'[d].key # 0
      BY <2>0, <2>2 DEF Key!KeyIsHeld
    <3> QED
      BY <3>1, <3>2, <3>3, <3>4 DEF Key!KeyIsHeld
  <2> QED
    BY <2>1, <2>2
<1> QED
  BY <1>3, <1>4 DEF Key!KeyIInv

\* EXEC of the two SETNX.
LEMMA KeyExec ==
  ASSUME Key!KeyAssumption, Key!KeyIInv, NEW c \in KeyCallers, Key!ExecKey(c)
  PROVE  Key!KeyIInv'
<1>0. s3 \in [KeyCallers -> Key!KeyCallShape] /\ Key!KeyIsHeld(c) /\ s4' = s4 /\ s7' = s7 /\ s7 \in BOOLEAN
  BY DEF Key!KeyIInv, Key!KeyTypeOK, Key!ExecKey
<1>1. CASE Key!Goes2(c, "exec", "error", FALSE) /\ UNCHANGED <<s1, s2>>
  <2>1. /\ s3[c].at = "exec" /\ s3' \in [KeyCallers -> Key!KeyCallShape] /\ s3'[c].at = "error"
        /\ s3'[c].key = s3[c].key
        /\ \A d \in KeyCallers \ {c} : s3'[d].at = s3[d].at /\ s3'[d].key = s3[d].key
    BY <1>0, <1>1, KeyMoves
  <2>2. s5' \in 0..MaxTicks /\ s6' \in 0..MaxLost
    BY <1>1, <2>1, KeyClocks DEF Key!ExecKey, Key!Goes2
  <2> QED
    BY <1>0, <1>1, <2>1, <2>2, KeyQuiet
<1>2. CASE /\ Key!Goes2(c, "exec", "done", s1 = Key!NoEntry)
           /\ s1' = IF s1 = Key!NoEntry THEN [key |-> s3[c].key, ttl |-> KeyTTL] ELSE s1
           /\ s2' = [s2 EXCEPT ![s3[c].key] = KeyTTL]
           /\ UNCHANGED Key!Clocks
  <2>0. (s1 = Key!NoEntry) \in BOOLEAN
    BY Zenon
  <2>1. /\ s3[c].at = "exec" /\ s3' \in [KeyCallers -> Key!KeyCallShape] /\ s3'[c].at = "done"
        /\ s3'[c].key = s3[c].key
        /\ \A d \in KeyCallers \ {c} : s3'[d].at = s3[d].at /\ s3'[d].key = s3[d].key
    BY <1>0, <1>2, <2>0, KeyMoves
  <2>2. s3[c].key # 0 /\ s1.key # s3[c].key /\ s3[c].key \in Key!Keys_
    BY <1>0, <2>1, KeyFields DEF Key!KeyIsHeld
  <2>3. s5' \in 0..MaxTicks /\ s6' \in 0..MaxLost
    BY <1>2, KeyClocks
  <2>4. /\ KeyTTL \in 1..KeyTTL /\ KeyTTL \in 0..KeyTTL /\ s2 \in [Key!Keys_ -> 0..KeyTTL]
        /\ s1 # Key!NoEntry => s1.key \in Key!Keys_ /\ s1.ttl \in 1..KeyTTL
        /\ s1 \in [key : 0..MaxKeys, ttl : 0..KeyTTL]
    BY KeyFields
  <2>5. /\ s1'.key \in {s1.key, s3[c].key} /\ s1'.key # 0 /\ s1'.ttl \in 1..KeyTTL
        /\ s1' \in [key : 0..MaxKeys, ttl : 0..KeyTTL]
    BY <1>2, <2>2, <2>4 DEF Key!Keys_
  <2>6. Key!HeldKeyResolves'
    <3>1. CASE s1 = Key!NoEntry
      <4>1. s1'.key = s3[c].key /\ s1'.ttl = KeyTTL /\ s2'[s3[c].key] = KeyTTL
        BY <1>2, <2>2, <2>4, <3>1
      <4> QED
        BY <4>1, KeyFields DEF Key!HeldKeyResolves
    <3>2. CASE s1 # Key!NoEntry
      <4> SUFFICES ASSUME ~s7, ~Key!Clearing', ~Key!Renewing(s1.key)'
                   PROVE  s2'[s1.key] >= s1.ttl
        BY <1>0, <1>2, <3>2 DEF Key!HeldKeyResolves, Key!Renewing
      <4>1. ~Key!Clearing /\ ~Key!Renewing(s1.key)
        BY <1>2, <2>1, <3>2 DEF Key!Clearing, Key!Renewing
      <4>2. s2'[s1.key] = s2[s1.key]
        BY <1>2, <2>2, <2>4, <3>2
      <4> QED
        BY <3>2, <4>1, <4>2 DEF Key!KeyIInv, Key!HeldKeyResolves
    <3> QED
      BY <3>1, <3>2
  <2> QED
    BY <1>0, <1>2, <2>1, <2>2, <2>3, <2>4, <2>5, <2>6, KeyWrites
<1> QED
  BY <1>1, <1>2 DEF Key!ExecKey

\* The two Expire.
LEMMA KeyExpire ==
  ASSUME Key!KeyAssumption, Key!KeyIInv, NEW c \in KeyCallers, Key!ExpireId(c) \/ Key!ExpireKey(c)
  PROVE  Key!KeyIInv'
<1>0. s3 \in [KeyCallers -> Key!KeyCallShape] /\ Key!KeyIsHeld(c) /\ s4' = s4 /\ s7 \in BOOLEAN
  BY DEF Key!KeyIInv, Key!KeyTypeOK, Key!ExpireId, Key!ExpireKey
<1>1. /\ KeyTTL \in 1..KeyTTL /\ KeyTTL \in 0..KeyTTL /\ 0 \in 0..KeyTTL /\ s2 \in [Key!Keys_ -> 0..KeyTTL]
      /\ s1 # Key!NoEntry => s1.key \in Key!Keys_ /\ s1.ttl \in 1..KeyTTL
      /\ s1 \in [key : 0..MaxKeys, ttl : 0..KeyTTL] /\ 0 \notin Key!Keys_ /\ Key!NoEntry.key = 0
  BY KeyFields DEF Key!Keys_
<1>2. CASE Key!ExpireId(c)
  <2>1. CASE Key!CmdFails /\ Key!Goes2(c, "expire_id", "expire_key", FALSE) /\ UNCHANGED <<s1, s2, s7>>
    <3>1. /\ s3[c].at = "expire_id" /\ s3' \in [KeyCallers -> Key!KeyCallShape] /\ s3'[c].at = "expire_key"
          /\ s3'[c].key = s3[c].key
          /\ \A d \in KeyCallers \ {c} : s3'[d].at = s3[d].at /\ s3'[d].key = s3[d].key
      BY <1>0, <2>1, KeyMoves
    <3>2. s3[c].key # 0
      BY <1>0, <3>1 DEF Key!KeyIsHeld
    <3> QED
      BY <1>0, <2>1, <3>1, <3>2, KeyClocks, KeyQuiet
  <2>2. CASE /\ Key!Goes2(c, "expire_id", "expire_key", s1 # Key!NoEntry) /\ UNCHANGED <<s2, Key!Clocks>>
             /\ s1' = IF s1 = Key!NoEntry THEN s1 ELSE [s1 EXCEPT !.ttl = KeyTTL]
             /\ s7' = (s7 \/ s1.key \notin {0, s3[c].key})
    <3>0. (s1 # Key!NoEntry) \in BOOLEAN /\ s7' \in BOOLEAN /\ (~s7' => ~s7 /\ s1.key \in {0, s3[c].key})
      BY <2>2, Zenon
    <3>1. /\ s3[c].at = "expire_id" /\ s3' \in [KeyCallers -> Key!KeyCallShape] /\ s3'[c].at = "expire_key"
          /\ s3'[c].key = s3[c].key
          /\ \A d \in KeyCallers \ {c} : s3'[d].at = s3[d].at /\ s3'[d].key = s3[d].key
      BY <1>0, <2>2, <3>0, KeyMoves
    <3>2. s3[c].key # 0 /\ s3[c].key \in Key!Keys_
      BY <1>0, <3>1, KeyFields DEF Key!KeyIsHeld
    <3>3. s1' = Key!NoEntry \/ (/\ s1'.key = s1.key /\ s1'.key # 0 /\ s1'.ttl \in 1..KeyTTL
                                /\ s1' \in [key : 0..MaxKeys, ttl : 0..KeyTTL] /\ s1 # Key!NoEntry)
      BY <1>1, <2>2
    <3>4. s1'.key = s1.key
      BY <1>1, <2>2
    <3>5. s2' = [s2 EXCEPT ![s3[c].key] = s2[s3[c].key]] /\ s2[s3[c].key] \in 0..KeyTTL
      BY <1>1, <2>2, <3>2
    <3>6. Key!HeldKeyResolves'
      <4> SUFFICES ASSUME s1' # Key!NoEntry, ~s7', ~Key!Renewing(s1.key)' PROVE FALSE
        BY DEF Key!HeldKeyResolves
      <4>1. s1'.key = s3[c].key
        BY <3>0, <3>3
      <4> QED
        BY <3>1, <4>1 DEF Key!Renewing
    <3> QED
      BY <1>0, <2>2, <3>0, <3>1, <3>2, <3>3, <3>4, <3>5, <3>6, KeyClocks, KeyWrites
  <2> QED
    BY <1>2, <2>1, <2>2 DEF Key!ExpireId
<1>3. CASE Key!ExpireKey(c)
  <2>0. /\ s3[c].at = "expire_key" /\ s3' \in [KeyCallers -> Key!KeyCallShape] /\ s3'[c].at = "done"
        /\ s3'[c].key = s3[c].key /\ s1' = s1
        /\ \A d \in KeyCallers \ {c} : s3'[d].at = s3[d].at /\ s3'[d].key = s3[d].key
    BY <1>0, <1>3, KeyMoves DEF Key!ExpireKey
  <2>1. CASE Key!CmdFails /\ s7' = TRUE /\ UNCHANGED s2
    BY <1>0, <2>0, <2>1, KeyClocks, KeyQuiet
  <2>2. CASE /\ s2' = [s2 EXCEPT ![s3[c].key] = IF @ = 0 THEN 0 ELSE KeyTTL]
             /\ s7' = (s7 \/ s2[s3[c].key] = 0) /\ UNCHANGED Key!Clocks
    <3> DEFINE n == IF s2[s3[c].key] = 0 THEN 0 ELSE KeyTTL
    <3>0. s7' \in BOOLEAN /\ (~s7' => ~s7 /\ s2[s3[c].key] # 0)
      BY <2>2, Zenon
    <3>1. s3[c].key # 0 /\ s3[c].key \in Key!Keys_
      BY <1>0, <2>0, KeyFields DEF Key!KeyIsHeld
    <3>2. n \in 0..KeyTTL /\ s2' = [s2 EXCEPT ![s3[c].key] = n] /\ (n = 0 \/ s2[s3[c].key] # 0)
      BY <1>1, <2>2
    <3>3. s1 = Key!NoEntry \/ (s1.key # 0 /\ s1.ttl \in 1..KeyTTL)
      BY <1>1
    <3>4. Key!HeldKeyResolves'
      <4> SUFFICES ASSUME s1 # Key!NoEntry, ~s7', ~Key!Clearing', ~Key!Renewing(s1.key)'
                   PROVE  s2'[s1.key] >= s1.ttl
        BY <2>0 DEF Key!HeldKeyResolves, Key!Renewing
      <4>1. CASE s1.key = s3[c].key
        <5>1. s2'[s1.key] = KeyTTL /\ s1.ttl \in 1..KeyTTL
          BY <1>1, <2>2, <3>0, <3>1, <4>1
        <5> QED
          BY <5>1, KeyFields
      <4>2. CASE s1.key # s3[c].key
        <5>1. ~Key!Clearing /\ ~Key!Renewing(s1.key)
          BY <2>0, <4>2 DEF Key!Clearing, Key!Renewing
        <5>2. s2'[s1.key] = s2[s1.key]
          BY <1>1, <2>2, <4>2
        <5> QED
          BY <3>0, <5>1, <5>2 DEF Key!KeyIInv, Key!HeldKeyResolves
      <4> QED
        BY <4>1, <4>2
    <3> HIDE DEF n
    <3> QED
      BY <1>0, <1>1, <2>0, <2>2, <3>0, <3>1, <3>2, <3>3, <3>4, KeyClocks, KeyWrites
  <2> QED
    BY <1>3, <2>1, <2>2 DEF Key!ExpireKey
<1> QED
  BY <1>2, <1>3

\* The two Del.
LEMMA KeyClear ==
  ASSUME Key!KeyAssumption, Key!KeyIInv, NEW c \in KeyCallers, Key!ClearKey(c) \/ Key!ClearId(c)
  PROVE  Key!KeyIInv'
<1>0. s3 \in [KeyCallers -> Key!KeyCallShape] /\ Key!KeyIsHeld(c) /\ s4' = s4 /\ s7 \in BOOLEAN
  BY DEF Key!KeyIInv, Key!KeyTypeOK, Key!ClearKey, Key!ClearId
<1>1. /\ 0 \in 0..KeyTTL /\ s2 \in [Key!Keys_ -> 0..KeyTTL]
      /\ s1 # Key!NoEntry => s1.key \in Key!Keys_ /\ s1.ttl \in 1..KeyTTL
      /\ s1 \in [key : 0..MaxKeys, ttl : 0..KeyTTL] /\ 0 \notin Key!Keys_ /\ Key!NoEntry.key = 0
  BY KeyFields DEF Key!Keys_
<1>2. CASE Key!ClearKey(c)
  <2>0. /\ s3[c].at = "del_key" /\ s3' \in [KeyCallers -> Key!KeyCallShape] /\ s3'[c].at = "del_id"
        /\ s3'[c].key = s3[c].key /\ s1' = s1
        /\ \A d \in KeyCallers \ {c} : s3'[d].at = s3[d].at /\ s3'[d].key = s3[d].key
    BY <1>0, <1>2, KeyMoves DEF Key!ClearKey
  <2>1. s3[c].key # 0 /\ s3[c].key \in Key!Keys_
    BY <1>0, <2>0, KeyFields DEF Key!KeyIsHeld
  <2>2. CASE Key!CmdFails /\ s7' = TRUE /\ UNCHANGED s2
    BY <1>0, <2>0, <2>1, <2>2, KeyClocks, KeyQuiet
  <2>3. CASE s2' = [s2 EXCEPT ![s3[c].key] = 0] /\ UNCHANGED <<Key!Clocks, s7>>
    <3>1. Key!HeldKeyResolves'
      BY <2>0 DEF Key!HeldKeyResolves, Key!Clearing
    <3>2. s1 = Key!NoEntry \/ (s1.key # 0 /\ s1.ttl \in 1..KeyTTL)
      BY <1>1
    <3> QED
      BY <1>0, <1>1, <2>0, <2>1, <2>3, <3>1, <3>2, KeyClocks, KeyWrites
  <2> QED
    BY <1>2, <2>2, <2>3 DEF Key!ClearKey
<1>3. CASE Key!ClearId(c)
  <2>1. CASE Key!Goes2(c, "del_id", "cleared", FALSE) /\ Key!CmdFails /\ s7' = TRUE /\ UNCHANGED <<s1, s2>>
    <3>0. /\ s3[c].at = "del_id" /\ s3' \in [KeyCallers -> Key!KeyCallShape] /\ s3'[c].at = "cleared"
          /\ s3'[c].key = s3[c].key
          /\ \A d \in KeyCallers \ {c} : s3'[d].at = s3[d].at /\ s3'[d].key = s3[d].key
      BY <1>0, <2>1, KeyMoves
    <3>1. s3[c].key # 0
      BY <1>0, <3>0 DEF Key!KeyIsHeld
    <3> QED
      BY <1>0, <2>1, <3>0, <3>1, KeyClocks, KeyQuiet
  <2>2. CASE /\ Key!Goes2(c, "del_id", "cleared", s1 # Key!NoEntry) /\ s1' = Key!NoEntry
             /\ UNCHANGED <<s2, s7, Key!Clocks>>
    <3>0. (s1 # Key!NoEntry) \in BOOLEAN
      BY Zenon
    <3>1. /\ s3[c].at = "del_id" /\ s3' \in [KeyCallers -> Key!KeyCallShape] /\ s3'[c].at = "cleared"
          /\ s3'[c].key = s3[c].key
          /\ \A d \in KeyCallers \ {c} : s3'[d].at = s3[d].at /\ s3'[d].key = s3[d].key
      BY <1>0, <2>2, <3>0, KeyMoves
    <3>2. s3[c].key # 0 /\ s3[c].key \in Key!Keys_ /\ (~s7 => s2[s3[c].key] = 0)
      BY <1>0, <3>1, KeyFields DEF Key!KeyIsHeld
    <3>3. s2' = [s2 EXCEPT ![s3[c].key] = s2[s3[c].key]] /\ s2[s3[c].key] \in 0..KeyTTL
      BY <1>1, <2>2, <3>2
    <3>4. Key!HeldKeyResolves'
      BY <2>2 DEF Key!HeldKeyResolves
    <3> QED
      BY <1>0, <1>1, <2>2, <3>1, <3>2, <3>3, <3>4, KeyClocks, KeyWrites
  <2> QED
    BY <1>3, <2>1, <2>2 DEF Key!ClearId
<1> QED
  BY <1>2, <1>3

\* Time passes for both entries alike.
LEMMA KeyTick ==
  ASSUME Key!KeyAssumption, Key!KeyIInv, Key!TickKeys
  PROVE  Key!KeyIInv'
<1>0. /\ UNCHANGED <<s3, s4, s6, s7>>
      /\ s1' = IF s1.ttl <= 1 THEN Key!NoEntry ELSE [s1 EXCEPT !.ttl = @ - 1]
      /\ s2' = [k \in Key!Keys_ |-> IF s2[k] = 0 THEN 0 ELSE s2[k] - 1]
  BY DEF Key!TickKeys
<1>1. /\ KeyTTL \in Nat /\ MaxKeys \in Nat /\ s2 \in [Key!Keys_ -> 0..KeyTTL] /\ s1.ttl \in Nat
      /\ s1 # Key!NoEntry => s1.key \in Key!Keys_ /\ s1.ttl \in 1..KeyTTL
      /\ s1 \in [key : 0..MaxKeys, ttl : 0..KeyTTL] /\ Key!NoEntry.key = 0 /\ Key!NoEntry.ttl = 0
  BY KeyFields
<1>2. s5' \in 0..MaxTicks
  BY DEF Key!TickKeys, Key!KeyIInv, Key!KeyTypeOK, Key!KeyAssumption
<1>3. s2' \in [Key!Keys_ -> 0..KeyTTL] /\ \A k \in Key!Keys_ : s2[k] = 0 => s2'[k] = 0
  BY <1>0, <1>1
<1>4. s1' = Key!NoEntry \/ (/\ s1 # Key!NoEntry /\ s1'.key = s1.key /\ s1'.ttl = s1.ttl - 1
                            /\ s1'.ttl \in 1..KeyTTL /\ s1' \in [key : 0..MaxKeys, ttl : 0..KeyTTL])
  BY <1>0, <1>1
<1>5. Key!KeyTypeOK' /\ Key!EntryIsDrawn'
  <2>1. Key!NoEntry \in [key : 0..MaxKeys, ttl : 0..KeyTTL]
    BY <1>1 DEF Key!NoEntry
  <2>2. s1' \in [key : 0..MaxKeys, ttl : 0..KeyTTL]
    BY <1>4, <2>1
  <2>3. Key!EntryIsDrawn'
    BY <1>0, <1>4 DEF Key!KeyIInv, Key!EntryIsDrawn
  <2> QED
    BY <1>0, <1>2, <1>3, <2>2, <2>3 DEF Key!KeyIInv, Key!KeyTypeOK, Key!Keys_
<1>6. ASSUME NEW c \in KeyCallers PROVE Key!KeyIsHeld(c)'
  <2>0. Key!KeyIsHeld(c) /\ (s3[c].key # 0 => s3[c].key \in Key!Keys_)
    BY KeyFields DEF Key!KeyIInv
  <2>1. s1'.key \in {0, s1.key}
    BY <1>1, <1>4
  <2> QED
    BY <1>0, <1>3, <2>0, <2>1 DEF Key!KeyIsHeld
<1>7. Key!HeldKeyResolves'
  <2> SUFFICES ASSUME s1' # Key!NoEntry, ~s7, ~Key!Clearing, ~Key!Renewing(s1.key)
               PROVE  s2'[s1'.key] >= s1'.ttl
    BY <1>0, <1>4 DEF Key!HeldKeyResolves, Key!Clearing, Key!Renewing
  <2>1. s2[s1.key] >= s1.ttl /\ s1.ttl \in 1..KeyTTL /\ s1.key \in Key!Keys_ /\ s2[s1.key] \in 0..KeyTTL
    BY <1>1, <1>4 DEF Key!KeyIInv, Key!HeldKeyResolves
  <2>2. s2'[s1.key] = s2[s1.key] - 1
    BY <1>0, <1>1, <2>1
  <2> QED
    BY <1>1, <1>4, <2>1, <2>2
<1> QED
  BY <1>0, <1>5, <1>6, <1>7 DEF Key!KeyIInv

\* No key was drawn.
LEMMA KeyInitial == Key!KeyAssumption /\ Key!KeyInit => Key!KeyIInv
<1> SUFFICES ASSUME Key!KeyAssumption, Key!KeyInit PROVE Key!KeyIInv
  OBVIOUS
<1>1. /\ s1 = Key!NoEntry /\ s2 = [k \in Key!Keys_ |-> 0] /\ s3 = [c \in KeyCallers |-> Key!NoKeyCall]
      /\ s4 = 0 /\ s5 = 0 /\ s6 = 0 /\ s7 = FALSE
  BY DEF Key!KeyInit
<1>2. Key!NoKeyCall \in Key!KeyCallShape /\ Key!NoKeyCall.at = "idle" /\ Key!NoKeyCall.key = 0
  <2>1. 0 \in 0..MaxKeys
    BY DEF Key!KeyAssumption
  <2> QED
    BY <2>1, NoKeyCallShape
<1>3. Key!KeyTypeOK
  <2>1. s7 \in BOOLEAN
    BY <1>1, Zenon
  <2>2. s1 \in [key : 0..MaxKeys, ttl : 0..KeyTTL]
    BY <1>1 DEF Key!KeyAssumption, Key!NoEntry
  <2>3. \A c \in KeyCallers : s3[c].key = 0
    BY <1>1, <1>2
  <2> QED
    BY <1>1, <2>1, <2>2, <2>3 DEF Key!KeyTypeOK, Key!KeyAssumption
<1>4. s3 \in [KeyCallers -> Key!KeyCallShape] /\ \A c \in KeyCallers : s3[c] = Key!NoKeyCall
  BY <1>1, <1>2
<1>5. \A c \in KeyCallers : Key!KeyIsHeld(c)
  BY <1>2, <1>4 DEF Key!KeyIsHeld
<1>6. Key!EntryIsDrawn /\ Key!HeldKeyResolves
  BY <1>1 DEF Key!EntryIsDrawn, Key!HeldKeyResolves
<1> QED
  BY <1>3, <1>4, <1>5, <1>6 DEF Key!KeyIInv

\* A step that leaves the variables of the unit alone.
LEMMA KeyStutter ==
  ASSUME Key!KeyIInv, UNCHANGED unitVars
  PROVE  Key!KeyIInv'
BY DEF unitVars, Key!KeyIInv, Key!KeyTypeOK, Key!EntryIsDrawn, Key!KeyIsHeld, Key!HeldKeyResolves,
       Key!Clearing, Key!Renewing

\* Every step of the keys keeps the invariant.
LEMMA KeySteps ==
  ASSUME Key!KeyAssumption, Key!KeyIInv, Key!KeyNext
  PROVE  Key!KeyIInv'
<1>1. CASE Key!TickKeys
  BY <1>1, KeyTick
<1>2. ASSUME NEW c \in KeyCallers, Key!KeyStep(c) PROVE Key!KeyIInv'
  BY <1>2, KeyQuietSteps, KeyWatch, KeyExec, KeyExpire, KeyClear DEF Key!KeyStep
<1> QED
  BY <1>1, <1>2 DEF Key!KeyNext

------------------------------------------------------------------------------
(* DebugServer *)

\* What the invariant says of a runtime is the same of w and of r, but for a handshake
\* that was done meanwhile or a declaration that is not complete.
Alike(w, r) ==
  /\ w \in Debug!RuntimeShape
  /\ w.open = r.open /\ w.initialized = r.initialized /\ w.installed = r.installed
  /\ r.handshake => w.handshake
  /\ r.initialized => w.config = r.config

\* What the handlers make of a runtime.
LEMMA RuntimeChanges ==
  ASSUME NEW r \in Debug!RuntimeShape
  PROVE  /\ Alike([r EXCEPT !.closing = TRUE], r)
         /\ Alike([r EXCEPT !.handshake = TRUE], r)
         /\ Alike([r EXCEPT !.handshakeFailed = TRUE], r)
         /\ Alike([r EXCEPT !.closed = TRUE, !.closing = TRUE], r)
         /\ Alike([r EXCEPT !.alive = FALSE, !.closing = TRUE], r)
         /\ r.assetsBytes + 1 \in 0..MaxAssets => Alike([r EXCEPT !.assetsBytes = r.assetsBytes + 1], r)
         /\ \A t, g \in SUBSET (Parts \cup {"manifest"}) :
              ~r.initialized => Alike([r EXCEPT !.transferred = t, !.config = g], r)
<1> USE DEF Debug!RuntimeShape
<1>1. Alike([r EXCEPT !.closing = TRUE], r)
  <2>1. [r EXCEPT !.closing = TRUE] \in Debug!RuntimeShape
    BY Zenon
  <2> QED
    BY <2>1, Zenon DEF Alike
<1>2. Alike([r EXCEPT !.handshake = TRUE], r)
  <2>1. [r EXCEPT !.handshake = TRUE] \in Debug!RuntimeShape
    BY Zenon
  <2> QED
    BY <2>1, Zenon DEF Alike
<1>3. Alike([r EXCEPT !.handshakeFailed = TRUE], r)
  <2>1. [r EXCEPT !.handshakeFailed = TRUE] \in Debug!RuntimeShape
    BY Zenon
  <2> QED
    BY <2>1, Zenon DEF Alike
<1>4. Alike([r EXCEPT !.closed = TRUE, !.closing = TRUE], r)
  <2>1. [r EXCEPT !.closed = TRUE, !.closing = TRUE] \in Debug!RuntimeShape
    BY Zenon
  <2> QED
    BY <2>1, Zenon DEF Alike
<1>5. Alike([r EXCEPT !.alive = FALSE, !.closing = TRUE], r)
  <2>1. [r EXCEPT !.alive = FALSE, !.closing = TRUE] \in Debug!RuntimeShape
    BY Zenon
  <2> QED
    BY <2>1, Zenon DEF Alike
<1>6. ASSUME r.assetsBytes + 1 \in 0..MaxAssets
      PROVE  Alike([r EXCEPT !.assetsBytes = r.assetsBytes + 1], r)
  <2>1. [r EXCEPT !.assetsBytes = r.assetsBytes + 1] \in Debug!RuntimeShape
    BY <1>6, Zenon
  <2> QED
    BY <2>1, Zenon DEF Alike
<1>7. ASSUME NEW t \in SUBSET (Parts \cup {"manifest"}), NEW g \in SUBSET (Parts \cup {"manifest"}),
             ~r.initialized
      PROVE  Alike([r EXCEPT !.transferred = t, !.config = g], r)
  <2>1. [r EXCEPT !.transferred = t, !.config = g] \in Debug!RuntimeShape
    BY Zenon
  <2> QED
    BY <1>7, <2>1, Zenon DEF Alike
<1> QED
  BY <1>1, <1>2, <1>3, <1>4, <1>5, <1>6, <1>7, Zenon

\* The same of the changes that the invariant sees.
LEMMA RuntimeMilestones ==
  ASSUME NEW r \in Debug!RuntimeShape
  PROVE  /\ LET w == [r EXCEPT !.open = TRUE]
            IN w \in Debug!RuntimeShape /\ w.open /\ w.initialized = r.initialized
               /\ w.installed = r.installed /\ w.handshake = r.handshake /\ w.config = r.config
         /\ LET w == [r EXCEPT !.initialized = TRUE]
            IN w \in Debug!RuntimeShape /\ w.open = r.open /\ w.initialized
               /\ w.installed = r.installed /\ w.handshake = r.handshake /\ w.config = r.config
         /\ LET w == [r EXCEPT !.installed = TRUE]
            IN w \in Debug!RuntimeShape /\ w.open = r.open /\ w.initialized = r.initialized
               /\ w.installed /\ w.handshake = r.handshake /\ w.config = r.config
         /\ LET w == [r EXCEPT !.open = FALSE, !.alive = FALSE, !.closed = TRUE]
            IN w \in Debug!RuntimeShape /\ ~w.open /\ w.initialized = r.initialized
               /\ w.installed = r.installed /\ w.handshake = r.handshake /\ w.config = r.config
<1> USE DEF Debug!RuntimeShape
<1>1. LET w == [r EXCEPT !.open = TRUE]
      IN w \in Debug!RuntimeShape /\ w.open /\ w.initialized = r.initialized
         /\ w.installed = r.installed /\ w.handshake = r.handshake /\ w.config = r.config
  BY Zenon
<1>2. LET w == [r EXCEPT !.initialized = TRUE]
      IN w \in Debug!RuntimeShape /\ w.open = r.open /\ w.initialized
         /\ w.installed = r.installed /\ w.handshake = r.handshake /\ w.config = r.config
  BY Zenon
<1>3. LET w == [r EXCEPT !.installed = TRUE]
      IN w \in Debug!RuntimeShape /\ w.open = r.open /\ w.initialized = r.initialized
         /\ w.installed /\ w.handshake = r.handshake /\ w.config = r.config
  BY Zenon
<1>4. LET w == [r EXCEPT !.open = FALSE, !.alive = FALSE, !.closed = TRUE]
      IN w \in Debug!RuntimeShape /\ ~w.open /\ w.initialized = r.initialized
         /\ w.installed = r.installed /\ w.handshake = r.handshake /\ w.config = r.config
  BY Zenon
<1> QED
  BY <1>1, <1>2, <1>3, <1>4, Zenon

\* Finite sets and their sizes are the same in the instance, and sets of connections are
\* finite.
LEMMA DebugFiniteSets ==
  ASSUME NEW S
  PROVE  /\ Debug!IsFiniteSet(S) <=> IsFiniteSet(S)
         /\ Debug!Cardinality(S) = Cardinality(S)
<1>1. Debug!IsFiniteSet(S) <=> IsFiniteSet(S)
  BY Zenon DEF Debug!IsFiniteSet, IsFiniteSet
<1>2. Debug!Cardinality(S) = Cardinality(S)
  BY Zenon DEF Debug!Cardinality, Cardinality
<1> QED
  BY <1>1, <1>2

\* The size of a set of connections.
LEMMA ConnSets ==
  ASSUME Debug!DebugAssumption
  PROVE  /\ \A S \in SUBSET Conns : Debug!Cardinality(S) \in Nat
         /\ \A S, T \in SUBSET Conns : S \subseteq T => Debug!Cardinality(S) <= Debug!Cardinality(T)
         /\ \A S \in SUBSET Conns : \A c \in Conns \ S :
              Debug!Cardinality(S \cup {c}) = Debug!Cardinality(S) + 1
         /\ Debug!Cardinality({}) = 0
<1>0. \A S \in SUBSET Conns : IsFiniteSet(S)
  BY DebugFiniteSets, FS_Subset DEF Debug!DebugAssumption
<1>1. \A S \in SUBSET Conns : Cardinality(S) \in Nat
  BY <1>0, FS_CardinalityType
<1>2. \A S, T \in SUBSET Conns : S \subseteq T => Cardinality(S) <= Cardinality(T)
  BY <1>0, FS_Subset
<1>3. \A S \in SUBSET Conns : \A c \in Conns \ S : Cardinality(S \cup {c}) = Cardinality(S) + 1
  BY <1>0, FS_AddElement
<1> QED
  BY <1>1, <1>2, <1>3, DebugFiniteSets, FS_EmptySet

\* The number of end messages that can be counted.
LEMMA EndMessageSets ==
  ASSUME Debug!DebugAssumption
  PROVE  \A S \in SUBSET (Conns \X (1..MaxEnds)) :
           /\ Debug!Cardinality(S) \in Nat
           /\ Debug!Cardinality(S) <= Debug!Cardinality(Conns) * MaxEnds
           /\ \A m \in (Conns \X (1..MaxEnds)) \ S : Debug!Cardinality(S \cup {m}) = Debug!Cardinality(S) + 1
<1>1. IsFiniteSet(Conns) /\ MaxEnds \in Nat
  BY DebugFiniteSets DEF Debug!DebugAssumption
<1>2. IsFiniteSet(1..MaxEnds) /\ Cardinality(1..MaxEnds) = MaxEnds
  <2>1. IsFiniteSet(1..MaxEnds) /\ Cardinality(1..MaxEnds) = IF 1 > MaxEnds THEN 0 ELSE MaxEnds - 1 + 1
    BY <1>1, FS_Interval
  <2> QED
    BY <1>1, <2>1
<1>3. /\ IsFiniteSet(Conns \X (1..MaxEnds))
      /\ Cardinality(Conns \X (1..MaxEnds)) = Cardinality(Conns) * Cardinality(1..MaxEnds)
  BY <1>1, <1>2, FS_Product
<1> SUFFICES ASSUME NEW S \in SUBSET (Conns \X (1..MaxEnds))
             PROVE  /\ Cardinality(S) \in Nat /\ Cardinality(S) <= Cardinality(Conns) * MaxEnds
                    /\ \A m \in (Conns \X (1..MaxEnds)) \ S : Cardinality(S \cup {m}) = Cardinality(S) + 1
  BY DebugFiniteSets
<1>4. IsFiniteSet(S) /\ Cardinality(S) <= Cardinality(Conns \X (1..MaxEnds))
  BY <1>3, FS_Subset
<1>5. Cardinality(S) <= Cardinality(Conns) * MaxEnds
  BY <1>2, <1>3, <1>4
<1>6. Cardinality(S) \in Nat
  BY <1>4, FS_CardinalityType
<1>7. \A m \in (Conns \X (1..MaxEnds)) \ S : Cardinality(S \cup {m}) = Cardinality(S) + 1
  BY <1>4, FS_AddElement
<1> QED
  BY <1>5, <1>6, <1>7

\* The types that the invariant gives the variables.
LEMMA DebugTypes ==
  ASSUME Debug!DebugIInv
  PROVE  /\ s1 \in [Conns -> Debug!RuntimeShape] /\ s2 \in [Conns -> Debug!Loops] /\ s3 \in MaxConns
         /\ s5 \in Conns \cup {"none"} /\ s6 \in Conns \cup {"none"} /\ s8 \in Debug!SessionShape
         /\ s9 \in [Conns -> 0..MaxEnds] /\ s7 \in BOOLEAN /\ s11 \in BOOLEAN /\ s12 \in BOOLEAN
BY DEF Debug!DebugIInv, Debug!DebugTypeOK

\* A step of the loop of c that leaves the counters alone and publishes nothing.
LEMMA DebugLocal ==
  ASSUME Debug!DebugAssumption, Debug!DebugIInv, NEW c \in Conns, NEW r \in Debug!RuntimeShape,
         NEW l \in Debug!Loops, s1' = [s1 EXCEPT ![c] = r], s2' = [s2 EXCEPT ![c] = l],
         UNCHANGED <<s3, s4, s9, s10>>, s2[c] = "gone" <=> l = "gone",
         s5' \in Conns \cup {"none"}, s6' \in Conns \cup {"none"}, s8' \in Debug!SessionShape,
         s7' \in BOOLEAN, s11' \in BOOLEAN, s12' \in BOOLEAN,
         r.initialized => s1[c].initialized /\ (s1[c].handshake => r.handshake) /\ r.config = s1[c].config,
         r.initialized /\ r.open => s1[c].open,
         Debug!LoopKnows(c)', Debug!Owned', Debug!Alone', Debug!SessionsAreTold',
         s8'.state # "none" => s8'.conn \in Conns
  PROVE  Debug!DebugIInv'
<1>0. s1 \in [Conns -> Debug!RuntimeShape] /\ s2 \in [Conns -> Debug!Loops]
  BY DebugTypes
<1>1. /\ s1' \in [Conns -> Debug!RuntimeShape] /\ s2' \in [Conns -> Debug!Loops]
      /\ s1'[c] = r /\ s2'[c] = l /\ \A d \in Conns \ {c} : s1'[d] = s1[d] /\ s2'[d] = s2[d]
  BY <1>0
<1>2. Debug!DebugTypeOK'
  BY <1>1 DEF Debug!DebugIInv, Debug!DebugTypeOK
<1>3. Debug!CounterCovers'
  <2>1. Debug!Gone' = Debug!Gone /\ Debug!Counted' = Debug!Counted /\ Debug!EndMessages' = Debug!EndMessages
    BY <1>1 DEF Debug!Gone, Debug!Counted, Debug!EndMessages
  <2> QED
    BY <2>1 DEF Debug!DebugIInv, Debug!CounterCovers
<1>4. \A d \in Conns : Debug!LoopKnows(d)'
  BY <1>1 DEF Debug!DebugIInv, Debug!LoopKnows
<1>5. Debug!ConnectionLimit'
  <2> DEFINE A == {d \in Conns : Debug!Initialized(d)}
             B == {d \in Conns : Debug!Initialized(d)'}
  <2>1. B \subseteq A
    BY <1>1 DEF Debug!Initialized
  <2>2. Debug!Cardinality(B) <= Debug!Cardinality(A) /\ Debug!Cardinality(A) \in Nat /\ Debug!Cardinality(B) \in Nat
    BY <2>1, ConnSets
  <2>3. Debug!Cardinality(A) <= s3 + s10 /\ s3 \in Nat /\ s10 \in Nat
    BY DEF Debug!DebugIInv, Debug!ConnectionLimit, Debug!CounterCovers, Debug!DebugTypeOK, Debug!DebugAssumption
  <2> HIDE DEF A, B
  <2>4. Debug!Cardinality(B) <= s3 + s10
    BY <2>2, <2>3
  <2> QED
    BY <2>4 DEF B, Debug!ConnectionLimit
<1>6. Debug!PublishedIsComplete'
  BY <1>1 DEF Debug!DebugIInv, Debug!PublishedIsComplete
<1> QED
  BY <1>2, <1>3, <1>4, <1>5, <1>6 DEF Debug!DebugIInv

\* A change of a runtime that the invariant does not see.
LEMMA DebugQuiet ==
  ASSUME Debug!DebugAssumption, Debug!DebugIInv, NEW c \in Conns, NEW r, Alike(r, s1[c]),
         s1' = [s1 EXCEPT ![c] = r], UNCHANGED <<s2, s3, s4, s5, s6, s7, s8, s9, s10, s11, s12>>
  PROVE  Debug!DebugIInv'
<1>0. /\ s1 \in [Conns -> Debug!RuntimeShape] /\ s2 \in [Conns -> Debug!Loops] /\ r \in Debug!RuntimeShape
      /\ s2' = [s2 EXCEPT ![c] = s2[c]]
  BY DebugTypes DEF Alike
<1>1. /\ s1'[c] = r /\ \A d \in Conns \ {c} : s1'[d] = s1[d]
  BY <1>0
<1>2. \A d \in Conns : /\ s1'[d].open = s1[d].open /\ s1'[d].initialized = s1[d].initialized
                       /\ s1'[d].installed = s1[d].installed /\ (s1[d].handshake => s1'[d].handshake)
  BY <1>1 DEF Alike
<1>3. Debug!LoopKnows(c)' /\ Debug!Owned' /\ Debug!SessionsAreTold'
  <2>1. Debug!LoopKnows(c)'
    BY <1>2 DEF Debug!DebugIInv, Debug!LoopKnows
  <2>2. Debug!Owned'
    BY <1>2, DebugTypes DEF Debug!DebugIInv, Debug!Owned
  <2>3. Debug!SessionsAreTold'
    BY <1>2 DEF Debug!DebugIInv, Debug!SessionsAreTold
  <2> QED
    BY <2>1, <2>2, <2>3
<1>4. Debug!Alone'
  BY <1>2 DEF Debug!DebugIInv, Debug!Alone, Debug!Present
<1>5. s8.state # "none" => s8.conn \in Conns
  BY DEF Debug!DebugIInv
<1>6. r.initialized => s1[c].initialized /\ (s1[c].handshake => r.handshake) /\ r.config = s1[c].config
  BY DEF Alike
<1>7. r.open = s1[c].open
  BY DEF Alike
<1> QED
  BY <1>0, <1>3, <1>4, <1>5, <1>6, <1>7, DebugTypes, DebugLocal

\* A step that changes only the session that listens.
LEMMA DebugSession ==
  ASSUME Debug!DebugIInv, UNCHANGED <<s1, s2, s3, s4, s5, s6, s7, s9, s10, s11, s12>>,
         s8' \in Debug!SessionShape, s8'.conn \in Conns, s8'.state = "listening" => s1[s8'.conn].open
  PROVE  Debug!DebugIInv'
<1>1. Debug!DebugTypeOK'
  BY DEF Debug!DebugIInv, Debug!DebugTypeOK
<1>2. Debug!CounterCovers'
  BY DEF Debug!DebugIInv, Debug!CounterCovers, Debug!Gone, Debug!Counted, Debug!EndMessages
<1>3. (\A c \in Conns : Debug!LoopKnows(c)') /\ Debug!Owned' /\ Debug!PublishedIsComplete'
  BY DEF Debug!DebugIInv, Debug!LoopKnows, Debug!Owned, Debug!PublishedIsComplete
<1>4. Debug!Alone' /\ Debug!ConnectionLimit'
  BY DEF Debug!DebugIInv, Debug!Alone, Debug!Present, Debug!ConnectionLimit, Debug!Initialized
<1>5. Debug!SessionsAreTold'
  BY DEF Debug!SessionsAreTold
<1> QED
  BY <1>1, <1>2, <1>3, <1>4, <1>5 DEF Debug!DebugIInv

\* The messages of a declaration, the timers and the sessions.
LEMMA DebugQuietSteps ==
  ASSUME Debug!DebugAssumption, Debug!DebugIInv, NEW c \in Conns, UNCHANGED s3,
         \/ Debug!HandshakeTimer(c) \/ Debug!Handshake(c) \/ Debug!BeforeHandshake(c)
         \/ \E part \in Parts \cup {"manifest"} : Debug!Declaration(c, part)
         \/ Debug!AssetChunk(c) \/ Debug!HeartbeatMonitor(c)
         \/ Debug!PluginEvent(c) \/ Debug!ListenCheck(c) \/ Debug!ListenAdd(c)
  PROVE  Debug!DebugIInv'
<1> USE DEF Debug!Panel, Debug!History
<1>0. s1 \in [Conns -> Debug!RuntimeShape] /\ s1[c] \in Debug!RuntimeShape
  BY DebugTypes
<1>1. Alike(Debug!CloseConn(s1[c]), s1[c]) /\ Alike(Debug!Fail(s1[c]), s1[c])
  <2>1. Alike(s1[c], s1[c])
    BY <1>0 DEF Alike
  <2>2. \A r : Alike(r, s1[c]) => Alike(Debug!CloseConn(r), s1[c])
    <3> SUFFICES ASSUME NEW r, Alike(r, s1[c]) PROVE Alike(Debug!CloseConn(r), s1[c])
      OBVIOUS
    <3>1. CASE r.closed
      BY <3>1 DEF Debug!CloseConn
    <3>2. CASE ~r.closed
      <4>1. Debug!CloseConn(r) = [r EXCEPT !.closed = TRUE, !.closing = TRUE]
        BY <3>2, Zenon DEF Debug!CloseConn
      <4>2. r \in Debug!RuntimeShape
        BY DEF Alike
      <4>3. Alike([r EXCEPT !.closed = TRUE, !.closing = TRUE], r)
        BY <4>2, RuntimeChanges, Zenon
      <4> QED
        BY <4>1, <4>3, Zenon DEF Alike
    <3> QED
      BY <3>1, <3>2
  <2>3. Alike([s1[c] EXCEPT !.handshakeFailed = TRUE], s1[c])
    BY <1>0, RuntimeChanges, Zenon
  <2> QED
    BY <2>1, <2>2, <2>3, Zenon DEF Debug!Fail
<1>2. ASSUME NEW r, Alike(r, s1[c]), Debug!Registers(c, r) PROVE Debug!DebugIInv'
  BY <1>2, DebugQuiet DEF Debug!Registers
<1>3. CASE Debug!HandshakeTimer(c)
  <2>1. s1' = [s1 EXCEPT ![c] = [s1[c] EXCEPT !.closing = TRUE]]
    BY <1>3, Zenon DEF Debug!HandshakeTimer
  <2>2. Alike([s1[c] EXCEPT !.closing = TRUE], s1[c])
    BY <1>0, RuntimeChanges, Zenon
  <2>3. UNCHANGED <<s2, s3, s4, s5, s6, s7, s8, s9, s10, s11, s12>>
    BY <1>3 DEF Debug!HandshakeTimer
  <2> QED
    BY <2>1, <2>2, <2>3, DebugQuiet
<1>4. CASE Debug!Handshake(c) \/ Debug!BeforeHandshake(c)
  <2>1. Alike([s1[c] EXCEPT !.handshake = TRUE], s1[c])
    BY <1>0, RuntimeChanges, Zenon
  <2> QED
    BY <1>1, <1>2, <1>4, <2>1, Zenon DEF Debug!Handshake, Debug!BeforeHandshake
<1>5. ASSUME NEW part \in Parts \cup {"manifest"}, Debug!Declaration(c, part) PROVE Debug!DebugIInv'
  <2> DEFINE t == s1[c].transferred \cup {part}
             g == IF part = "manifest" THEN {part} ELSE s1[c].config \cup {part}
  <2>1. CASE Debug!Registers(c, Debug!CloseConn(s1[c]))
    BY <1>1, <1>2, <2>1, Zenon
  <2>2. CASE Debug!Registers(c, [s1[c] EXCEPT !.transferred = t, !.config = g])
    <3>1. t \in SUBSET (Parts \cup {"manifest"}) /\ g \in SUBSET (Parts \cup {"manifest"})
      BY <1>0, <1>5 DEF Debug!RuntimeShape
    <3>2. ~s1[c].initialized
      BY <2>2 DEF Debug!Registers, Debug!Registering
    <3> HIDE DEF t, g
    <3>3. Alike([s1[c] EXCEPT !.transferred = t, !.config = g], s1[c])
      BY <1>0, <3>1, <3>2, RuntimeChanges, Zenon
    <3> QED
      BY <1>2, <2>2, <3>3, Zenon
  <2>3. CASE Debug!Registers(c, [s1[c] EXCEPT !.transferred = @ \cup {part}])
    <3> DEFINE e == s1[c].transferred \cup {part}
    <3>1. e \in SUBSET (Parts \cup {"manifest"}) /\ s1[c].config \in SUBSET (Parts \cup {"manifest"})
      BY <1>0, <1>5 DEF Debug!RuntimeShape
    <3>2. ~s1[c].initialized
      BY <2>3 DEF Debug!Registers, Debug!Registering
    <3>3. [s1[c] EXCEPT !.transferred = @ \cup {part}]
            = [s1[c] EXCEPT !.transferred = e, !.config = s1[c].config]
      BY <1>0 DEF Debug!RuntimeShape
    <3> HIDE DEF e
    <3>4. Alike([s1[c] EXCEPT !.transferred = e, !.config = s1[c].config], s1[c])
      BY <1>0, <3>1, <3>2, RuntimeChanges, Zenon
    <3> QED
      BY <1>2, <2>3, <3>3, <3>4, Zenon
  <2> QED
    BY <1>5, <2>1, <2>2, <2>3, Zenon DEF Debug!Declaration
<1>6. CASE Debug!AssetChunk(c)
  <2>1. CASE Debug!Registers(c, Debug!CloseConn(s1[c]))
    BY <1>1, <1>2, <2>1, Zenon
  <2>2. CASE s1[c].assetsBytes < MaxAssets /\ Debug!Registers(c, [s1[c] EXCEPT !.assetsBytes = @ + 1])
    <3>1. s1[c].assetsBytes + 1 \in 0..MaxAssets
      BY <1>0, <2>2 DEF Debug!RuntimeShape, Debug!DebugAssumption
    <3>2. Alike([s1[c] EXCEPT !.assetsBytes = s1[c].assetsBytes + 1], s1[c])
      BY <1>0, <3>1, RuntimeChanges, Zenon
    <3> QED
      BY <1>2, <2>2, <3>2, Zenon
  <2> QED
    BY <1>6, <2>1, <2>2, Zenon DEF Debug!AssetChunk
<1>7. CASE Debug!HeartbeatMonitor(c)
  <2>1. s1' = [s1 EXCEPT ![c] = [s1[c] EXCEPT !.alive = FALSE, !.closing = TRUE]]
    BY <1>0, <1>7 DEF Debug!HeartbeatMonitor
  <2>2. Alike([s1[c] EXCEPT !.alive = FALSE, !.closing = TRUE], s1[c])
    BY <1>0, RuntimeChanges, Zenon
  <2>3. UNCHANGED <<s2, s3, s4, s5, s6, s7, s8, s9, s10, s11, s12>>
    BY <1>7 DEF Debug!HeartbeatMonitor
  <2> QED
    BY <2>1, <2>2, <2>3, DebugQuiet
<1>8. CASE Debug!PluginEvent(c)
  <2>1. /\ UNCHANGED <<s1, s2, s3, s4, s5, s6, s7, s9, s10, s11, s12>>
        /\ s8' = [conn |-> c, state |-> "answered"]
    BY <1>8 DEF Debug!PluginEvent
  <2> QED
    BY <2>1, DebugSession DEF Debug!SessionShape
<1>9. CASE Debug!ListenCheck(c)
  <2>1. /\ UNCHANGED <<s1, s2, s3, s4, s5, s6, s7, s9, s10, s11, s12>>
        /\ s8' \in {[conn |-> c, state |-> "untold"], [conn |-> c, state |-> "adding"]}
    BY <1>9 DEF Debug!ListenCheck
  <2> QED
    BY <2>1, DebugSession DEF Debug!SessionShape
<1>10. CASE Debug!ListenAdd(c)
  <2>1. /\ UNCHANGED <<s1, s2, s3, s4, s5, s6, s7, s9, s10, s11, s12>>
        /\ s8' = [conn |-> c, state |-> IF s1[c].open THEN "listening" ELSE "untold"]
    BY <1>10 DEF Debug!ListenAdd
  <2> QED
    BY <2>1, DebugSession DEF Debug!SessionShape
<1> QED
  BY <1>3, <1>4, <1>5, <1>6, <1>7, <1>8, <1>9, <1>10

\* What the invariant says in a state, to be used without its types.
LEMMA DebugParts ==
  ASSUME Debug!DebugIInv, NEW c \in Conns
  PROVE  /\ Debug!LoopKnows(c) /\ Debug!Owned /\ Debug!Alone /\ Debug!SessionsAreTold
         /\ s8.state # "none" => s8.conn \in Conns
         /\ s1[c] \in Debug!RuntimeShape
BY DebugTypes DEF Debug!DebugIInv

\* A connection opens.
LEMMA DebugOpens ==
  ASSUME Debug!DebugAssumption, Debug!DebugIInv, NEW c \in Conns, UNCHANGED s3, Debug!OnOpen(c)
  PROVE  Debug!DebugIInv'
<1> DEFINE r == [s1[c] EXCEPT !.open = TRUE]
<1>1. /\ s1' = [s1 EXCEPT ![c] = r] /\ s2[c] = "none" /\ s2' = [s2 EXCEPT ![c] = "idle"]
      /\ UNCHANGED <<s3, s4, s5, s6, s7, s8, s9, s10, s11, s12>>
  BY Zenon DEF Debug!OnOpen, Debug!Step, Debug!Panel, Debug!History
<1>2. /\ r \in Debug!RuntimeShape /\ r.open /\ r.initialized = s1[c].initialized
      /\ r.installed = s1[c].installed /\ r.handshake = s1[c].handshake /\ r.config = s1[c].config
  BY DebugParts, RuntimeMilestones, Zenon
<1>3. "idle" \in Debug!Loops
  BY DEF Debug!Loops
<1> HIDE DEF r
<1>4. /\ s1'[c] = r /\ s2'[c] = "idle"
      /\ \A d \in Conns \ {c} : s1'[d] = s1[d] /\ s2'[d] = s2[d]
  BY <1>1, DebugTypes
<1>5. ~s1[c].initialized /\ ~s1[c].installed
  BY <1>1, DebugParts DEF Debug!LoopKnows
<1>6. Debug!LoopKnows(c)'
  BY <1>1, <1>2, <1>4, <1>5, DebugParts DEF Debug!LoopKnows
<1>7. Debug!Owned'
  BY <1>1, <1>2, <1>4, <1>5, DebugParts, DebugTypes DEF Debug!Owned
<1>8. Debug!Alone'
  BY <1>1, <1>2, <1>4, <1>5, DebugParts DEF Debug!Alone, Debug!Present
<1>9. Debug!SessionsAreTold'
  BY <1>1, <1>2, <1>4, DebugParts DEF Debug!SessionsAreTold
<1> QED
  BY <1>1, <1>2, <1>3, <1>5, <1>6, <1>7, <1>8, <1>9, DebugParts, DebugTypes, DebugLocal

\* The connection closes and its sessions are told.
LEMMA DebugCloses ==
  ASSUME Debug!DebugAssumption, Debug!DebugIInv, NEW c \in Conns, UNCHANGED s3, Debug!CloseCleanup(c)
  PROVE  Debug!DebugIInv'
<1> DEFINE r == [s1[c] EXCEPT !.open = FALSE, !.alive = FALSE, !.closed = TRUE]
<1>0. s1 \in [Conns -> Debug!RuntimeShape]
  BY DebugTypes
<1>1. /\ s1' = [s1 EXCEPT ![c] = r] /\ s2[c] = "idle" /\ s2' = [s2 EXCEPT ![c] = "closed"]
      /\ UNCHANGED <<s3, s4, s5, s6, s7, s9, s10, s11, s12>>
  BY <1>0 DEF Debug!CloseCleanup, Debug!Step, Debug!Panel, Debug!History
<1>2. /\ r \in Debug!RuntimeShape /\ ~r.open /\ r.initialized = s1[c].initialized
      /\ r.installed = s1[c].installed /\ r.handshake = s1[c].handshake /\ r.config = s1[c].config
  BY DebugParts, RuntimeMilestones, Zenon
<1>3. "closed" \in Debug!Loops
  BY DEF Debug!Loops
<1>a. /\ s8' \in Debug!SessionShape /\ s8'.conn = s8.conn
      /\ s8'.state # "none" => s8.state # "none"
      /\ s8'.state = "listening" => s8.state = "listening" /\ s8.conn # c
  <2>1. s8 \in Debug!SessionShape
    BY DebugTypes
  <2>2. CASE s8 = [conn |-> c, state |-> "listening"]
    <3>1. s8' = [conn |-> c, state |-> "told"]
      BY <2>2 DEF Debug!CloseCleanup
    <3> QED
      BY <2>2, <3>1 DEF Debug!SessionShape
  <2>3. CASE s8 # [conn |-> c, state |-> "listening"]
    <3>1. s8' = s8
      BY <2>3 DEF Debug!CloseCleanup
    <3> QED
      BY <2>1, <2>3, <3>1 DEF Debug!SessionShape
  <2> QED
    BY <2>2, <2>3
<1> HIDE DEF r
<1>4. /\ s1'[c] = r /\ s2'[c] = "closed"
      /\ \A d \in Conns \ {c} : s1'[d] = s1[d] /\ s2'[d] = s2[d]
  BY <1>1, DebugTypes
<1>6. Debug!LoopKnows(c)'
  BY <1>1, <1>2, <1>4, DebugParts DEF Debug!LoopKnows
<1>7. Debug!Owned'
  BY <1>1, <1>2, <1>4, DebugParts, DebugTypes DEF Debug!Owned
<1>8. Debug!Alone'
  BY <1>1, <1>2, <1>4, DebugParts DEF Debug!Alone, Debug!Present
<1>9. Debug!SessionsAreTold'
  BY <1>1, <1>2, <1>4, <1>a, DebugParts DEF Debug!SessionsAreTold
<1> QED
  BY <1>1, <1>2, <1>3, <1>6, <1>7, <1>8, <1>9, <1>a, DebugParts, DebugTypes, DebugLocal

\* A step of the loop of c that leaves its runtime alone.
LEMMA DebugMoves ==
  ASSUME Debug!DebugAssumption, Debug!DebugIInv, NEW c \in Conns, NEW l \in Debug!Loops,
         UNCHANGED <<s1, s3, s4, s8, s9, s10, s11>>, s2' = [s2 EXCEPT ![c] = l],
         s2[c] = "gone" <=> l = "gone",
         s5' \in Conns \cup {"none"}, s6' \in Conns \cup {"none"}, s7' \in BOOLEAN, s12' \in BOOLEAN,
         Debug!LoopKnows(c)', Debug!Owned', Debug!Alone'
  PROVE  Debug!DebugIInv'
<1>1. s1' = [s1 EXCEPT ![c] = s1[c]] /\ s1[c] \in Debug!RuntimeShape
  BY DebugTypes
<1>2. Debug!SessionsAreTold'
  BY DebugParts DEF Debug!SessionsAreTold
<1> QED
  BY <1>1, <1>2, DebugParts, DebugTypes, DebugLocal

\* The control panel stores the runtime and registers it.
LEMMA DebugPublishes ==
  ASSUME Debug!DebugAssumption, Debug!DebugIInv, NEW c \in Conns, UNCHANGED s3,
         Debug!StoreRuntime(c) \/ Debug!RegisterRuntime(c)
  PROVE  Debug!DebugIInv'
<1> USE DEF Debug!Panel, Debug!History, Debug!Step
<1>1. PICK l \in {"register", "install"} :
        /\ s2' = [s2 EXCEPT ![c] = l] /\ UNCHANGED <<s1, s3, s4, s7, s8, s9, s10, s11, s12>>
        /\ l = "register" => s2[c] = "store" /\ s5' = c /\ s6' = s6
        /\ l = "install" => s2[c] = "register" /\ s5' = s5 /\ s6' \in {c, s6}
  BY DEF Debug!StoreRuntime, Debug!RegisterRuntime
<1>2. l \in Debug!Loops /\ s5' \in Conns \cup {"none"} /\ s6' \in Conns \cup {"none"}
  BY <1>1, DebugTypes DEF Debug!Loops
<1>3. s2'[c] = l /\ \A d \in Conns \ {c} : s2'[d] = s2[d]
  BY <1>1, DebugTypes
<1>4. Debug!LoopKnows(c)'
  BY <1>1, <1>3, DebugParts DEF Debug!LoopKnows
<1>5. s1[c].initialized
  BY <1>1, DebugParts DEF Debug!LoopKnows
<1>6. Debug!Owned'
  BY <1>1, <1>3, <1>5, DebugParts, DebugTypes DEF Debug!Owned
<1>7. Debug!Alone'
  BY <1>1, <1>3, <1>5, DebugParts DEF Debug!Alone, Debug!Present
<1> QED
  BY <1>1, <1>2, <1>4, <1>6, <1>7, DebugTypes, DebugMoves

\* The runtime is given the installation, whether or not the row was there already.
LEMMA DebugInstalls ==
  ASSUME Debug!DebugAssumption, Debug!DebugIInv, NEW c \in Conns, UNCHANGED s3,
         Debug!InstallDebugging(c) \/ Debug!FetchInstallation(c)
  PROVE  Debug!DebugIInv'
<1> USE DEF Debug!Panel, Debug!History, Debug!Step
<1>0. s1 \in [Conns -> Debug!RuntimeShape] /\ s2 \in [Conns -> Debug!Loops] /\ s7 \in BOOLEAN /\ s12 \in BOOLEAN
  BY DebugTypes
<1>1. s2[c] \in {"install", "fetch"} /\ s1[c].initialized
  BY DebugParts, Zenon DEF Debug!InstallDebugging, Debug!FetchInstallation, Debug!LoopKnows
<1>2. UNCHANGED <<s3, s4, s5, s6, s8, s9, s10, s11>>
  BY DEF Debug!InstallDebugging, Debug!FetchInstallation
<1>3. CASE /\ s1' = [s1 EXCEPT ![c].installed = TRUE] /\ s2' = [s2 EXCEPT ![c] = "idle"]
           /\ s7' = TRUE /\ s12' \in BOOLEAN /\ (s12 => s12')
  <2> DEFINE r == [s1[c] EXCEPT !.installed = TRUE]
  <2>1. s1' = [s1 EXCEPT ![c] = r]
    BY <1>3, Zenon
  <2>2. /\ r \in Debug!RuntimeShape /\ r.open = s1[c].open /\ r.initialized = s1[c].initialized
        /\ r.installed /\ r.handshake = s1[c].handshake /\ r.config = s1[c].config
    BY DebugParts, RuntimeMilestones, Zenon
  <2>3. "idle" \in Debug!Loops
    BY DEF Debug!Loops
  <2> HIDE DEF r
  <2>4. /\ s1'[c] = r /\ s2'[c] = "idle"
        /\ \A d \in Conns \ {c} : s1'[d] = s1[d] /\ s2'[d] = s2[d]
    BY <1>0, <1>3, <2>1
  <2>5. Debug!LoopKnows(c)'
    BY <1>1, <1>2, <2>2, <2>4, DebugParts DEF Debug!LoopKnows
  <2>6. Debug!Owned'
    BY <1>1, <1>2, <1>3, <2>2, <2>4, DebugParts, DebugTypes DEF Debug!Owned
  <2>7. Debug!Alone'
    BY <1>1, <1>2, <1>3, <2>2, <2>4, DebugParts DEF Debug!Alone, Debug!Present
  <2>8. Debug!SessionsAreTold'
    BY <1>1, <1>2, <2>2, <2>4, DebugParts DEF Debug!SessionsAreTold
  <2> QED
    BY <1>1, <1>2, <1>3, <2>1, <2>2, <2>3, <2>5, <2>6, <2>7, <2>8, DebugParts, DebugTypes, DebugLocal
<1>4. CASE \E l \in {"idle", "fetch"} :
             /\ UNCHANGED <<s1, s7>> /\ s2' = [s2 EXCEPT ![c] = l]
             /\ s12' \in BOOLEAN /\ (s12 => s12') /\ (s2[c] = "install" /\ ~s12' => s7)
  <2>1. PICK l \in {"idle", "fetch"} :
             /\ UNCHANGED <<s1, s7>> /\ s2' = [s2 EXCEPT ![c] = l]
             /\ s12' \in BOOLEAN /\ (s12 => s12') /\ (s2[c] = "install" /\ ~s12' => s7)
    BY <1>4
  <2>2. l \in Debug!Loops
    BY DEF Debug!Loops
  <2>3. s2'[c] = l /\ \A d \in Conns \ {c} : s2'[d] = s2[d]
    BY <1>0, <2>1
  <2>4. Debug!LoopKnows(c)'
    BY <1>1, <1>2, <2>1, <2>3, DebugParts DEF Debug!LoopKnows
  <2>5. Debug!Owned'
    BY <1>1, <1>2, <2>1, <2>3, DebugParts, DebugTypes DEF Debug!Owned
  <2>6. Debug!Alone'
    BY <1>1, <1>2, <2>1, <2>3, DebugParts DEF Debug!Alone, Debug!Present
  <2> QED
    BY <1>1, <1>2, <2>1, <2>2, <2>4, <2>5, <2>6, DebugTypes, DebugMoves
<1>5. CASE Debug!FetchInstallation(c)
  <2>1. s2' = [s2 EXCEPT ![c] = "idle"] /\ s2[c] = "fetch" /\ s12' = s12 /\ s7' = s7
    BY <1>5, Zenon DEF Debug!FetchInstallation
  <2>2. CASE s7 /\ s1' = [s1 EXCEPT ![c].installed = TRUE]
    <3>1. s7' = TRUE
      BY <1>0, <2>1, <2>2, Zenon
    <3> QED
      BY <1>0, <1>3, <2>1, <2>2, <3>1, Zenon
  <2>3. CASE s1' = s1
    BY <1>0, <1>4, <2>1, <2>3
  <2> QED
    BY <1>5, <2>2, <2>3, Zenon DEF Debug!FetchInstallation
<1>6. CASE Debug!InstallDebugging(c)
  <2>1. s2[c] = "install" /\ s12' = (s12 \/ (s2'[c] = "idle" /\ ~s7'))
    BY <1>6, Zenon DEF Debug!InstallDebugging
  <2>2. s12' \in BOOLEAN /\ (s12 => s12') /\ (~s12' /\ s2'[c] = "idle" => s7')
    BY <2>1, Zenon
  <2>3. CASE s2' = [s2 EXCEPT ![c] = "idle"] /\ s7' = TRUE /\ s1' = [s1 EXCEPT ![c].installed = TRUE]
    BY <1>3, <2>2, <2>3, Zenon
  <2>4. CASE s2' = [s2 EXCEPT ![c] = "fetch"] /\ s7 /\ s7' = s7 /\ s1' = s1
    BY <1>4, <2>2, <2>4
  <2>5. CASE s2' = [s2 EXCEPT ![c] = "idle"] /\ s7' = s7 /\ s1' = s1
    <3>1. s2'[c] = "idle"
      BY <1>0, <2>5
    <3>2. ~s12' => s7
      BY <2>2, <2>5, <3>1, Zenon
    <3> QED
      BY <1>4, <2>2, <2>5, <3>2
  <2> QED
    BY <1>6, <2>3, <2>4, <2>5, Zenon DEF Debug!InstallDebugging
<1> QED
  BY <1>5, <1>6

\* The runtime is taken down: out of the cluster, out of the control panel, uninstalled.
LEMMA DebugTakesDown ==
  ASSUME Debug!DebugAssumption, Debug!DebugIInv, NEW c \in Conns, UNCHANGED s3,
         Debug!CloseUnregister(c) \/ Debug!CloseDelete(c) \/ Debug!CloseUninstall(c)
  PROVE  Debug!DebugIInv'
<1> USE DEF Debug!Panel, Debug!History, Debug!Step
<1>0. s2 \in [Conns -> Debug!Loops] /\ s7 \in BOOLEAN /\ s12 \in BOOLEAN
  BY DebugTypes
<1>1. CASE Debug!CloseUnregister(c)
  <2>1. PICK l \in {"leave", "delete"} :
          /\ s2[c] = "closed" /\ s2' = [s2 EXCEPT ![c] = l]
          /\ l = "leave" => ~s1[c].initialized
          /\ l = "delete" => s1[c].initialized
          /\ s6' \in {s6, "none"} /\ UNCHANGED <<s1, s3, s4, s5, s7, s8, s9, s10, s11, s12>>
    BY <1>1 DEF Debug!CloseUnregister
  <2>2. l \in Debug!Loops /\ s6' \in Conns \cup {"none"}
    BY <2>1, DebugTypes DEF Debug!Loops
  <2>3. s2'[c] = l /\ \A d \in Conns \ {c} : s2'[d] = s2[d]
    BY <1>0, <2>1
  <2>4. Debug!LoopKnows(c)'
    BY <2>1, <2>3, DebugParts DEF Debug!LoopKnows
  <2>5. Debug!Owned'
    BY <2>1, <2>3, DebugParts, DebugTypes DEF Debug!Owned, Debug!LoopKnows
  <2>6. Debug!Alone'
    BY <2>1, <2>3, DebugParts DEF Debug!Alone, Debug!Present
  <2> QED
    BY <2>1, <2>2, <2>4, <2>5, <2>6, DebugTypes, DebugMoves
<1>2. CASE Debug!CloseDelete(c)
  <2>1. /\ s2[c] = "delete" /\ s2' = [s2 EXCEPT ![c] = "uninstall"] /\ s5' = "none"
        /\ UNCHANGED <<s1, s3, s4, s6, s7, s8, s9, s10, s11, s12>>
    BY <1>2 DEF Debug!CloseDelete
  <2>2. "uninstall" \in Debug!Loops
    BY DEF Debug!Loops
  <2>3. s2'[c] = "uninstall" /\ \A d \in Conns \ {c} : s2'[d] = s2[d]
    BY <1>0, <2>1
  <2>4. Debug!LoopKnows(c)'
    BY <2>1, <2>3, DebugParts DEF Debug!LoopKnows
  <2>5. Debug!Owned'
    BY <2>1, <2>3, DebugParts, DebugTypes DEF Debug!Owned
  <2>6. s1[c].initialized
    BY <2>1, DebugParts DEF Debug!LoopKnows
  <2>7. Debug!Alone'
    BY <2>1, <2>3, <2>6, DebugParts DEF Debug!Alone, Debug!Present
  <2> QED
    BY <2>1, <2>2, <2>4, <2>5, <2>7, DebugTypes, DebugMoves
<1>3. CASE Debug!CloseUninstall(c)
  <2>1. /\ s2[c] = "uninstall" /\ s2' = [s2 EXCEPT ![c] = "leave"]
        /\ UNCHANGED <<s1, s3, s4, s5, s6, s8, s9, s10, s11>>
    BY <1>3 DEF Debug!CloseUninstall
  <2>a. /\ s7' \in BOOLEAN /\ s12' \in BOOLEAN /\ (s12 => s12') /\ (s7' => s7)
        /\ s1[c].installed /\ ~s12' => ~s7'
    <3>1. CASE s1[c].installed /\ s7' = FALSE /\ s12' = s12
      BY <1>0, <3>1, Zenon
    <3>2. CASE ~s1[c].installed /\ s7' = s7 /\ s12' = s12
      BY <1>0, <3>2, Zenon
    <3>3. CASE s12' = TRUE /\ s7' = s7
      BY <1>0, <3>3, Zenon
    <3> QED
      BY <1>3, <3>1, <3>2, <3>3, Zenon DEF Debug!CloseUninstall
  <2>2. "leave" \in Debug!Loops
    BY DEF Debug!Loops
  <2>3. s2'[c] = "leave" /\ \A d \in Conns \ {c} : s2'[d] = s2[d]
    BY <1>0, <2>1
  <2>4. Debug!LoopKnows(c)'
    BY <2>1, <2>3, DebugParts DEF Debug!LoopKnows
  <2>5. Debug!Owned'
    BY <2>1, <2>3, <2>a, DebugParts, DebugTypes DEF Debug!Owned
  <2>6. s1[c].initialized
    BY <2>1, DebugParts DEF Debug!LoopKnows
  <2>7. Debug!Alone'
    BY <2>1, <2>3, <2>6, <2>a, DebugParts DEF Debug!Alone, Debug!Present
  <2> QED
    BY <2>1, <2>2, <2>4, <2>5, <2>7, <2>a, DebugTypes, DebugMoves
<1> QED
  BY <1>1, <1>2, <1>3

\* The range of the counters.
LEMMA CounterRange ==
  ASSUME Debug!DebugAssumption, Debug!CounterCovers'
  PROVE  /\ s4' \in -Debug!Cardinality(Conns)..Debug!Cardinality(Conns) * MaxEnds
         /\ s10' \in 0..Debug!Cardinality(Conns)
<1>1. Debug!Gone' \in SUBSET Conns /\ Debug!EndMessages' \in SUBSET (Conns \X (1..MaxEnds))
  BY DEF Debug!Gone, Debug!EndMessages
<1> DEFINE N == Debug!Cardinality(Conns)
           G == Debug!Cardinality(Debug!Gone)'
           E == Debug!Cardinality(Debug!EndMessages)'
           M == N * MaxEnds
<1>2. G <= N /\ G \in Nat /\ N \in Nat
  BY <1>1, ConnSets
<1>3. E <= M /\ E \in Nat
  BY <1>1, EndMessageSets
<1>4. M \in Nat
  BY <1>2 DEF Debug!DebugAssumption
<1>5. s4' \in Int /\ s10' \in Nat /\ s10' <= G /\ -G <= s4' /\ s4' <= E
  BY DEF Debug!CounterCovers
<1> HIDE DEF N, G, E, M
<1>6. s4' \in -N..M /\ s10' \in 0..N
  BY <1>2, <1>3, <1>4, <1>5
<1> QED
  BY <1>6 DEF N, M

\* A step of the loop of c that changes the counters and leaves its runtime alone.
LEMMA DebugCounts ==
  ASSUME Debug!DebugAssumption, Debug!DebugIInv, NEW c \in Conns, NEW l \in Debug!Loops,
         UNCHANGED <<s1, s3, s5, s6, s7, s8, s11, s12>>, s2' = [s2 EXCEPT ![c] = l],
         s9' \in [Conns -> 0..MaxEnds], \A d \in Conns \ {c} : s9'[d] = s9[d],
         s10 <= s10', Debug!CounterCovers', Debug!LoopKnows(c)', Debug!Owned', Debug!Alone'
  PROVE  Debug!DebugIInv'
<1>1. s2' \in [Conns -> Debug!Loops] /\ \A d \in Conns \ {c} : s2'[d] = s2[d]
  BY DebugTypes
<1>2. Debug!DebugTypeOK'
  BY <1>1, CounterRange DEF Debug!DebugIInv, Debug!DebugTypeOK
<1>3. \A d \in Conns : Debug!LoopKnows(d)'
  BY <1>1 DEF Debug!DebugIInv, Debug!LoopKnows
<1>4. Debug!ConnectionLimit'
  <2> DEFINE A == {d \in Conns : Debug!Initialized(d)}
  <2>1. Debug!Cardinality(A) <= s3 + s10 /\ s3 \in Nat /\ s10 \in Nat /\ s10' \in Nat
    BY DEF Debug!DebugIInv, Debug!ConnectionLimit, Debug!CounterCovers, Debug!DebugTypeOK, Debug!DebugAssumption
  <2>2. Debug!Cardinality(A) \in Nat
    BY ConnSets
  <2> HIDE DEF A
  <2>3. Debug!Cardinality(A) <= s3 + s10'
    BY <2>1, <2>2
  <2> QED
    BY <2>3 DEF A, Debug!ConnectionLimit, Debug!Initialized
<1>5. Debug!PublishedIsComplete' /\ Debug!SessionsAreTold'
  BY DEF Debug!DebugIInv, Debug!PublishedIsComplete, Debug!SessionsAreTold
<1> QED
  BY <1>2, <1>3, <1>4, <1>5 DEF Debug!DebugIInv

\* The end message is counted.
LEMMA DebugEndCount ==
  ASSUME Debug!DebugAssumption, Debug!DebugIInv, NEW c \in Conns, UNCHANGED s3, Debug!EndCount(c)
  PROVE  Debug!DebugIInv'
<1>1. /\ s2[c] = "idle" /\ s2' = [s2 EXCEPT ![c] = "end"] /\ s1[c].open /\ ~s1[c].initialized
      /\ s1[c].handshake /\ s9[c] < MaxEnds /\ s4' = s4 + 1 /\ s9' = [s9 EXCEPT ![c] = s9[c] + 1]
      /\ UNCHANGED <<s1, s3, s5, s6, s7, s8, s10, s11, s12>>
  BY DEF Debug!EndCount, Debug!Registering, Debug!Panel
<1>0. s9 \in [Conns -> 0..MaxEnds] /\ MaxEnds \in Nat /\ s2 \in [Conns -> Debug!Loops]
  BY DebugTypes DEF Debug!DebugAssumption
<1>2. /\ s9' \in [Conns -> 0..MaxEnds] /\ s9'[c] = s9[c] + 1 /\ s9'[c] > 0
      /\ \A d \in Conns \ {c} : s9'[d] = s9[d]
  BY <1>0, <1>1
<1>3. s2'[c] = "end" /\ \A d \in Conns \ {c} : s2'[d] = s2[d]
  BY <1>0, <1>1
<1>4. Debug!CounterCovers'
  <2>1. Debug!Gone' = Debug!Gone
    BY <1>1, <1>3 DEF Debug!Gone
  <2> DEFINE m == <<c, s9[c] + 1>>
  <2>2. m \in Conns \X (1..MaxEnds) /\ m \notin Debug!EndMessages
    BY <1>0, <1>1 DEF Debug!EndMessages
  <2>3. Debug!EndMessages' = Debug!EndMessages \cup {m}
    <3>1. ASSUME NEW n \in Conns \X (1..MaxEnds)
          PROVE  n[2] <= s9'[n[1]] <=> n[2] <= s9[n[1]] \/ n = m
      <4>1. n[1] \in Conns /\ n[2] \in 1..MaxEnds /\ n = <<n[1], n[2]>>
        OBVIOUS
      <4>2. CASE n[1] = c
        BY <1>0, <1>2, <4>1, <4>2
      <4>3. CASE n[1] # c
        BY <1>2, <4>1, <4>3
      <4> QED
        BY <4>2, <4>3
    <3> HIDE DEF m
    <3>2. Debug!EndMessages' = {n \in Conns \X (1..MaxEnds) : n[2] <= s9'[n[1]]}
      BY DEF Debug!EndMessages
    <3> QED
      BY <2>2, <3>1, <3>2 DEF Debug!EndMessages
  <2> HIDE DEF m
  <2>4. Debug!EndMessages \in SUBSET (Conns \X (1..MaxEnds))
    BY DEF Debug!EndMessages
  <2>5. /\ Debug!Cardinality(Debug!EndMessages)' = Debug!Cardinality(Debug!EndMessages) + 1
        /\ Debug!Cardinality(Debug!EndMessages) \in Nat
    <3>1. /\ Debug!Cardinality(Debug!EndMessages \cup {m}) = Debug!Cardinality(Debug!EndMessages) + 1
          /\ Debug!Cardinality(Debug!EndMessages) \in Nat
      BY <2>2, <2>4, EndMessageSets
    <3> QED
      BY <2>3, <3>1
  <2>6. Debug!Counted' = Debug!Counted \cup {c} /\ Debug!Counted \in SUBSET Conns
    BY <1>1, <1>2, <1>3 DEF Debug!Counted
  <2>7. /\ Debug!Cardinality(Debug!Counted)' <= Debug!Cardinality(Debug!Counted) + 1
        /\ Debug!Cardinality(Debug!Counted)' \in Nat /\ Debug!Cardinality(Debug!Counted) \in Nat
    <3>0. Debug!Counted \cup {c} \in SUBSET Conns
      BY <2>6
    <3>1. /\ Debug!Cardinality(Debug!Counted) \in Nat /\ Debug!Cardinality(Debug!Counted \cup {c}) \in Nat
      BY <2>6, <3>0, ConnSets
    <3>2. Debug!Cardinality(Debug!Counted \cup {c}) <= Debug!Cardinality(Debug!Counted) + 1
      <4>1. CASE c \in Debug!Counted
        <5>1. Debug!Counted \cup {c} = Debug!Counted
          BY <4>1
        <5>2. Debug!Cardinality(Debug!Counted \cup {c}) = Debug!Cardinality(Debug!Counted)
          BY <5>1, Zenon
        <5> HIDE DEF Debug!Counted
        <5> QED
          BY <3>1, <5>2
      <4>2. CASE c \notin Debug!Counted
        BY <2>6, <3>1, <4>2, ConnSets
      <4> QED
        BY <4>1, <4>2
    <3> QED
      BY <2>6, <3>1, <3>2
  <2>8. Debug!Cardinality(Debug!Gone) \in Nat
    <3>1. Debug!Gone \in SUBSET Conns
      BY DEF Debug!Gone
    <3> QED
      BY <3>1, ConnSets
  <2> DEFINE G == Debug!Cardinality(Debug!Gone)
             E == Debug!Cardinality(Debug!EndMessages)
             K == Debug!Cardinality(Debug!Counted)
             K2 == Debug!Cardinality(Debug!Counted)'
  <2>9. /\ s4 \in Int /\ s10 \in Nat /\ s10 <= G /\ -G <= s4 /\ s4 <= E /\ K <= s4 + s10
        /\ G \in Nat /\ E \in Nat /\ K \in Nat /\ K2 \in Nat /\ K2 <= K + 1
    BY <2>5, <2>7, <2>8 DEF Debug!DebugIInv, Debug!CounterCovers
  <2> HIDE DEF G, E, K, K2
  <2>10. /\ s4' \in Int /\ s10' \in Nat /\ s10' <= G /\ -G <= s4' /\ s4' <= E + 1
         /\ K2 <= s4' + s10'
    BY <1>1, <2>9
  <2> QED
    BY <2>1, <2>5, <2>10 DEF Debug!CounterCovers, G, E, K2
<1>5. Debug!LoopKnows(c)'
  BY <1>1, <1>2, <1>3, DebugParts DEF Debug!LoopKnows
<1>6. Debug!Owned'
  BY <1>1, <1>3, DebugParts, DebugTypes DEF Debug!Owned, Debug!LoopKnows
<1>7. Debug!Alone'
  BY <1>1, <1>3, DebugParts DEF Debug!Alone, Debug!Present
<1>8. "end" \in Debug!Loops /\ s10 <= s10'
  BY <1>1 DEF Debug!Loops, Debug!DebugIInv, Debug!CounterCovers
<1> QED
  BY <1>1, <1>2, <1>4, <1>5, <1>6, <1>7, <1>8, DebugCounts

\* The connection is subtracted, whether or not it was counted.
LEMMA DebugLeaves ==
  ASSUME Debug!DebugAssumption, Debug!DebugIInv, NEW c \in Conns, UNCHANGED s3, Debug!CloseLeave(c)
  PROVE  Debug!DebugIInv'
<1>1. /\ s2[c] = "leave" /\ s2' = [s2 EXCEPT ![c] = "gone"] /\ s4' = s4 - 1
      /\ s10' = IF s9[c] = 0 THEN s10 + 1 ELSE s10
      /\ UNCHANGED <<s1, s3, s5, s6, s7, s8, s9, s11, s12>>
  BY DEF Debug!CloseLeave, Debug!Step, Debug!Panel
<1>0. s9 \in [Conns -> 0..MaxEnds] /\ MaxEnds \in Nat /\ s2 \in [Conns -> Debug!Loops]
  BY DebugTypes DEF Debug!DebugAssumption
<1>2. s10 \in Nat /\ s4 \in Int
  BY DEF Debug!DebugIInv, Debug!CounterCovers
<1>3. s2'[c] = "gone" /\ \A d \in Conns \ {c} : s2'[d] = s2[d]
  BY <1>0, <1>1
<1>4. Debug!CounterCovers'
  <2>1. Debug!Gone' = Debug!Gone \cup {c} /\ Debug!Gone \in SUBSET Conns /\ c \notin Debug!Gone
    BY <1>1, <1>3 DEF Debug!Gone
  <2>2. /\ Debug!Cardinality(Debug!Gone)' = Debug!Cardinality(Debug!Gone) + 1
        /\ Debug!Cardinality(Debug!Gone) \in Nat
    <3>1. Debug!Cardinality(Debug!Gone \cup {c}) = Debug!Cardinality(Debug!Gone) + 1
      BY <2>1, ConnSets
    <3>2. Debug!Cardinality(Debug!Gone) \in Nat
      BY <2>1, ConnSets
    <3> QED
      BY <2>1, <3>1, <3>2
  <2>3. Debug!EndMessages' = Debug!EndMessages
    BY <1>1 DEF Debug!EndMessages
  <2>4. Debug!EndMessages \in SUBSET (Conns \X (1..MaxEnds))
    BY DEF Debug!EndMessages
  <2>5. Debug!Cardinality(Debug!EndMessages) \in Nat
    BY <2>4, EndMessageSets
  <2>6. Debug!Counted' = Debug!Counted \ {c} /\ Debug!Counted \in SUBSET Conns
    BY <1>0, <1>1, <1>3 DEF Debug!Counted
  <2>7. c \in Debug!Counted <=> s9[c] # 0
    BY <1>0, <1>1 DEF Debug!Counted
  <2>8. /\ Debug!Cardinality(Debug!Counted)' \in Nat /\ Debug!Cardinality(Debug!Counted) \in Nat
        /\ Debug!Cardinality(Debug!Counted) =
             Debug!Cardinality(Debug!Counted)' + (IF s9[c] = 0 THEN 0 ELSE 1)
    <3> DEFINE S == Debug!Counted \ {c}
    <3>1. S \in SUBSET Conns /\ c \notin S
      BY <2>6
    <3>2. /\ Debug!Cardinality(S) \in Nat /\ Debug!Cardinality(Debug!Counted) \in Nat
          /\ Debug!Cardinality(S \cup {c}) = Debug!Cardinality(S) + 1
      BY <2>6, <3>1, ConnSets
    <3>3. IF s9[c] = 0 THEN Debug!Counted = S ELSE Debug!Counted = S \cup {c}
      BY <2>7
    <3>4. Debug!Counted' = S
      BY <2>6
    <3> HIDE DEF S
    <3>5. Debug!Cardinality(Debug!Counted) = Debug!Cardinality(S) + (IF s9[c] = 0 THEN 0 ELSE 1)
      <4>1. CASE s9[c] = 0
        BY <3>2, <3>3, <4>1
      <4>2. CASE s9[c] # 0
        BY <3>2, <3>3, <4>2
      <4> QED
        BY <4>1, <4>2
    <3> QED
      BY <3>2, <3>4, <3>5
  <2> DEFINE G == Debug!Cardinality(Debug!Gone)
             E == Debug!Cardinality(Debug!EndMessages)
             K == Debug!Cardinality(Debug!Counted)
             K2 == Debug!Cardinality(Debug!Counted)'
  <2>9. /\ s10 <= G /\ -G <= s4 /\ s4 <= E /\ K <= s4 + s10
        /\ G \in Nat /\ E \in Nat /\ K \in Nat /\ K2 \in Nat
        /\ K = K2 + (IF s9[c] = 0 THEN 0 ELSE 1)
    BY <2>2, <2>5, <2>8 DEF Debug!DebugIInv, Debug!CounterCovers
  <2> HIDE DEF G, E, K, K2
  <2>10. /\ s4' \in Int /\ s10' \in Nat /\ s10' <= G + 1 /\ -(G + 1) <= s4' /\ s4' <= E
         /\ K2 <= s4' + s10'
    BY <1>1, <1>2, <2>9
  <2> QED
    BY <2>2, <2>3, <2>10 DEF Debug!CounterCovers, G, E, K2
<1>5. Debug!LoopKnows(c)'
  BY <1>1, <1>3, DebugParts DEF Debug!LoopKnows
<1>6. Debug!Owned'
  BY <1>1, <1>3, DebugParts, DebugTypes DEF Debug!Owned
<1>7. Debug!Alone'
  BY <1>1, <1>3, DebugParts DEF Debug!Alone, Debug!Present
<1>8. "gone" \in Debug!Loops /\ s10 <= s10'
  BY <1>1, <1>2 DEF Debug!Loops
<1> QED
  BY <1>0, <1>1, <1>4, <1>5, <1>6, <1>7, <1>8, DebugCounts

\* The declaration is complete: the runtime is initialized, within the limit.
LEMMA DebugInitializes ==
  ASSUME Debug!DebugAssumption, Debug!DebugIInv, NEW c \in Conns, UNCHANGED <<s3, s4, s5, s6, s7, s8, s9, s10, s12>>,
         s2[c] = "end", s2' = [s2 EXCEPT ![c] = "store"], s4 <= s3, Debug!ManifestValid(s1[c].config),
         s1' = [s1 EXCEPT ![c].initialized = TRUE],
         s11' = (s11 \/ \E d \in Conns \ {c} : Debug!Present(d))
  PROVE  Debug!DebugIInv'
<1> DEFINE r == [s1[c] EXCEPT !.initialized = TRUE]
<1>0. s1' = [s1 EXCEPT ![c] = r] /\ s1 \in [Conns -> Debug!RuntimeShape] /\ s2 \in [Conns -> Debug!Loops]
  BY DebugTypes, Zenon
<1>1. /\ r \in Debug!RuntimeShape /\ r.open = s1[c].open /\ r.initialized
      /\ r.installed = s1[c].installed /\ r.handshake = s1[c].handshake /\ r.config = s1[c].config
  BY DebugParts, RuntimeMilestones, Zenon
<1> HIDE DEF r
<1>2. /\ s1' \in [Conns -> Debug!RuntimeShape] /\ s2' \in [Conns -> Debug!Loops]
      /\ s1'[c] = r /\ s2'[c] = "store"
      /\ \A d \in Conns \ {c} : s1'[d] = s1[d] /\ s2'[d] = s2[d]
  BY <1>0, <1>1 DEF Debug!Loops
<1>3. s1[c].handshake /\ ~s1[c].initialized /\ ~s1[c].installed /\ s9[c] > 0
  BY DebugParts DEF Debug!LoopKnows
<1>4. s11' \in BOOLEAN
  BY DebugTypes, Zenon
<1>5. ~s11' => ~s11 /\ \A d \in Conns \ {c} : ~Debug!Present(d)
  BY Zenon
<1>6. Debug!DebugTypeOK'
  BY <1>2, <1>4 DEF Debug!DebugIInv, Debug!DebugTypeOK
<1>7. Debug!CounterCovers'
  <2>1. Debug!Gone' = Debug!Gone /\ Debug!Counted' = Debug!Counted /\ Debug!EndMessages' = Debug!EndMessages
    BY <1>2 DEF Debug!Gone, Debug!Counted, Debug!EndMessages
  <2> QED
    BY <2>1 DEF Debug!DebugIInv, Debug!CounterCovers
<1>8. \A d \in Conns : Debug!LoopKnows(d)'
  BY <1>1, <1>2, <1>3 DEF Debug!DebugIInv, Debug!LoopKnows
<1>9. Debug!ConnectionLimit'
  <2> DEFINE B == {d \in Conns : Debug!Initialized(d)'}
             K == Debug!Cardinality(Debug!Counted)
  <2>1. B \subseteq Debug!Counted /\ B \in SUBSET Conns /\ Debug!Counted \in SUBSET Conns
    <3>1. ASSUME NEW d \in Conns, Debug!Initialized(d)' PROVE d \in Debug!Counted
      <4>1. CASE d = c
        BY <1>3, <4>1 DEF Debug!Counted
      <4>2. CASE d # c
        <5>1. s1[d].open /\ s1[d].initialized
          BY <1>2, <3>1, <4>2 DEF Debug!Initialized
        <5>2. s9[d] > 0 /\ s2[d] # "gone"
          BY <5>1, DebugParts DEF Debug!LoopKnows
        <5> QED
          BY <5>2 DEF Debug!Counted
      <4> QED
        BY <4>1, <4>2
    <3> QED
      BY <3>1 DEF Debug!Counted
  <2>2. Debug!Cardinality(B) <= K /\ Debug!Cardinality(B) \in Nat /\ K \in Nat
    <3> HIDE DEF B
    <3> QED
      BY <2>1, ConnSets
  <2>3. K <= s4 + s10 /\ s4 \in Int /\ s10 \in Nat /\ s3 \in Nat
    BY DEF Debug!DebugIInv, Debug!CounterCovers, Debug!DebugTypeOK, Debug!DebugAssumption
  <2> HIDE DEF B, K
  <2>4. Debug!Cardinality(B) <= s3 + s10
    BY <2>2, <2>3
  <2> QED
    BY <2>4 DEF B, Debug!ConnectionLimit
<1>10. Debug!PublishedIsComplete'
  <2>1. s1[c].config \subseteq Parts \cup {"manifest"}
    BY <1>0 DEF Debug!RuntimeShape
  <2>2. "manifest" \in s1[c].config /\ s1[c].config \cap Parts # {}
    BY <2>1 DEF Debug!ManifestValid
  <2> QED
    BY <1>1, <1>2, <1>3, <2>2 DEF Debug!DebugIInv, Debug!PublishedIsComplete
<1>11. Debug!Owned'
  BY <1>1, <1>2, <1>3, DebugParts, DebugTypes DEF Debug!Owned
<1>12. Debug!Alone'
  BY <1>2, <1>5, DebugParts DEF Debug!Alone, Debug!Present
<1>13. Debug!SessionsAreTold'
  BY <1>1, <1>2, DebugParts DEF Debug!SessionsAreTold
<1> QED
  BY <1>6, <1>7, <1>8, <1>9, <1>10, <1>11, <1>12, <1>13 DEF Debug!DebugIInv

\* The end message is answered with an initialized runtime or a closed connection.
LEMMA DebugEndInitialize ==
  ASSUME Debug!DebugAssumption, Debug!DebugIInv, NEW c \in Conns, UNCHANGED s3, Debug!EndInitialize(c)
  PROVE  Debug!DebugIInv'
<1> USE DEF Debug!Panel, Debug!Step
<1>1. UNCHANGED <<s3, s4, s5, s6, s7, s8, s9, s10, s12>> /\ s2[c] = "end"
  BY DEF Debug!EndInitialize
<1>2. CASE /\ s2' = [s2 EXCEPT ![c] = "store"] /\ s4 <= s3 /\ Debug!ManifestValid(s1[c].config)
           /\ s1' = [s1 EXCEPT ![c].initialized = TRUE]
           /\ s11' = (s11 \/ \E d \in Conns \ {c} : Debug!Present(d))
  BY <1>1, <1>2, DebugInitializes
<1>3. CASE s2' = [s2 EXCEPT ![c] = "idle"] /\ s1' = [s1 EXCEPT ![c] = Debug!CloseConn(@)] /\ s11' = s11
  <2> DEFINE r == Debug!CloseConn(s1[c])
  <2>0. s1 \in [Conns -> Debug!RuntimeShape] /\ s2 \in [Conns -> Debug!Loops] /\ s1[c] \in Debug!RuntimeShape
    BY DebugTypes
  <2>1. Alike(r, s1[c])
    <3>1. CASE s1[c].closed
      BY <2>0, <3>1 DEF Alike, Debug!CloseConn
    <3>2. CASE ~s1[c].closed
      <4>1. r = [s1[c] EXCEPT !.closed = TRUE, !.closing = TRUE]
        BY <3>2, Zenon DEF Debug!CloseConn
      <4> HIDE DEF r
      <4>2. Alike([s1[c] EXCEPT !.closed = TRUE, !.closing = TRUE], s1[c])
        BY <2>0, RuntimeChanges, Zenon
      <4> QED
        BY <4>1, <4>2, Zenon
    <3> QED
      BY <3>1, <3>2
  <2>2. s1' = [s1 EXCEPT ![c] = r]
    BY <1>3, Zenon
  <2> HIDE DEF r
  <2>3. /\ r \in Debug!RuntimeShape /\ r.open = s1[c].open /\ r.initialized = s1[c].initialized
        /\ r.installed = s1[c].installed
    BY <2>1 DEF Alike
  <2>4. /\ s1'[c] = r /\ s2'[c] = "idle"
        /\ \A d \in Conns \ {c} : s1'[d] = s1[d] /\ s2'[d] = s2[d]
    BY <1>3, <2>0, <2>2
  <2>5. ~s1[c].initialized /\ ~s1[c].installed
    BY <1>1, DebugParts DEF Debug!LoopKnows
  <2>6. Debug!LoopKnows(c)'
    BY <1>1, <2>3, <2>4, <2>5, DebugParts DEF Debug!LoopKnows
  <2>7. Debug!Owned'
    BY <1>1, <2>3, <2>4, <2>5, DebugParts, DebugTypes DEF Debug!Owned
  <2>8. Debug!Alone'
    BY <1>1, <1>3, <2>3, <2>4, <2>5, DebugParts DEF Debug!Alone, Debug!Present
  <2>9. Debug!SessionsAreTold'
    BY <1>1, <2>3, <2>4, DebugParts DEF Debug!SessionsAreTold
  <2>10. "idle" \in Debug!Loops
    BY DEF Debug!Loops
  <2> QED
    BY <1>1, <1>3, <2>2, <2>3, <2>5, <2>6, <2>7, <2>8, <2>9, <2>10, DebugParts, DebugTypes, DebugLocal
<1> QED
  BY <1>2, <1>3, Zenon DEF Debug!EndInitialize

\* Every step of the debugging server keeps the invariant.
LEMMA DebugSteps ==
  ASSUME Debug!DebugAssumption, Debug!DebugIInv, Debug!DebugNext
  PROVE  Debug!DebugIInv'
<1>1. UNCHANGED s3
  BY DEF Debug!DebugNext
<1>2. PICK c \in Conns :
        \/ Debug!OnOpen(c) \/ Debug!HandshakeTimer(c) \/ Debug!Handshake(c) \/ Debug!BeforeHandshake(c)
        \/ \E part \in Parts \cup {"manifest"} : Debug!Declaration(c, part)
        \/ Debug!AssetChunk(c) \/ Debug!EndCount(c) \/ Debug!LoopStep(c)
        \/ Debug!PluginEvent(c) \/ Debug!HeartbeatMonitor(c) \/ Debug!ListenCheck(c) \/ Debug!ListenAdd(c)
        \/ Debug!CloseCleanup(c)
  BY Zenon DEF Debug!DebugNext
<1>3. CASE Debug!OnOpen(c)
  BY <1>1, <1>3, DebugOpens
<1>4. CASE \/ Debug!HandshakeTimer(c) \/ Debug!Handshake(c) \/ Debug!BeforeHandshake(c)
           \/ \E part \in Parts \cup {"manifest"} : Debug!Declaration(c, part)
           \/ Debug!AssetChunk(c) \/ Debug!HeartbeatMonitor(c)
           \/ Debug!PluginEvent(c) \/ Debug!ListenCheck(c) \/ Debug!ListenAdd(c)
  BY <1>1, <1>4, DebugQuietSteps
<1>5. CASE Debug!EndCount(c)
  BY <1>1, <1>5, DebugEndCount
<1>6. CASE Debug!LoopStep(c)
  <2>1. CASE Debug!EndInitialize(c)
    BY <1>1, <2>1, DebugEndInitialize
  <2>2. CASE Debug!StoreRuntime(c) \/ Debug!RegisterRuntime(c)
    BY <1>1, <2>2, DebugPublishes
  <2>3. CASE Debug!InstallDebugging(c) \/ Debug!FetchInstallation(c)
    BY <1>1, <2>3, DebugInstalls
  <2>4. CASE Debug!CloseUnregister(c) \/ Debug!CloseDelete(c) \/ Debug!CloseUninstall(c)
    BY <1>1, <2>4, DebugTakesDown
  <2>5. CASE Debug!CloseLeave(c)
    BY <1>1, <2>5, DebugLeaves
  <2> QED
    BY <1>6, <2>1, <2>2, <2>3, <2>4, <2>5, Zenon DEF Debug!LoopStep
<1>7. CASE Debug!CloseCleanup(c)
  BY <1>1, <1>7, DebugCloses
<1> QED
  BY <1>2, <1>3, <1>4, <1>5, <1>6, <1>7, Zenon

\* No connection has been opened yet.
LEMMA DebugInitial ==
  ASSUME Debug!DebugAssumption, Debug!DebugInit
  PROVE  Debug!DebugIInv
<1>1. /\ s1 = [c \in Conns |-> Debug!NewRuntime] /\ s2 = [c \in Conns |-> "none"] /\ s3 \in MaxConns
      /\ s4 = 0 /\ s5 = "none" /\ s6 = "none" /\ s7 = FALSE /\ s8 = [conn |-> "none", state |-> "none"]
      /\ s9 = [c \in Conns |-> 0] /\ s10 = 0 /\ s11 = FALSE /\ s12 = FALSE
  BY Zenon DEF Debug!DebugInit
<1>2. /\ Debug!NewRuntime \in Debug!RuntimeShape /\ ~Debug!NewRuntime.open
      /\ ~Debug!NewRuntime.initialized /\ ~Debug!NewRuntime.installed
  <2>1. 0 \in 0..MaxAssets
    BY DEF Debug!DebugAssumption
  <2>2. {} \in SUBSET (Parts \cup {"manifest"})
    OBVIOUS
  <2>3. Debug!NewRuntime \in Debug!RuntimeShape
    BY <2>1, <2>2, Zenon DEF Debug!NewRuntime, Debug!RuntimeShape
  <2> QED
    BY <2>3, Zenon DEF Debug!NewRuntime
<1>3. Debug!Cardinality(Conns) \in Nat /\ MaxEnds \in Nat /\ Debug!Cardinality(Conns) * MaxEnds \in Nat
  <2>1. Debug!Cardinality(Conns) \in Nat /\ MaxEnds \in Nat
    BY ConnSets DEF Debug!DebugAssumption
  <2> QED
    BY <2>1
<1>4. Debug!Gone = {} /\ Debug!Counted = {} /\ Debug!EndMessages = {}
  BY <1>1, <1>3 DEF Debug!Gone, Debug!Counted, Debug!EndMessages
<1>5. Debug!CounterCovers
  <2>1. Debug!Cardinality({}) = 0
    BY ConnSets
  <2> QED
    BY <1>1, <1>4, <2>1 DEF Debug!CounterCovers
<1>6. Debug!DebugTypeOK
  <2> DEFINE N == Debug!Cardinality(Conns)
             M == N * MaxEnds
  <2>1. N \in Nat /\ M \in Nat
    BY <1>3
  <2> HIDE DEF N, M
  <2>2. 0 \in -N..M /\ 0 \in 0..N
    BY <2>1
  <2>3. s1 \in [Conns -> Debug!RuntimeShape] /\ s9 \in [Conns -> 0..MaxEnds]
    BY <1>1, <1>2, <1>3
  <2>4. s2 \in [Conns -> Debug!Loops] /\ s8 \in Debug!SessionShape
    BY <1>1 DEF Debug!Loops, Debug!SessionShape
  <2>5. s7 \in BOOLEAN /\ s11 \in BOOLEAN /\ s12 \in BOOLEAN
    BY <1>1, Zenon
  <2> QED
    BY <1>1, <2>2, <2>3, <2>4, <2>5 DEF N, M, Debug!DebugTypeOK
<1>7. \A c \in Conns : Debug!LoopKnows(c)
  BY <1>1, <1>2 DEF Debug!LoopKnows
<1>8. Debug!Owned /\ Debug!Alone /\ Debug!PublishedIsComplete /\ Debug!SessionsAreTold
  BY <1>1, <1>2 DEF Debug!Owned, Debug!Alone, Debug!Present, Debug!PublishedIsComplete, Debug!SessionsAreTold
<1>9. Debug!ConnectionLimit
  <2>1. {c \in Conns : Debug!Initialized(c)} = {}
    BY <1>1, <1>2 DEF Debug!Initialized
  <2>2. Debug!Cardinality({}) = 0 /\ s3 \in Nat
    BY <1>1, ConnSets DEF Debug!DebugAssumption
  <2> QED
    BY <1>1, <2>1, <2>2 DEF Debug!ConnectionLimit
<1>10. s8.state = "none"
  BY <1>1
<1> QED
  BY <1>5, <1>6, <1>7, <1>8, <1>9, <1>10 DEF Debug!DebugIInv

\* A step that changes nothing keeps the invariant.
LEMMA DebugStutter ==
  ASSUME Debug!DebugIInv, UNCHANGED <<s1, s2, s3, s4, s5, s6, s7, s8, s9, s10, s11, s12>>
  PROVE  Debug!DebugIInv'
BY DEF Debug!DebugIInv, Debug!DebugTypeOK, Debug!CounterCovers, Debug!Gone, Debug!EndMessages,
       Debug!Counted, Debug!LoopKnows, Debug!Owned, Debug!Alone, Debug!Present, Debug!Initialized,
       Debug!ConnectionLimit, Debug!PublishedIsComplete, Debug!SessionsAreTold

\* What the invariant says of connections that have left and of a connected runtime.
LEMMA DebugPromises ==
  ASSUME Debug!DebugIInv
  PROVE  /\ Debug!DebugTypeOK /\ Debug!ConnectionLimit /\ Debug!PublishedIsComplete
         /\ Debug!NothingRemains /\ Debug!ConnectedIsReachable /\ Debug!SessionsAreTold
<1>1. Debug!NothingRemains
  BY DebugTypes DEF Debug!DebugIInv, Debug!Owned, Debug!NothingRemains
<1>2. Debug!ConnectedIsReachable
  BY DEF Debug!DebugIInv, Debug!Alone, Debug!Present, Debug!Initialized, Debug!ConnectedIsReachable
<1> QED
  BY <1>1, <1>2 DEF Debug!DebugIInv

------------------------------------------------------------------------------
(* Remote debugging as a whole *)

\* DebuggingIsSound holds in every reachable state, for every number of connections and
\* of requests for a key: the limit, complete declarations, reachability, nothing left
\* behind and told sessions (hooks.go, server_debugger.go), and keys that resolve while
\* they are held and not once they are cleared (connection_key.go).
THEOREM DebuggingStaysSound == ServicesSpec => []DebuggingIsSound
<1> DEFINE DInv == unit = "debug" => Debug!DebugIInv
           KInv == unit = "key" => Key!KeyIInv
           Inv == DInv /\ KInv
<1>0. Debug!DebugAssumption /\ Key!KeyAssumption
  BY ServicesAssumption
<1>1. ServicesInit => Inv
  BY <1>0, DebugInitial, KeyInitial DEF ServicesInit
<1>2. Inv /\ [ServicesNext]_servicesVars => Inv'
  <2> SUFFICES ASSUME Inv, [ServicesNext]_servicesVars PROVE DInv' /\ KInv'
    OBVIOUS
  <2>1. ASSUME unit' = "debug" PROVE Debug!DebugIInv'
    <3>1. unit = "debug" /\ Debug!DebugIInv
      BY <2>1 DEF ServicesNext, servicesVars
    <3>2. CASE Debug!DebugNext
      BY <1>0, <3>1, <3>2, DebugSteps
    <3>3. CASE UNCHANGED unitVars
      BY <3>1, <3>3, DebugStutter DEF unitVars
    <3> QED
      BY <3>1, <3>2, <3>3 DEF ServicesNext, servicesVars
  <2>2. ASSUME unit' = "key" PROVE Key!KeyIInv'
    <3>1. unit = "key" /\ Key!KeyIInv
      BY <2>2 DEF ServicesNext, servicesVars
    <3>2. CASE Key!KeyNext
      BY <1>0, <3>1, <3>2, KeySteps
    <3>3. CASE UNCHANGED unitVars
      BY <3>1, <3>3, KeyStutter
    <3> QED
      BY <3>1, <3>2, <3>3 DEF ServicesNext, servicesVars
  <2> QED
    BY <2>1, <2>2
<1>3. Inv => DebuggingIsSound
  <2>1. Key!KeyIInv => Key!KeyTypeOK /\ Key!HeldKeyResolves /\ Key!ClearedIsGone
    BY DEF Key!KeyIInv, Key!KeyIsHeld, Key!ClearedIsGone
  <2> QED
    BY <2>1, DebugPromises DEF DebuggingIsSound
<1> QED
  BY <1>1, <1>2, <1>3, PTL DEF ServicesSpec

------------------------------------------------------------------------------
(* Wizard *)

\* The profile becomes one with these fields.
ProfileBecomes(cu, se, te, on, ch) ==
  /\ s3' \in Wiz!ProfileShape
  /\ s3'.cursor = cu /\ s3'.section = se /\ s3'.text = te /\ s3'.i18n = on /\ s3'.chosen = ch

\* What the updates of the profile do.
LEMMA ProfileMoves ==
  ASSUME s3 \in Wiz!ProfileShape
  PROVE  /\ \A c \in Nat : s3' = [s3 EXCEPT !.cursor = c]
              => ProfileBecomes(c, s3.section, s3.text, s3.i18n, s3.chosen)
         /\ \A c \in Nat, b \in BOOLEAN : s3' = [s3 EXCEPT !.cursor = c, !.section = b]
              => ProfileBecomes(c, b, s3.text, s3.i18n, s3.chosen)
         /\ \A b \in BOOLEAN, ch \in SUBSET Wiz!ToSet(ReadmeLanguages) :
              s3' = [s3 EXCEPT !.i18n = b, !.chosen = ch]
              => ProfileBecomes(s3.cursor, s3.section, s3.text, b, ch)
         /\ \A ch \in SUBSET Wiz!ToSet(ReadmeLanguages) : s3' = [s3 EXCEPT !.chosen = ch]
              => ProfileBecomes(s3.cursor, s3.section, s3.text, s3.i18n, ch)
         /\ \A te \in [1..4 -> Wiz!Texts] : s3' = [s3 EXCEPT !.text = te]
              => ProfileBecomes(s3.cursor, s3.section, te, s3.i18n, s3.chosen)
BY Zenon DEF Wiz!ProfileShape, ProfileBecomes

\* The fields of a profile.
LEMMA ProfileFields ==
  ASSUME s3 \in Wiz!ProfileShape
  PROVE  /\ s3.cursor \in Nat /\ s3.section \in BOOLEAN /\ s3.text \in [1..4 -> Wiz!Texts]
         /\ s3.i18n \in BOOLEAN /\ s3.chosen \in SUBSET Wiz!ToSet(ReadmeLanguages)
BY Zenon DEF Wiz!ProfileShape

\* The permission becomes one with these fields.
PermissionBecomes(cu, st, ed, fo) ==
  /\ s6' \in Wiz!PermissionShape
  /\ s6'.cursor = cu /\ s6'.storage = st /\ s6'.editor = ed /\ s6'.focus = fo

\* The fields of a permission.
LEMMA PermissionFields ==
  ASSUME s6 \in Wiz!PermissionShape
  PROVE  /\ s6.cursor \in 1..Wiz!LastKey /\ s6.tool \in BOOLEAN /\ s6.model \in Seq(SUBSET Wiz!Grants)
         /\ s6.app \in BOOLEAN /\ s6.storage \in Wiz!Sizes_ /\ s6.endpoint \in BOOLEAN
         /\ s6.editor \in Wiz!Sizes_ /\ s6.focus \in BOOLEAN
BY Zenon DEF Wiz!PermissionShape

\* What the updates of the permission do.
LEMMA PermissionMoves ==
  ASSUME s6 \in Wiz!PermissionShape
  PROVE  /\ \A z \in Wiz!Sizes_ : s6' = [s6 EXCEPT !.storage = z]
              => PermissionBecomes(s6.cursor, z, s6.editor, s6.focus) /\ s6'.model = s6.model
         /\ \A m \in Seq(SUBSET Wiz!Grants), z \in Wiz!Sizes_ :
              s6' = [s6 EXCEPT !.tool = TRUE, !.model = m, !.app = FALSE, !.storage = z, !.endpoint = FALSE]
              => PermissionBecomes(s6.cursor, z, s6.editor, s6.focus) /\ s6'.model = m
         /\ \A m \in Seq(SUBSET Wiz!Grants) : s6' = [s6 EXCEPT !.model = m]
              => PermissionBecomes(s6.cursor, s6.storage, s6.editor, s6.focus) /\ s6'.model = m
         /\ \A b \in BOOLEAN :
              \/ s6' = [s6 EXCEPT !.tool = b] \/ s6' = [s6 EXCEPT !.app = b]
              \/ s6' = [s6 EXCEPT !.endpoint = b]
              => PermissionBecomes(s6.cursor, s6.storage, s6.editor, s6.focus) /\ s6'.model = s6.model
         /\ \A z, e \in Wiz!Sizes_ : s6' = [s6 EXCEPT !.storage = z, !.editor = e]
              => PermissionBecomes(s6.cursor, z, e, s6.focus) /\ s6'.model = s6.model
         /\ \A e \in Wiz!Sizes_ : s6' = [s6 EXCEPT !.editor = e]
              => PermissionBecomes(s6.cursor, s6.storage, e, s6.focus) /\ s6'.model = s6.model
BY Zenon DEF Wiz!PermissionShape, PermissionBecomes

\* A sequence of anything is one of its elements; two in a row.
LEMMA SequenceOf ==
  ASSUME NEW S, NEW q \in Seq(S)
  PROVE  q \in Seq({q[i] : i \in DOMAIN q}) /\ Len(q) \in Nat /\ DOMAIN q = 1..Len(q)
OBVIOUS

\* Two sequences in a row: the elements, the length and the first part.
LEMMA Joined ==
  ASSUME NEW S, NEW a \in Seq(S), NEW b \in Seq(S)
  PROVE  /\ a \o b \in Seq(S) /\ Len(a \o b) = Len(a) + Len(b)
         /\ \A i \in 1..Len(a) : (a \o b)[i] = a[i]
<1>0. Len(a) \in Nat /\ Len(b) \in Nat
  OBVIOUS
<1>1. a \o b \in Seq(S) /\ Len(a \o b) = Len(a) + Len(b)
  BY ConcatProperties
<1>2. \A i \in 1..Len(a) + Len(b) : (a \o b)[i] = IF i <= Len(a) THEN a[i] ELSE b[i - Len(a)]
  BY ConcatProperties
<1>3. \A i \in 1..Len(a) : (a \o b)[i] = a[i]
  BY <1>0, <1>2
<1> QED
  BY <1>1, <1>3

\* Two sequences in a row: the second part.
LEMMA JoinedRight ==
  ASSUME NEW S, NEW a \in Seq(S), NEW b \in Seq(S), NEW i \in 1..Len(b)
  PROVE  (a \o b)[Len(a) + i] = b[i]
<1>0. Len(a) \in Nat /\ Len(b) \in Nat
  OBVIOUS
<1>1. \A j \in 1..Len(a) + Len(b) : (a \o b)[j] = IF j <= Len(a) THEN a[j] ELSE b[j - Len(a)]
  BY ConcatProperties
<1> QED
  BY <1>0, <1>1

\* The keys of the permission menu: the size is the last but one, and only there.
LEMMA PermissionKeys ==
  ASSUME Wiz!WizAssumption
  PROVE  /\ Wiz!LastKey \in Nat /\ Wiz!LastKey >= 6 /\ Wiz!permissionKeySeq[1] = "tool.enabled"
         /\ \A i \in 1..Wiz!LastKey : Wiz!permissionKeySeq[i] \in Wiz!Grants
         /\ \A i \in 1..Wiz!LastKey : Wiz!permissionKeySeq[i] = "storage.size" => i = Wiz!LastKey - 1
<1> DEFINE a == <<"tool.enabled", "model.enabled">>
           b == a \o ModelGrants
           c == <<"app.enabled", "storage.enabled", "storage.size", "endpoint.enabled">>
           S == {ModelGrants[i] : i \in DOMAIN ModelGrants}
           T == S \cup {"tool.enabled", "model.enabled", "app.enabled", "storage.enabled", "storage.size",
                        "endpoint.enabled"}
<1>1. ModelGrants \in Seq(S) /\ Len(ModelGrants) \in Nat
  BY SequenceOf DEF Wiz!WizAssumption
<1>0. \A i \in 1..Len(ModelGrants) : ModelGrants[i] # "storage.size"
  BY <1>1 DEF Wiz!WizAssumption, Wiz!ToSet
<1>2. ModelGrants \in Seq(T)
  <2> HIDE DEF S
  <2> QED
    BY <1>1
<1>3. a \in Seq(T) /\ Len(a) = 2 /\ a[1] = "tool.enabled" /\ \A i \in 1..2 : a[i] # "storage.size"
  OBVIOUS
<1>4. c \in Seq(T) /\ Len(c) = 4 /\ \A i \in 1..4 : c[i] = "storage.size" => i = 3
  OBVIOUS
<1>5. Wiz!permissionKeySeq = b \o c
  BY DEF Wiz!permissionKeySeq
<1> HIDE DEF T, a, c
<1>6. /\ b \in Seq(T) /\ Len(b) = 2 + Len(ModelGrants) /\ b[1] = "tool.enabled"
      /\ \A i \in 1..Len(b) : b[i] # "storage.size"
  <2>0. a \in Seq(T) /\ ModelGrants \in Seq(T)
    BY <1>2, <1>3
  <2>1. /\ b \in Seq(T) /\ Len(b) = Len(a) + Len(ModelGrants) /\ (\A i \in 1..Len(a) : b[i] = a[i])
        /\ \A i \in 1..Len(ModelGrants) : b[Len(a) + i] = ModelGrants[i]
    <3>1. b \in Seq(T) /\ Len(b) = Len(a) + Len(ModelGrants) /\ (\A i \in 1..Len(a) : b[i] = a[i])
      BY <2>0, Joined, Zenon
    <3>2. ASSUME NEW i \in 1..Len(ModelGrants) PROVE b[Len(a) + i] = ModelGrants[i]
      BY <2>0, JoinedRight, Zenon
    <3> QED
      BY <3>1, <3>2
  <2> HIDE DEF b
  <2>2. b \in Seq(T) /\ Len(b) = 2 + Len(ModelGrants) /\ b[1] = "tool.enabled"
    BY <1>1, <1>3, <2>1
  <2>3. ASSUME NEW i \in 1..Len(b) PROVE b[i] # "storage.size"
    <3>1. CASE i <= 2
      BY <1>3, <2>1, <3>1
    <3>2. CASE i > 2
      <4>1. i - 2 \in 1..Len(ModelGrants) /\ i = Len(a) + (i - 2)
        BY <1>1, <1>3, <2>2, <3>2
      <4> QED
        BY <1>0, <2>1, <4>1
    <3> QED
      BY <2>2, <3>1, <3>2
  <2> QED
    BY <2>2, <2>3
<1> HIDE DEF b
<1>7. /\ b \o c \in Seq(T) /\ Len(b \o c) = 6 + Len(ModelGrants) /\ (b \o c)[1] = "tool.enabled"
      /\ \A i \in 1..Len(b \o c) : (b \o c)[i] = "storage.size" => i = Len(b \o c) - 1
  <2> DEFINE d == b \o c
  <2>0. b \in Seq(T) /\ c \in Seq(T)
    BY <1>4, <1>6
  <2>1. /\ d \in Seq(T) /\ Len(d) = Len(b) + Len(c) /\ (\A i \in 1..Len(b) : d[i] = b[i])
        /\ \A i \in 1..Len(c) : d[Len(b) + i] = c[i]
    <3>1. d \in Seq(T) /\ Len(d) = Len(b) + Len(c) /\ (\A i \in 1..Len(b) : d[i] = b[i])
      BY <2>0, Joined, Zenon
    <3>2. ASSUME NEW i \in 1..Len(c) PROVE d[Len(b) + i] = c[i]
      BY <2>0, JoinedRight, Zenon
    <3> QED
      BY <3>1, <3>2
  <2> HIDE DEF d
  <2>2. d \in Seq(T) /\ Len(d) = 6 + Len(ModelGrants) /\ d[1] = "tool.enabled"
    BY <1>1, <1>4, <1>6, <2>1
  <2>3. ASSUME NEW i \in 1..Len(d), d[i] = "storage.size" PROVE i = Len(d) - 1
    <3>1. ~(i <= Len(b))
      BY <1>1, <1>6, <2>1, <2>3
    <3>2. i - Len(b) \in 1..Len(c) /\ i = Len(b) + (i - Len(b))
      BY <1>1, <1>4, <1>6, <2>2, <3>1
    <3>3. c[i - Len(b)] = "storage.size"
      BY <2>1, <2>3, <3>2
    <3> QED
      BY <1>1, <1>4, <1>6, <2>2, <3>2, <3>3
  <2> QED
    BY <2>2, <2>3 DEF d
<1> DEFINE keys == Wiz!permissionKeySeq
<1>8. /\ keys \in Seq(T) /\ Wiz!LastKey = Len(keys) /\ Len(keys) = 6 + Len(ModelGrants)
      /\ keys[1] = "tool.enabled" /\ \A i \in 1..Len(keys) : keys[i] = "storage.size" => i = Len(keys) - 1
  BY <1>5, <1>7 DEF Wiz!LastKey
<1>9. Wiz!Grants = {keys[i] : i \in DOMAIN keys} \cup {"model.llm"}
  BY DEF Wiz!Grants, Wiz!ToSet
<1> HIDE DEF keys
<1>10. Wiz!LastKey \in Nat /\ Wiz!LastKey >= 6 /\ \A i \in 1..Wiz!LastKey : keys[i] \in Wiz!Grants
  BY <1>1, <1>8, <1>9
<1> QED
  BY <1>8, <1>10 DEF keys

\* The same facts, for the key under a cursor.
LEMMA PermissionKey ==
  ASSUME Wiz!WizAssumption, NEW i \in 1..Wiz!LastKey
  PROVE  /\ Wiz!permissionKeySeq[i] \in Wiz!Grants
         /\ Wiz!permissionKeySeq[i] = "storage.size" => i = Wiz!LastKey - 1
<1>1. Wiz!permissionKeySeq[i] \in Wiz!Grants
  BY PermissionKeys, Zenon
<1>2. Wiz!permissionKeySeq[i] = "storage.size" => i = Wiz!LastKey - 1
  BY PermissionKeys, Zenon
<1> QED
  BY <1>1, <1>2, Zenon

\* Moving the cursor: updateStorageSize on a permission whose cursor has moved.
LEMMA PermissionCursor ==
  ASSUME Wiz!WizAssumption, s6 \in Wiz!PermissionShape, NEW c \in 1..Wiz!LastKey,
         s6' = Wiz!updateStorageSize([s6 EXCEPT !.cursor = c])
  PROVE  /\ s6'.model = s6.model
         /\ \/ s6.storage = Wiz!NoSize
               /\ PermissionBecomes(c, s6.storage, s6.editor,
                                    s6.focus /\ Wiz!permissionKeySeq[c] = "storage.size")
            \/ s6.storage # Wiz!NoSize /\ Wiz!permissionKeySeq[c] = "storage.size"
               /\ PermissionBecomes(c, s6.storage, s6.storage, TRUE)
            \/ s6.storage # Wiz!NoSize /\ Wiz!permissionKeySeq[c] # "storage.size"
               /\ PermissionBecomes(c, IF s6.editor = Wiz!NoSize THEN 0 ELSE s6.editor, s6.editor, FALSE)
<1> DEFINE p == [s6 EXCEPT !.cursor = c]
           key == Wiz!permissionKeySeq[c]
<1>1. p \in Wiz!PermissionShape /\ p.cursor = c /\ p.storage = s6.storage /\ p.editor = s6.editor
      /\ p.focus = s6.focus /\ p.model = s6.model
  BY Zenon DEF Wiz!PermissionShape
<1> HIDE DEF p
<1>2. s6' = IF p.storage = Wiz!NoSize THEN [p EXCEPT !.focus = @ /\ key = "storage.size"]
            ELSE IF key = "storage.size" THEN [p EXCEPT !.editor = p.storage, !.focus = TRUE]
            ELSE [p EXCEPT !.focus = FALSE, !.storage = IF p.editor = Wiz!NoSize THEN 0 ELSE p.editor]
  BY <1>1, Zenon DEF p, Wiz!updateStorageSize, Wiz!KeyAt
<1> HIDE DEF key
<1>3. CASE s6.storage = Wiz!NoSize
  <2> DEFINE b == p.focus /\ key = "storage.size"
  <2>1. b \in BOOLEAN
    OBVIOUS
  <2>2. s6' = [p EXCEPT !.focus = b]
    BY <1>1, <1>2, <1>3, Zenon
  <2> HIDE DEF b
  <2>3. PermissionBecomes(c, s6.storage, s6.editor, b) /\ s6'.model = s6.model
    BY <1>1, <2>1, <2>2, Zenon DEF Wiz!PermissionShape, PermissionBecomes
  <2> QED
    BY <1>1, <1>3, <2>3, Zenon DEF b, key
<1>4. CASE s6.storage # Wiz!NoSize /\ key = "storage.size"
  <2>1. s6' = [p EXCEPT !.editor = p.storage, !.focus = TRUE]
    BY <1>1, <1>2, <1>4, Zenon
  <2>2. PermissionBecomes(c, s6.storage, s6.storage, TRUE) /\ s6'.model = s6.model
    BY <1>1, <2>1, Zenon DEF Wiz!PermissionShape, PermissionBecomes
  <2> QED
    BY <1>4, <2>2, Zenon DEF key
<1>5. CASE s6.storage # Wiz!NoSize /\ key # "storage.size"
  <2> DEFINE z == IF p.editor = Wiz!NoSize THEN 0 ELSE p.editor
  <2>1. s6' = [p EXCEPT !.focus = FALSE, !.storage = z]
    BY <1>1, <1>2, <1>5, Zenon
  <2>2. z \in Wiz!Sizes_
    BY <1>1, PermissionFields DEF Wiz!Sizes_
  <2>3. z = IF s6.editor = Wiz!NoSize THEN 0 ELSE s6.editor
    BY <1>1
  <2> HIDE DEF z
  <2>4. PermissionBecomes(c, z, s6.editor, FALSE) /\ s6'.model = s6.model
    BY <1>1, <2>1, <2>2, Zenon DEF Wiz!PermissionShape, PermissionBecomes
  <2> QED
    BY <1>5, <2>3, <2>4, Zenon DEF key
<1> QED
  BY <1>3, <1>4, <1>5 DEF key

\* The parts of the invariant that a step leaves alone.
LEMMA WizKeepProfile ==
  ASSUME Wiz!ProfileIInv, s3' = s3, s1' = s1, Wiz!PastProfile' => Wiz!PastProfile
  PROVE  Wiz!ProfileIInv'
BY Zenon DEF Wiz!ProfileIInv, Wiz!CreatedUnderValidName, Wiz!LeftThroughLanguages, Wiz!PastProfile

\* The permission and the size given are the ones before the step.
LEMMA WizKeepPermission ==
  ASSUME Wiz!PermissionIInv, s6' = s6, s9' = s9, s1' = s1,
         s2' \in {"profile", "language", "category"} => s2 \in {"profile", "language", "category"},
         s2' \in {"version_require", "create", "created"} => s2 \in {"version_require", "create", "created"}
  PROVE  Wiz!PermissionIInv'
BY Zenon DEF Wiz!PermissionIInv, Wiz!BeforePermission, Wiz!SizeKnows, Wiz!StorageSizeAsGiven, Wiz!KeyAt

\* Between the menus nothing is on disk.
LEMMA WizKeepMenu ==
  ASSUME Wiz!MenuIInv, s1 # "no", s1' = s1, s8' = s8, s2 \notin {"create", "created"},
         s2' \in {"profile", "language", "category", "permission", "version_require", "create", "left", "saved"},
         s4' \in {0, 1}, s5' \in WizCategories \cup {"tool"}, s7' \in Wiz!Texts
  PROVE  Wiz!MenuIInv'
BY DEF Wiz!MenuIInv

\* The steps of the profile menu keep what is known of the profile.
LEMMA WizProfile ==
  ASSUME Wiz!WizAssumption, Wiz!ProfileIInv,
         \/ Wiz!ProfileDown \/ Wiz!ProfileUp \/ Wiz!ToggleProfile \/ Wiz!ProfileEnter \/ Wiz!TypeText
  PROVE  Wiz!ProfileIInv'
<1> USE DEF Wiz!OnProfile, Wiz!AtMenu, Wiz!KeepOthers
<1> DEFINE langs == Len(ReadmeLanguages)
<1>0. /\ langs \in Nat /\ DOMAIN ReadmeLanguages = 1..langs
      /\ \A i \in 1..langs : ReadmeLanguages[i] \in Wiz!ToSet(ReadmeLanguages)
      /\ Wiz!Languages_ = langs + 1
  BY DEF Wiz!WizAssumption, Wiz!ToSet, Wiz!Languages_
<1>1. /\ s3 \in Wiz!ProfileShape /\ s3.cursor \in Nat /\ s3.section \in BOOLEAN /\ s3.text \in [1..4 -> Wiz!Texts]
      /\ s3.i18n \in BOOLEAN /\ s3.chosen \in SUBSET Wiz!ToSet(ReadmeLanguages)
  BY ProfileFields DEF Wiz!ProfileIInv
<1>2. /\ s3.cursor \in 0..(IF s3.section THEN langs ELSE 4) /\ (~s3.i18n => s3.chosen = {})
      /\ (s3.section \/ s3.cursor > 0 => s3.text[1] = "ok") /\ (s3.section => s3.i18n)
  BY DEF Wiz!ProfileIInv
<1> HIDE DEF langs
<1>3. s1' = s1 /\ s2 = "profile"
  BY DEF Wiz!ProfileDown, Wiz!ProfileUp, Wiz!ToggleProfile, Wiz!ProfileEnter, Wiz!TypeText
<1>4. ASSUME NEW cu, NEW se, NEW te, NEW on, NEW ch, ProfileBecomes(cu, se, te, on, ch), s2' = s2,
             cu \in 0..(IF se THEN langs ELSE 4), ~on => ch = {}, se \/ cu > 0 => te[1] = "ok", se => on
      PROVE  Wiz!ProfileIInv'
  <2>1. ~Wiz!PastProfile'
    BY <1>3, <1>4 DEF Wiz!PastProfile
  <2> QED
    BY <1>4, <2>1, Zenon
       DEF Wiz!ProfileIInv, ProfileBecomes, Wiz!CreatedUnderValidName, Wiz!LeftThroughLanguages, langs
<1>5. ASSUME NEW c \in Nat, s3' = [s3 EXCEPT !.cursor = c], s2' = s2,
             c \in 0..(IF s3.section THEN langs ELSE 4), s3.section \/ c > 0 => s3.text[1] = "ok"
      PROVE  Wiz!ProfileIInv'
  <2>1. ProfileBecomes(c, s3.section, s3.text, s3.i18n, s3.chosen)
    BY <1>1, <1>5, ProfileMoves
  <2> QED
    BY <1>2, <1>4, <1>5, <2>1
<1>6. ASSUME NEW c \in Nat, NEW b \in BOOLEAN, s3' = [s3 EXCEPT !.cursor = c, !.section = b], s2' = s2,
             c \in 0..(IF b THEN langs ELSE 4), s3.text[1] = "ok", b => s3.i18n
      PROVE  Wiz!ProfileIInv'
  <2>1. ProfileBecomes(c, b, s3.text, s3.i18n, s3.chosen)
    BY <1>1, <1>6, ProfileMoves
  <2> QED
    BY <1>2, <1>4, <1>6, <2>1
<1>7. Wiz!checkRule => s3.cursor > 0 \/ s3.section \/ s3.text[1] = "ok"
  <2>1. Wiz!checkRule /\ s3.cursor = 0 => s3.text[1] = "ok"
    BY DEF Wiz!checkRule
  <2> QED
    BY <1>1, <2>1
<1>8. CASE Wiz!ProfileDown
  <2>1. CASE s3.section
    <3> DEFINE c == IF s3.cursor + 1 < Wiz!Languages_ THEN s3.cursor + 1 ELSE s3.cursor
    <3>1. s3' = [s3 EXCEPT !.cursor = c] /\ s2' = s2
      BY <1>8, <2>1 DEF Wiz!ProfileDown
    <3>2. c \in Nat /\ c \in 0..(IF s3.section THEN langs ELSE 4)
      BY <1>0, <1>1, <1>2, <2>1
    <3> HIDE DEF c
    <3> QED
      BY <1>2, <1>5, <2>1, <3>1, <3>2
  <2>2. CASE ~s3.section
    <3>0. s2' = s2 /\ s3.text[1] = "ok" /\ s3.cursor \in 0..4
      BY <1>2, <1>7, <1>8, <2>2 DEF Wiz!ProfileDown
    <3>1. CASE s3.cursor < 4
      <4>1. s3' = [s3 EXCEPT !.cursor = s3.cursor + 1]
        BY <1>8, <2>2, <3>1 DEF Wiz!ProfileDown
      <4>2. s3.cursor + 1 \in Nat /\ s3.cursor + 1 \in 0..(IF s3.section THEN langs ELSE 4)
        BY <2>2, <3>0, <3>1
      <4> QED
        BY <1>5, <3>0, <4>1, <4>2
    <3>2. CASE ~(s3.cursor < 4)
      <4>1. s3' = [s3 EXCEPT !.cursor = 0, !.section = s3.i18n]
        BY <1>8, <2>2, <3>2 DEF Wiz!ProfileDown
      <4>2. 0 \in Nat /\ 0 \in 0..(IF s3.i18n THEN langs ELSE 4)
        BY <1>0
      <4> QED
        BY <1>1, <1>6, <3>0, <4>1, <4>2
    <3> QED
      BY <3>1, <3>2
  <2> QED
    BY <2>1, <2>2
<1>9. CASE Wiz!ProfileUp
  <2>0. s2' = s2 /\ s3.text[1] = "ok"
    BY <1>2, <1>7, <1>9 DEF Wiz!ProfileUp
  <2>1. CASE s3.cursor > 0
    <3>1. s3' = [s3 EXCEPT !.cursor = s3.cursor - 1]
      BY <1>9, <2>1 DEF Wiz!ProfileUp
    <3>2. s3.cursor - 1 \in Nat /\ s3.cursor - 1 \in 0..(IF s3.section THEN langs ELSE 4)
      BY <1>0, <1>1, <1>2, <2>1
    <3> QED
      BY <1>5, <2>0, <3>1, <3>2
  <2>2. CASE ~(s3.cursor > 0) /\ s3.section
    <3>1. s3' = [s3 EXCEPT !.section = FALSE, !.cursor = 4]
      BY <1>9, <2>2 DEF Wiz!ProfileUp
    <3>2. s3' = [s3 EXCEPT !.cursor = 4, !.section = FALSE]
      BY <1>1, <3>1, Zenon DEF Wiz!ProfileShape
    <3>3. 4 \in Nat /\ 4 \in 0..(IF FALSE THEN langs ELSE 4) /\ FALSE \in BOOLEAN
      OBVIOUS
    <3> QED
      BY <1>6, <2>0, <3>2, <3>3
  <2>3. CASE ~(s3.cursor > 0) /\ ~s3.section /\ s3.i18n
    <3>1. s3' = [s3 EXCEPT !.section = TRUE, !.cursor = Wiz!Languages_ - 1]
      BY <1>9, <2>3 DEF Wiz!ProfileUp
    <3>2. s3' = [s3 EXCEPT !.cursor = Wiz!Languages_ - 1, !.section = TRUE]
      BY <1>1, <3>1, Zenon DEF Wiz!ProfileShape
    <3>3. Wiz!Languages_ - 1 = langs
      BY <1>0
    <3>4. langs \in 0..(IF TRUE THEN langs ELSE 4)
      BY <1>0
    <3> QED
      BY <1>0, <1>6, <2>0, <2>3, <3>2, <3>3, <3>4
  <2>4. CASE ~(s3.cursor > 0) /\ ~s3.section /\ ~s3.i18n
    <3>1. s3' = [s3 EXCEPT !.cursor = 4]
      BY <1>9, <2>4 DEF Wiz!ProfileUp
    <3>2. 4 \in Nat /\ 4 \in 0..(IF s3.section THEN langs ELSE 4)
      BY <2>4
    <3> QED
      BY <1>5, <2>0, <3>1, <3>2
  <2> QED
    BY <2>1, <2>2, <2>3, <2>4
<1>10. ASSUME s3' = Wiz!Toggled, s2' = s2, ~s3.section, s3.cursor = 4 PROVE Wiz!ProfileIInv'
  <2> DEFINE b == ~s3.i18n
             ch == IF s3.i18n THEN {} ELSE s3.chosen
  <2>1. s3' = [s3 EXCEPT !.i18n = b, !.chosen = ch]
    BY <1>10, Zenon DEF Wiz!Toggled
  <2>2. b \in BOOLEAN /\ ch \in SUBSET Wiz!ToSet(ReadmeLanguages) /\ (~b => ch = {})
    BY <1>1
  <2> HIDE DEF b, ch
  <2>3. ProfileBecomes(s3.cursor, s3.section, s3.text, b, ch)
    BY <1>1, <2>1, <2>2, ProfileMoves
  <2> QED
    BY <1>2, <1>4, <1>10, <2>2, <2>3
<1>11. CASE Wiz!ToggleProfile
  <2>1. CASE ~s3.section /\ s3.cursor = 4 /\ s3' = Wiz!Toggled
    BY <1>10, <1>11, <2>1 DEF Wiz!ToggleProfile
  <2>2. CASE s3.section /\ s3.cursor > 0
    <3> DEFINE l == ReadmeLanguages[s3.cursor]
               ch == IF l \in s3.chosen THEN s3.chosen \ {l} ELSE s3.chosen \cup {l}
    <3>1. s3' = [s3 EXCEPT !.chosen = ch] /\ s2' = s2
      BY <1>11, <2>2 DEF Wiz!ToggleProfile
    <3>2. l \in Wiz!ToSet(ReadmeLanguages)
      BY <1>0, <1>1, <1>2, <2>2
    <3> HIDE DEF l
    <3>3. ch \in SUBSET Wiz!ToSet(ReadmeLanguages)
      BY <1>1, <3>2
    <3> HIDE DEF ch
    <3>4. ProfileBecomes(s3.cursor, s3.section, s3.text, s3.i18n, ch)
      BY <1>1, <3>1, <3>3, ProfileMoves
    <3> QED
      BY <1>2, <1>4, <2>2, <3>1, <3>4
  <2> QED
    BY <1>11, <2>1, <2>2 DEF Wiz!ToggleProfile
<1>12. CASE Wiz!ProfileEnter
  <2>1. CASE s3.section /\ s2' = "language" /\ s3' = s3
    <3>1. s3'.text[1] = "ok" /\ s3'.i18n
      BY <1>2, <2>1
    <3> QED
      BY <1>3, <2>1, <3>1, Zenon DEF Wiz!ProfileIInv, Wiz!CreatedUnderValidName, Wiz!LeftThroughLanguages
  <2>2. CASE ~s3.section /\ s3.cursor = 4 /\ s3' = Wiz!Toggled /\ s2' = s2
    BY <1>10, <2>2
  <2>3. CASE ~s3.section /\ s3.cursor <= 3 /\ Wiz!checkRule /\ s3' = [s3 EXCEPT !.cursor = s3.cursor + 1] /\ s2' = s2
    <3>1. s3.text[1] = "ok"
      BY <1>2, <1>7, <2>3
    <3>2. s3.cursor + 1 \in Nat /\ s3.cursor + 1 \in 0..(IF s3.section THEN langs ELSE 4)
      BY <1>1, <2>3
    <3> QED
      BY <1>5, <2>3, <3>1, <3>2
  <2> QED
    BY <1>12, <2>1, <2>2, <2>3 DEF Wiz!ProfileEnter
<1>13. CASE Wiz!TypeText
  <2>0. s2' = s2 /\ ~s3.section /\ s3.cursor <= 2
    BY <1>13, Zenon DEF Wiz!TypeText
  <2>1. s2' = s2 /\ ~s3.section /\ s3.cursor \in 0..2
    BY <1>1, <2>0
  <2>2. PICK t \in Wiz!Texts : s3' = [s3 EXCEPT !.text[s3.cursor + 1] = t]
    BY <1>13 DEF Wiz!TypeText, Wiz!Texts
  <2> DEFINE te == [s3.text EXCEPT ![s3.cursor + 1] = t]
  <2>3. s3' = [s3 EXCEPT !.text = te]
    BY <2>2
  <2>4. te \in [1..4 -> Wiz!Texts] /\ (s3.cursor > 0 => te[1] = s3.text[1])
    BY <1>1, <2>1
  <2> HIDE DEF te
  <2>5. ProfileBecomes(s3.cursor, s3.section, te, s3.i18n, s3.chosen)
    BY <1>1, <2>3, <2>4, ProfileMoves
  <2> QED
    BY <1>2, <1>4, <2>1, <2>4, <2>5
<1> QED
  BY <1>8, <1>9, <1>11, <1>12, <1>13

\* What has to be shown of a permission that has changed.
LEMMA PermissionHolds ==
  ASSUME NEW cu, NEW st, NEW ed, NEW fo, PermissionBecomes(cu, st, ed, fo),
         Len(s6'.model) <= 1, s9' \in Wiz!Sizes_,
         s2' \in {"profile", "language", "category"} => cu = 1 /\ ~fo,
         s1' = "init" => /\ fo => Wiz!permissionKeySeq[cu] = "storage.size" /\ st # Wiz!NoSize
                         /\ st = Wiz!NoSize => s9' = Wiz!NoSize
                         /\ st # Wiz!NoSize => ed = s9' /\ s9' # Wiz!NoSize
                         /\ st # Wiz!NoSize /\ Wiz!permissionKeySeq[cu] # "storage.size" => st = s9',
         s1' = "init" /\ s2' \in {"version_require", "create", "created"} => st = s9'
  PROVE  Wiz!PermissionIInv'
BY Zenon DEF PermissionBecomes, Wiz!PermissionIInv, Wiz!BeforePermission, Wiz!SizeKnows,
             Wiz!StorageSizeAsGiven, Wiz!KeyAt

\* The steps of the permission menu keep what is known of the permission.
LEMMA WizPermission ==
  ASSUME Wiz!WizAssumption, Wiz!PermissionIInv,
         Wiz!PermissionMove \/ Wiz!PermissionEnter \/ Wiz!PermissionEdit \/ Wiz!TypeSize
  PROVE  Wiz!PermissionIInv'
<1> DEFINE key == Wiz!permissionKeySeq[s6.cursor]
           last == Wiz!LastKey
<1>0. /\ s6 \in Wiz!PermissionShape /\ s6.cursor \in 1..last /\ s6.tool \in BOOLEAN
      /\ s6.model \in Seq(SUBSET Wiz!Grants) /\ s6.app \in BOOLEAN /\ s6.storage \in Wiz!Sizes_
      /\ s6.endpoint \in BOOLEAN /\ s6.editor \in Wiz!Sizes_ /\ s6.focus \in BOOLEAN
      /\ Len(s6.model) <= 1 /\ s9 \in Wiz!Sizes_
  BY PermissionFields DEF Wiz!PermissionIInv
<1>1. /\ last \in Nat /\ last >= 6 /\ key \in Wiz!Grants /\ (key = "storage.size" => s6.cursor = last - 1)
      /\ Wiz!permissionKeySeq[1] # "storage.size"
  <2> HIDE DEF key, last
  <2>1. last \in Nat /\ last >= 6 /\ Wiz!permissionKeySeq[1] = "tool.enabled"
    BY PermissionKeys DEF last
  <2>2. key \in Wiz!Grants /\ (key = "storage.size" => s6.cursor = last - 1)
    BY <1>0, PermissionKey, Zenon DEF key, last
  <2> QED
    BY <2>1, <2>2
<1>2. s1 = "init" => /\ s6.focus => key = "storage.size" /\ s6.storage # Wiz!NoSize
                     /\ s6.storage = Wiz!NoSize => s9 = Wiz!NoSize
                     /\ s6.storage # Wiz!NoSize => s6.editor = s9 /\ s9 # Wiz!NoSize
                     /\ s6.storage # Wiz!NoSize /\ key # "storage.size" => s6.storage = s9
  BY Zenon DEF Wiz!PermissionIInv, Wiz!SizeKnows, Wiz!KeyAt
<1>3. s1' = s1 /\ s1 # "no" /\ s2 = "permission"
  BY Zenon DEF Wiz!PermissionMove, Wiz!PermissionEnter, Wiz!PermissionEdit, Wiz!TypeSize,
               Wiz!OnPermission, Wiz!AtMenu
<1>4. Wiz!KeyAt(s6) = key
  BY Zenon DEF Wiz!KeyAt
<1>5. Wiz!NoSize = -1 /\ Wiz!NoSize \in Wiz!Sizes_ /\ Wiz!DefaultSize \in Wiz!Sizes_ /\ Wiz!DefaultSize # Wiz!NoSize
  BY DEF Wiz!NoSize, Wiz!Sizes_, Wiz!DefaultSize
<1> HIDE DEF key, last
<1>6. ASSUME NEW c \in 1..last, s6' = Wiz!updateStorageSize([s6 EXCEPT !.cursor = c]), s9' = s9,
             c # s6.cursor, s2' \in {"permission", "saved", "version_require"},
             s2' = "version_require" => c = 1
      PROVE  Wiz!PermissionIInv'
  <2> DEFINE k == Wiz!permissionKeySeq[c]
  <2>0. (k = "storage.size" => c = last - 1) /\ (c = 1 => k # "storage.size") /\ c \in 1..Wiz!LastKey
    <3>1. c \in 1..Wiz!LastKey
      BY DEF last
    <3>2. k = "storage.size" => c = last - 1
      BY <3>1, PermissionKey, Zenon DEF last
    <3>3. c = 1 => k # "storage.size"
      BY <1>1
    <3> QED
      BY <3>1, <3>2, <3>3
  <2>1. k = "storage.size" => key # "storage.size"
    BY <1>1, <1>6, <2>0
  <2>2. Len(s6'.model) <= 1
    BY <1>0, <1>6, <2>0, PermissionCursor
  <2> HIDE DEF k
  <2>3. CASE s6.storage = Wiz!NoSize /\ PermissionBecomes(c, s6.storage, s6.editor, s6.focus /\ k = "storage.size")
    <3> DEFINE fo == s6.focus /\ k = "storage.size"
    <3>1. s1 = "init" => ~fo
      BY <1>2, <2>3, Zenon
    <3> HIDE DEF fo
    <3>2. PermissionBecomes(c, s6.storage, s6.editor, fo)
      BY <2>3 DEF fo
    <3> QED
      BY <1>0, <1>2, <1>3, <1>6, <2>2, <2>3, <3>1, <3>2, PermissionHolds
  <2>4. CASE s6.storage # Wiz!NoSize /\ k = "storage.size" /\ PermissionBecomes(c, s6.storage, s6.storage, TRUE)
    <3>1. s1 = "init" => s6.storage = s9 /\ s9 # Wiz!NoSize
      BY <1>2, <2>1, <2>4
    <3>2. Wiz!permissionKeySeq[c] = "storage.size"
      BY <2>4 DEF k
    <3> QED
      BY <1>0, <1>3, <1>6, <2>0, <2>2, <2>4, <3>1, <3>2, PermissionHolds
  <2>5. ASSUME s6.storage # Wiz!NoSize, k # "storage.size",
               NEW z, z = IF s6.editor = Wiz!NoSize THEN 0 ELSE s6.editor,
               PermissionBecomes(c, z, s6.editor, FALSE)
        PROVE  Wiz!PermissionIInv'
    <3>1. s1 = "init" => z = s9 /\ s6.editor = s9 /\ s9 # Wiz!NoSize
      BY <1>2, <2>5
    <3> QED
      BY <1>0, <1>3, <1>6, <2>2, <2>5, <3>1, PermissionHolds
  <2> QED
    BY <1>0, <1>6, <2>0, <2>3, <2>4, <2>5, PermissionCursor DEF k
<1>7. CASE Wiz!PermissionMove
  <2>1. PICK c \in {IF s6.cursor = last THEN 1 ELSE s6.cursor + 1, IF s6.cursor = 1 THEN last ELSE s6.cursor - 1} :
           s6' = Wiz!updateStorageSize([s6 EXCEPT !.cursor = c])
    BY <1>7 DEF Wiz!PermissionMove, last
  <2>2. c \in 1..last /\ c # s6.cursor
    BY <1>0, <1>1
  <2>3. s2' = "permission" /\ s9' = s9
    BY <1>3, <1>7, Zenon DEF Wiz!PermissionMove
  <2> QED
    BY <1>6, <2>1, <2>2, <2>3
<1>8. CASE Wiz!PermissionEnter
  <2>1. /\ key = "endpoint.enabled" /\ s6' = Wiz!updateStorageSize([s6 EXCEPT !.cursor = 1]) /\ s9' = s9
        /\ s2' \in {"saved", "version_require"}
    BY <1>4, <1>8 DEF Wiz!PermissionEnter
  <2>2. s6.cursor # 1
    BY <2>1, PermissionKeys DEF key
  <2>3. 1 \in 1..last
    BY <1>1
  <2> QED
    BY <1>6, <2>1, <2>2, <2>3
<1>9. CASE Wiz!PermissionEdit
  <2>0. s2' = "permission" /\ s9' = IF key = "storage.enabled" THEN s6'.storage ELSE s9
    BY <1>3, <1>4, <1>9 DEF Wiz!PermissionEdit
  <2>1. ASSUME PermissionBecomes(s6.cursor, s6.storage, s6.editor, s6.focus), Len(s6'.model) <= 1,
               key # "storage.enabled"
        PROVE  Wiz!PermissionIInv'
    BY <1>0, <1>2, <1>3, <2>0, <2>1, PermissionHolds DEF key
  <2>2. CASE key = "tool.enabled"
    <3>1. s6' = [s6 EXCEPT !.tool = ~s6.tool]
      BY <1>4, <1>9, <2>2 DEF Wiz!PermissionEdit
    <3>2. (~s6.tool) \in BOOLEAN
      BY Zenon
    <3> QED
      BY <1>0, <2>1, <2>2, <3>1, <3>2, PermissionMoves
  <2>3. CASE key = "app.enabled"
    <3>1. s6' = [s6 EXCEPT !.app = ~s6.app]
      BY <1>4, <1>9, <2>3 DEF Wiz!PermissionEdit
    <3>2. (~s6.app) \in BOOLEAN
      BY Zenon
    <3> QED
      BY <1>0, <2>1, <2>3, <3>1, <3>2, PermissionMoves
  <2>4. CASE key = "endpoint.enabled"
    <3>1. s6' = [s6 EXCEPT !.endpoint = ~s6.endpoint]
      BY <1>4, <1>9, <2>4 DEF Wiz!PermissionEdit
    <3>2. (~s6.endpoint) \in BOOLEAN
      BY Zenon
    <3> QED
      BY <1>0, <2>1, <2>4, <3>1, <3>2, PermissionMoves
  <2>5. CASE key = "storage.size"
    <3>1. s6' = s6
      BY <1>4, <1>9, <2>5 DEF Wiz!PermissionEdit
    <3> QED
      BY <1>0, <2>1, <2>5, <3>1 DEF PermissionBecomes
  <2>6. CASE key = "storage.enabled"
    <3>0. s1 = "init" => ~s6.focus
      BY <1>2, <2>6
    <3>1. CASE s6.storage # Wiz!NoSize
      <4>1. s6' = [s6 EXCEPT !.storage = Wiz!NoSize]
        BY <1>4, <1>9, <2>6, <3>1 DEF Wiz!PermissionEdit
      <4>2. PermissionBecomes(s6.cursor, Wiz!NoSize, s6.editor, s6.focus) /\ s6'.model = s6.model
        BY <1>0, <1>5, <4>1, PermissionMoves
      <4>3. s9' = Wiz!NoSize
        BY <2>0, <2>6, <4>2 DEF PermissionBecomes
      <4> QED
        BY <1>0, <1>3, <1>5, <2>0, <3>0, <4>2, <4>3, PermissionHolds
    <3>2. CASE s6.storage = Wiz!NoSize
      <4>1. s6' = [s6 EXCEPT !.storage = Wiz!DefaultSize, !.editor = Wiz!DefaultSize]
        BY <1>4, <1>9, <2>6, <3>2 DEF Wiz!PermissionEdit
      <4>2. PermissionBecomes(s6.cursor, Wiz!DefaultSize, Wiz!DefaultSize, s6.focus) /\ s6'.model = s6.model
        BY <1>0, <1>5, <4>1, PermissionMoves
      <4>3. s9' = Wiz!DefaultSize
        BY <2>0, <2>6, <4>2 DEF PermissionBecomes
      <4> QED
        BY <1>0, <1>3, <1>5, <2>0, <3>0, <4>2, <4>3, PermissionHolds
    <3> QED
      BY <3>1, <3>2
  <2>7. CASE key \notin {"tool.enabled", "app.enabled", "endpoint.enabled", "storage.size", "storage.enabled"}
    <3>1. s6' = Wiz!EditModel(s6)
      BY <1>4, <1>9, <2>7 DEF Wiz!PermissionEdit
    <3>2. PICK m \in Seq(SUBSET Wiz!Grants) : Len(m) <= 1 /\ s6' = [s6 EXCEPT !.model = m]
      <4>1. CASE key = "model.enabled"
        <5> DEFINE m == IF s6.model = <<>> THEN <<{}>> ELSE <<>>
        <5>1. s6' = [s6 EXCEPT !.model = m]
          BY <1>4, <3>1, <4>1 DEF Wiz!EditModel
        <5>2. <<{}>> \in Seq(SUBSET Wiz!Grants) /\ Len(<<{}>>) <= 1
          OBVIOUS
        <5>3. <<>> \in Seq(SUBSET Wiz!Grants) /\ Len(<<>>) <= 1
          OBVIOUS
        <5> QED
          BY <5>1, <5>2, <5>3
      <4>2. CASE key # "model.enabled"
        <5> DEFINE g == IF s6.model = <<>> THEN {} ELSE s6.model[1]
                   h == IF key \in g THEN g \ {key} ELSE g \cup {key}
        <5>1. s6' = [s6 EXCEPT !.model = <<h>>]
          BY <1>4, <3>1, <4>2 DEF Wiz!EditModel
        <5>2. g \in SUBSET Wiz!Grants
          BY <1>0
        <5> HIDE DEF g
        <5>3. h \in SUBSET Wiz!Grants
          BY <1>1, <5>2
        <5> HIDE DEF h
        <5>4. <<h>> \in Seq(SUBSET Wiz!Grants) /\ Len(<<h>>) <= 1
          BY <5>3
        <5> QED
          BY <5>1, <5>4
      <4> QED
        BY <4>1, <4>2
    <3>3. PermissionBecomes(s6.cursor, s6.storage, s6.editor, s6.focus) /\ s6'.model = m
      BY <1>0, <3>2, PermissionMoves
    <3> QED
      BY <2>1, <2>7, <3>2, <3>3
  <2> QED
    BY <2>2, <2>3, <2>4, <2>5, <2>6, <2>7
<1>10. CASE Wiz!TypeSize
  <2>1. s2' = "permission" /\ key = "storage.size" /\ s6.focus
    BY <1>3, <1>4, <1>10, Zenon DEF Wiz!TypeSize
  <2>2. PICK e \in StorageSizes \cup {0} : s6' = [s6 EXCEPT !.editor = e] /\ s9' = e
    BY <1>10 DEF Wiz!TypeSize
  <2>3. e \in Wiz!Sizes_ /\ e # Wiz!NoSize
    BY <1>5 DEF Wiz!Sizes_, Wiz!WizAssumption
  <2>4. PermissionBecomes(s6.cursor, s6.storage, e, s6.focus) /\ s6'.model = s6.model
    BY <1>0, <2>2, <2>3, PermissionMoves
  <2>5. s1 = "init" => s6.storage # Wiz!NoSize
    BY <1>2, <2>1
  <2> QED
    BY <1>0, <1>3, <2>1, <2>2, <2>3, <2>4, <2>5, PermissionHolds DEF key
<1> QED
  BY <1>7, <1>8, <1>9, <1>10

\* The four answers of the profile form, as a function of their place.
LEMMA FourTexts ==
  ASSUME NEW T, NEW a \in T, NEW b \in T, NEW c \in T, NEW d \in T
  PROVE  <<a, b, c, d>> \in [1..4 -> T]
<1>1. <<a, b, c, d>> \in Seq(T) /\ Len(<<a, b, c, d>>) = 4
  OBVIOUS
<1>2. \A s \in Seq(T) : s \in [1..Len(s) -> T]
  OBVIOUS
<1> QED
  BY <1>1, <1>2

\* The files of a category include the provider file that the manifest names.
LEMMA ProviderIsWritten ==
  ASSUME NEW c \in Wiz!AllCategories, c # "datasource"
  PROVE  Wiz!ManifestNames(c) \in Wiz!ToSet(Wiz!PythonFiles(c))
<1> DEFINE T == {"GUIDE.md", "main.py", "requirements.txt", "pyproject.toml", ".difyignore", ".gitignore",
                 "tools/x.py", "tools/x.yaml", "provider/x.py", "provider/x.yaml", "group/x.yaml",
                 "endpoints/x.yaml", "endpoints/x.py", "models/x.yaml", "models/x.py", "strategies/x.yaml",
                 "strategies/x.py", "events/x.yaml", "events/x.py"}
           a == <<"GUIDE.md", "main.py", "requirements.txt", "pyproject.toml", ".difyignore", ".gitignore">>
           f == Wiz!CategoryFiles(c)
           name == Wiz!ManifestNames(c)
<1>1. a \in Seq(T) /\ Len(a) = 6
  OBVIOUS
<1>2. Wiz!PythonFiles(c) = a \o f
  BY DEF Wiz!PythonFiles
<1>3. f \in Seq(T) /\ \E i \in 1..Len(f) : f[i] = name
  <2>1. CASE c = "tool"
    <3>1. f = <<"tools/x.py", "tools/x.yaml", "provider/x.py", "provider/x.yaml">> /\ name = "provider/x.yaml"
      BY <2>1 DEF Wiz!CategoryFiles, Wiz!ToolFiles, Wiz!ManifestNames, Wiz!ModelKinds
    <3> HIDE DEF f, name
    <3>2. f \in Seq(T) /\ 4 \in 1..Len(f) /\ f[4] = name
      BY <3>1
    <3> QED
      BY <3>2
  <2>2. CASE c = "extension"
    <3>1. f = <<"group/x.yaml", "endpoints/x.yaml", "endpoints/x.py">> /\ name = "group/x.yaml"
      BY <2>2 DEF Wiz!CategoryFiles, Wiz!EndpointFiles, Wiz!ManifestNames, Wiz!ModelKinds
    <3> HIDE DEF f, name
    <3>2. f \in Seq(T) /\ 1 \in 1..Len(f) /\ f[1] = name
      BY <3>1
    <3> QED
      BY <3>2
  <2>3. CASE c \in Wiz!ModelKinds
    <3>1. f = <<"provider/x.py", "provider/x.yaml", "models/x.yaml", "models/x.py">> /\ name = "provider/x.yaml"
      BY <2>3 DEF Wiz!CategoryFiles, Wiz!ModelFiles, Wiz!ManifestNames, Wiz!ModelKinds
    <3> HIDE DEF f, name
    <3>2. f \in Seq(T) /\ 2 \in 1..Len(f) /\ f[2] = name
      BY <3>1
    <3> QED
      BY <3>2
  <2>4. CASE c = "agent-strategy"
    <3>1. f = <<"provider/x.yaml", "strategies/x.yaml", "strategies/x.py">> /\ name = "provider/x.yaml"
      BY <2>4 DEF Wiz!CategoryFiles, Wiz!StrategyFiles, Wiz!ManifestNames, Wiz!ModelKinds
    <3> HIDE DEF f, name
    <3>2. f \in Seq(T) /\ 1 \in 1..Len(f) /\ f[1] = name
      BY <3>1
    <3> QED
      BY <3>2
  <2>5. CASE c = "trigger"
    <3>1. f = <<"provider/x.py", "provider/x.yaml", "events/x.yaml", "events/x.py">> /\ name = "provider/x.yaml"
      BY <2>5 DEF Wiz!CategoryFiles, Wiz!TriggerFiles, Wiz!ManifestNames, Wiz!ModelKinds
    <3> HIDE DEF f, name
    <3>2. f \in Seq(T) /\ 2 \in 1..Len(f) /\ f[2] = name
      BY <3>1
    <3> QED
      BY <3>2
  <2> QED
    BY <2>1, <2>2, <2>3, <2>4, <2>5, Zenon DEF Wiz!AllCategories
<1> HIDE DEF T, a, f, name
<1>4. PICK i \in 1..Len(f) : f[i] = name
  BY <1>3
<1> DEFINE all == a \o f
<1>5. all[Len(a) + i] = name
  <2>1. a \in Seq(T) /\ f \in Seq(T)
    BY <1>1, <1>3
  <2>2. all[Len(a) + i] = f[i]
    BY <2>1, JoinedRight, Zenon
  <2> QED
    BY <1>4, <2>2
<1>6. all \in Seq(T) /\ Len(all) = Len(a) + Len(f)
  BY <1>1, <1>3, Joined, Zenon
<1> HIDE DEF all
<1>7. Len(a) + i \in DOMAIN all
  BY <1>1, <1>3, <1>6
<1>8. name \in {all[j] : j \in DOMAIN all}
  BY <1>5, <1>7
<1> QED
  BY <1>2, <1>8 DEF Wiz!ToSet, all, name

\* The wizard is started.
LEMMA WizStart ==
  ASSUME Wiz!WizAssumption, Wiz!WizIInv, Wiz!Start
  PROVE  Wiz!WizIInv'
<1>0. /\ s1 = "no" /\ s2 = "profile" /\ s3 = Wiz!NewProfile /\ s6 = Wiz!NewPermission /\ s9 = Wiz!NoSize
      /\ s4 \in {0, 1} /\ s5 \in WizCategories \cup {"tool"} /\ s7 \in Wiz!Texts /\ s8 = {}
  BY DEF Wiz!Start, Wiz!WizIInv, Wiz!MenuIInv
<1>1. Wiz!ProfileIInv /\ s3 \in Wiz!ProfileShape /\ s6 \in Wiz!PermissionShape /\ Len(s6.model) <= 1
  BY DEF Wiz!WizIInv, Wiz!ProfileIInv, Wiz!PermissionIInv
<1>2. s3.cursor = 0 /\ ~s3.section /\ ~s3.i18n /\ s3.chosen = {} /\ s3.section = FALSE /\ s3.i18n = FALSE
  BY <1>0, Zenon DEF Wiz!NewProfile
<1>3. s6.cursor = 1 /\ s6.storage = Wiz!NoSize /\ s6.editor = Wiz!NoSize /\ ~s6.focus
  BY <1>0, Zenon DEF Wiz!NewPermission
<1>4. Wiz!NoSize \in Wiz!Sizes_ /\ "" \in Wiz!Texts /\ "bad" \in Wiz!Texts
  BY DEF Wiz!Sizes_, Wiz!Texts
<1>5. ASSUME NEW size \in StorageSizes \cup {Wiz!NoSize}, s6' = [s6 EXCEPT !.storage = size], s9' = size,
             s1' \in {"flags", "quick", "edit"}
      PROVE  Wiz!PermissionIInv'
  <2>1. size \in Wiz!Sizes_
    BY DEF Wiz!Sizes_
  <2>2. PermissionBecomes(s6.cursor, size, s6.editor, s6.focus) /\ s6'.model = s6.model
    BY <1>1, <1>5, <2>1, PermissionMoves
  <2> QED
    BY <1>1, <1>3, <1>5, <2>1, <2>2, PermissionHolds
<1>6. CASE s1' = "init" /\ UNCHANGED <<s2, s3, s4, s5, s6, s7, s8, s9>>
  <2>1. PermissionBecomes(s6.cursor, s6.storage, s6.editor, s6.focus) /\ s6'.model = s6.model
    BY <1>1, <1>6 DEF PermissionBecomes
  <2>2. Wiz!PermissionIInv'
    BY <1>0, <1>1, <1>3, <1>4, <1>6, <2>1, PermissionHolds
  <2>3. Wiz!ProfileIInv'
    <3>1. ~Wiz!PastProfile'
      BY <1>0, <1>6 DEF Wiz!PastProfile
    <3> QED
      BY <1>1, <1>6, <3>1, Zenon DEF Wiz!ProfileIInv, Wiz!CreatedUnderValidName, Wiz!LeftThroughLanguages
  <2>4. Wiz!MenuIInv'
    BY <1>0, <1>6 DEF Wiz!MenuIInv
  <2> QED
    BY <2>2, <2>3, <2>4 DEF Wiz!WizIInv
<1>7. ASSUME NEW quick \in BOOLEAN, NEW name \in Wiz!Texts, NEW category \in WizCategories,
             NEW size \in StorageSizes \cup {Wiz!NoSize},
             Wiz!WithFlags(quick, <<name, "ok", "ok", "">>, category, size)
      PROVE  Wiz!WizIInv'
  <2> DEFINE te == <<name, "ok", "ok", "">>
  <2>1. /\ s3' = [s3 EXCEPT !.text = te] /\ s5' = category /\ s6' = [s6 EXCEPT !.storage = size] /\ s9' = size
        /\ s7' \in {"", "bad"} /\ UNCHANGED <<s4, s8>> /\ (quick => te = <<"ok", "ok", "ok", "">>)
    BY <1>7 DEF Wiz!WithFlags
  <2>2. (quick /\ s1' = "quick" /\ s2' = "create") \/ (~quick /\ s1' = "flags" /\ s2' = "profile")
    BY <1>7 DEF Wiz!WithFlags
  <2>3. te \in [1..4 -> Wiz!Texts] /\ te[1] = name
    <3>1. "ok" \in Wiz!Texts
      BY DEF Wiz!Texts
    <3> QED
      BY <1>4, <3>1, FourTexts
  <2>4. quick => te[1] = "ok"
    BY <2>1
  <2> HIDE DEF te
  <2>5. ProfileBecomes(s3.cursor, s3.section, te, s3.i18n, s3.chosen)
    BY <1>1, <2>1, <2>3, ProfileMoves
  <2>6. Wiz!ProfileIInv'
    <3>1. /\ s3'.cursor = 0 /\ ~s3'.section /\ ~s3'.i18n /\ s3'.chosen = {} /\ s3'.text = te
          /\ s3' \in Wiz!ProfileShape
      BY <1>2, <2>5, Zenon DEF ProfileBecomes
    <3>2. ~(s3'.section \/ s3'.cursor > 0)
      BY <3>1
    <3>3. s3'.cursor \in 0..(IF s3'.section THEN Len(ReadmeLanguages) ELSE 4)
      BY <3>1
    <3>4. Wiz!CreatedUnderValidName' /\ Wiz!LeftThroughLanguages'
      <4>1. CASE quick
        BY <2>2, <2>4, <3>1, <4>1 DEF Wiz!CreatedUnderValidName, Wiz!LeftThroughLanguages
      <4>2. CASE ~quick
        BY <2>2, <4>2 DEF Wiz!CreatedUnderValidName, Wiz!LeftThroughLanguages, Wiz!PastProfile
      <4> QED
        BY <4>1, <4>2
    <3> QED
      BY <3>1, <3>2, <3>3, <3>4, Zenon DEF Wiz!ProfileIInv
  <2>7. Wiz!PermissionIInv'
    BY <1>5, <2>1, <2>2
  <2>8. Wiz!MenuIInv'
    BY <1>0, <1>4, <2>1, <2>2 DEF Wiz!MenuIInv
  <2> QED
    BY <2>6, <2>7, <2>8 DEF Wiz!WizIInv
<1>8. ASSUME NEW size \in StorageSizes \cup {Wiz!NoSize}, s1' = "edit", s2' = "permission",
             s6' = [s6 EXCEPT !.storage = size], s9' = size, UNCHANGED <<s3, s5, s4, s7, s8>>
      PROVE  Wiz!WizIInv'
  <2>1. Wiz!PermissionIInv'
    BY <1>5, <1>8
  <2>2. Wiz!ProfileIInv'
    BY <1>1, <1>8, Zenon DEF Wiz!ProfileIInv, Wiz!CreatedUnderValidName, Wiz!LeftThroughLanguages
  <2>3. Wiz!MenuIInv'
    BY <1>0, <1>8 DEF Wiz!MenuIInv
  <2> QED
    BY <2>1, <2>2, <2>3 DEF Wiz!WizIInv
<1> QED
  BY <1>6, <1>7, <1>8, Zenon DEF Wiz!Start

\* The other menus, and the end of the wizard.
LEMMA WizMenus ==
  ASSUME Wiz!WizAssumption, Wiz!WizIInv,
         Wiz!CtrlC \/ Wiz!LanguageKey \/ Wiz!CategoryKey \/ Wiz!VersionKey
  PROVE  Wiz!WizIInv'
<1> USE DEF Wiz!AtMenu
<1>0. /\ Wiz!ProfileIInv /\ Wiz!PermissionIInv /\ Wiz!MenuIInv
      /\ s4 \in {0, 1} /\ s5 \in WizCategories \cup {"tool"} /\ s7 \in Wiz!Texts
  BY DEF Wiz!WizIInv, Wiz!MenuIInv
<1>1. CASE Wiz!CtrlC
  <2>1. /\ s1 # "no" /\ UNCHANGED <<s1, s3, s4, s5, s6, s7, s8, s9>> /\ s2' \in {"saved", "left"}
        /\ s2 \in {"profile", "language", "category", "permission", "version_require"}
    BY <1>1 DEF Wiz!CtrlC
  <2>2. ~Wiz!PastProfile'
    BY <2>1 DEF Wiz!PastProfile
  <2> QED
    BY <1>0, <2>1, <2>2, WizKeepProfile, WizKeepPermission, WizKeepMenu DEF Wiz!WizIInv
<1>2. CASE Wiz!LanguageKey
  <2>1. /\ s1 # "no" /\ UNCHANGED <<s1, s3, s5, s6, s7, s8, s9>> /\ s4' \in {0, 1}
        /\ s2 = "language" /\ s2' \in {"language", "category"}
    BY <1>2 DEF Wiz!LanguageKey
  <2>2. Wiz!PastProfile
    BY <2>1 DEF Wiz!PastProfile
  <2> QED
    BY <1>0, <2>1, <2>2, WizKeepProfile, WizKeepPermission, WizKeepMenu DEF Wiz!WizIInv
<1>3. CASE Wiz!CategoryKey
  <2>1. /\ s1 # "no" /\ UNCHANGED <<s1, s3, s4, s7, s8>> /\ s5' \in WizCategories \cup {"tool"}
        /\ s2 = "category" /\ s2' \in {"category", "permission"}
    BY <1>0, <1>3 DEF Wiz!CategoryKey
  <2>2. Wiz!PastProfile
    BY <2>1 DEF Wiz!PastProfile
  <2>3. Wiz!PermissionIInv'
    <3>1. CASE UNCHANGED <<s6, s9>>
      BY <1>0, <2>1, <3>1, WizKeepPermission
    <3>2. CASE /\ s6' = [s6 EXCEPT !.tool = TRUE, !.model = <<{"model.llm"}>>, !.app = FALSE,
                                   !.storage = Wiz!NoSize, !.endpoint = FALSE]
               /\ s9' = Wiz!NoSize
      <4>1. s6 \in Wiz!PermissionShape /\ s6.cursor = 1 /\ ~s6.focus
        BY <1>0, <2>1 DEF Wiz!PermissionIInv, Wiz!BeforePermission
      <4>2. <<{"model.llm"}>> \in Seq(SUBSET Wiz!Grants) /\ Len(<<{"model.llm"}>>) <= 1
        <5>1. {"model.llm"} \in SUBSET Wiz!Grants
          BY Zenon DEF Wiz!Grants
        <5> QED
          BY <5>1
      <4>3. Wiz!NoSize \in Wiz!Sizes_
        BY DEF Wiz!Sizes_
      <4>4. PermissionBecomes(s6.cursor, Wiz!NoSize, s6.editor, s6.focus) /\ s6'.model = <<{"model.llm"}>>
        BY <3>2, <4>1, <4>2, <4>3, PermissionMoves, Zenon
      <4> QED
        BY <2>1, <3>2, <4>1, <4>2, <4>3, <4>4, PermissionHolds
    <3> QED
      BY <1>3, <3>1, <3>2 DEF Wiz!CategoryKey
  <2> QED
    BY <1>0, <2>1, <2>2, <2>3, WizKeepProfile, WizKeepMenu DEF Wiz!WizIInv
<1>4. CASE Wiz!VersionKey
  <2>1. /\ s1 # "no" /\ UNCHANGED <<s1, s3, s4, s5, s6, s8, s9>> /\ s7' \in Wiz!Texts
        /\ s2 = "version_require" /\ s2' \in {"version_require", "create"}
    BY <1>0, <1>4 DEF Wiz!VersionKey
  <2>2. Wiz!PastProfile
    BY <2>1 DEF Wiz!PastProfile
  <2> QED
    BY <1>0, <2>1, <2>2, WizKeepProfile, WizKeepPermission, WizKeepMenu DEF Wiz!WizIInv
<1> QED
  BY <1>1, <1>2, <1>3, <1>4

\* createPlugin writes a file or removes the project.
LEMMA WizWrites ==
  ASSUME Wiz!WizIInv, Wiz!WriteNext \/ Wiz!WriteFails
  PROVE  Wiz!WizIInv'
<1>0. Wiz!ProfileIInv /\ Wiz!PermissionIInv /\ Wiz!MenuIInv
  BY DEF Wiz!WizIInv
<1>1. UNCHANGED <<s1, s3, s4, s5, s6, s7, s9>> /\ s2 = "create"
  BY DEF Wiz!WriteNext, Wiz!WriteFails
<1>2. s2' \in {"create", "created", "failed"} /\ (s2' = "failed" => s8' = {})
  BY <1>1 DEF Wiz!WriteNext, Wiz!WriteFails
<1>3. Wiz!PastProfile
  BY <1>1 DEF Wiz!PastProfile
<1>4. Wiz!Wanted' = Wiz!Wanted
  BY <1>1 DEF Wiz!Wanted, Wiz!ReadmeFiles
<1>5. s2' = "created" => Wiz!Wanted \subseteq s8'
  BY <1>1 DEF Wiz!WriteNext, Wiz!WriteFails
<1>6. Wiz!MenuIInv'
  <2>1. s1 # "no"
    BY <1>0, <1>1 DEF Wiz!MenuIInv
  <2> QED
    BY <1>0, <1>1, <1>2, <1>4, <1>5, <2>1 DEF Wiz!MenuIInv
<1>7. Wiz!ProfileIInv' /\ Wiz!PermissionIInv'
  BY <1>0, <1>1, <1>2, <1>3, WizKeepProfile, WizKeepPermission
<1> QED
  BY <1>6, <1>7 DEF Wiz!WizIInv

\* Every step of the wizard keeps the invariant.
LEMMA WizStep ==
  ASSUME Wiz!WizAssumption, Wiz!WizIInv, Wiz!WizNext \/ UNCHANGED Wiz!wizVars
  PROVE  Wiz!WizIInv'
<1>0. /\ Wiz!ProfileIInv /\ Wiz!PermissionIInv /\ Wiz!MenuIInv
      /\ s4 \in {0, 1} /\ s5 \in WizCategories \cup {"tool"} /\ s7 \in Wiz!Texts
  BY DEF Wiz!WizIInv, Wiz!MenuIInv
<1>1. CASE Wiz!ProfileDown \/ Wiz!ProfileUp \/ Wiz!ToggleProfile \/ Wiz!ProfileEnter \/ Wiz!TypeText
  <2>1. /\ s1 # "no" /\ UNCHANGED <<s1, s4, s5, s6, s7, s8, s9>> /\ s2 = "profile"
        /\ s2' \in {"profile", "language"}
    BY <1>1 DEF Wiz!ProfileDown, Wiz!ProfileUp, Wiz!ToggleProfile, Wiz!ProfileEnter, Wiz!TypeText,
                Wiz!OnProfile, Wiz!AtMenu, Wiz!KeepOthers
  <2> QED
    BY <1>0, <1>1, <2>1, WizProfile, WizKeepPermission, WizKeepMenu DEF Wiz!WizIInv
<1>2. CASE Wiz!PermissionMove \/ Wiz!PermissionEnter \/ Wiz!PermissionEdit \/ Wiz!TypeSize
  <2>1. /\ s1 # "no" /\ UNCHANGED <<s1, s3, s4, s5, s7, s8>> /\ s2 = "permission"
        /\ s2' \in {"permission", "saved", "version_require"}
    BY <1>2 DEF Wiz!PermissionMove, Wiz!PermissionEnter, Wiz!PermissionEdit, Wiz!TypeSize,
                Wiz!OnPermission, Wiz!AtMenu
  <2>2. Wiz!PastProfile
    BY <2>1 DEF Wiz!PastProfile
  <2> QED
    BY <1>0, <1>2, <2>1, <2>2, WizPermission, WizKeepProfile, WizKeepMenu DEF Wiz!WizIInv
<1>3. CASE UNCHANGED Wiz!wizVars
  <2>1. UNCHANGED <<s1, s2, s3, s4, s5, s6, s7, s8, s9>>
    BY <1>3 DEF Wiz!wizVars
  <2>2. Wiz!Wanted' = Wiz!Wanted /\ (Wiz!PastProfile' => Wiz!PastProfile)
    BY <2>1 DEF Wiz!Wanted, Wiz!ReadmeFiles, Wiz!PastProfile
  <2>3. Wiz!MenuIInv'
    BY <1>0, <2>1, <2>2 DEF Wiz!MenuIInv
  <2> QED
    BY <1>0, <2>1, <2>2, <2>3, WizKeepProfile, WizKeepPermission DEF Wiz!WizIInv
<1> QED
  BY <1>1, <1>2, <1>3, WizStart, WizMenus, WizWrites DEF Wiz!WizNext

\* A wizard that nobody has started.
LEMMA WizInitial == ASSUME Wiz!WizAssumption, Wiz!WizInit PROVE Wiz!WizIInv
<1>0. /\ s1 = "no" /\ s2 = "profile" /\ s3 = Wiz!NewProfile /\ s4 = 0 /\ s5 = "tool"
      /\ s6 = Wiz!NewPermission /\ s7 = "" /\ s8 = {} /\ s9 = Wiz!NoSize
  BY DEF Wiz!WizInit
<1>1. Wiz!NoSize \in Wiz!Sizes_ /\ 1 \in 1..Wiz!LastKey
  BY PermissionKeys DEF Wiz!Sizes_
<1>2. <<>> \in Seq(SUBSET Wiz!Grants) /\ Len(<<>>) <= 1
  OBVIOUS
<1>3. <<"", "", "", "">> \in [1..4 -> Wiz!Texts] /\ 0 \in Nat
  <2>1. "" \in Wiz!Texts
    BY DEF Wiz!Texts
  <2> QED
    BY <2>1, FourTexts
<1>4. /\ s3 \in Wiz!ProfileShape /\ s3.cursor = 0 /\ ~s3.section /\ ~s3.i18n /\ s3.chosen = {}
  BY <1>0, <1>3, Zenon DEF Wiz!NewProfile, Wiz!ProfileShape
<1>5. /\ s6 \in Wiz!PermissionShape /\ s6.cursor = 1 /\ s6.storage = Wiz!NoSize /\ ~s6.focus
      /\ s6.model = <<>>
  BY <1>0, <1>1, <1>2, Zenon DEF Wiz!NewPermission, Wiz!PermissionShape
<1>6. Wiz!ProfileIInv
  <2>1. ~(s3.section \/ s3.cursor > 0)
    BY <1>4
  <2>2. s3.cursor \in 0..(IF s3.section THEN Len(ReadmeLanguages) ELSE 4)
    BY <1>4
  <2>3. ~Wiz!PastProfile
    BY <1>0 DEF Wiz!PastProfile
  <2> QED
    BY <1>4, <2>1, <2>2, <2>3, Zenon
       DEF Wiz!ProfileIInv, Wiz!CreatedUnderValidName, Wiz!LeftThroughLanguages
<1>7. Wiz!PermissionIInv
  BY <1>0, <1>1, <1>2, <1>5
     DEF Wiz!PermissionIInv, Wiz!BeforePermission, Wiz!SizeKnows, Wiz!StorageSizeAsGiven
<1>8. Wiz!MenuIInv
  BY <1>0 DEF Wiz!MenuIInv, Wiz!Texts
<1> QED
  BY <1>6, <1>7, <1>8 DEF Wiz!WizIInv

\* A project is created only under a valid name and, but for a datasource, with the provider
\* file its manifest names; one that is given up or fails leaves none of its files; and in a
\* wizard started without flags the storage size is the one given last (profile.go,
\* permission.go, init.go, python.go).
THEOREM ProjectStaysComplete == ServicesSpec => []ProjectIsComplete
<1> DEFINE Inv == unit = "wizard" => Wiz!WizIInv
<1>1. ServicesInit => Inv
  BY WizInitial, ServicesAssumption DEF ServicesInit
<1>2. Inv /\ [ServicesNext]_servicesVars => Inv'
  <2> SUFFICES ASSUME Inv, [ServicesNext]_servicesVars, unit' = "wizard" PROVE Wiz!WizIInv'
    OBVIOUS
  <2>1. unit = "wizard" /\ Wiz!WizIInv
    BY DEF ServicesNext, servicesVars
  <2>2. Wiz!WizNext \/ UNCHANGED Wiz!wizVars
    BY <2>1 DEF ServicesNext, servicesVars, unitVars, Wiz!wizVars
  <2> QED
    BY <2>1, <2>2, WizStep, ServicesAssumption
<1>3. Inv => ProjectIsComplete
  <2> SUFFICES ASSUME unit = "wizard", Wiz!WizIInv
               PROVE  /\ Wiz!WizTypeOK /\ Wiz!CreatedUnderValidName /\ Wiz!LeftThroughLanguages
                      /\ Wiz!CreatedHasProvider /\ Wiz!UnfinishedLeavesNothing /\ Wiz!StorageSizeAsGiven
    BY DEF ProjectIsComplete
  <2>0. Wiz!WizAssumption
    BY ServicesAssumption
  <2>1. Wiz!WizTypeOK
    <3>1. /\ s3.section \in BOOLEAN /\ s3.text \in [1..4 -> Wiz!Texts]
          /\ s3.i18n \in BOOLEAN /\ s3.chosen \in SUBSET Wiz!ToSet(ReadmeLanguages)
      BY ProfileFields DEF Wiz!WizIInv, Wiz!ProfileIInv
    <3>2. s6.cursor \in 1..Wiz!LastKey /\ s6.storage \in StorageSizes \cup {0, Wiz!DefaultSize, Wiz!NoSize}
      BY PermissionFields DEF Wiz!WizIInv, Wiz!PermissionIInv, Wiz!Sizes_
    <3>3. {s3.section, s3.i18n} \subseteq BOOLEAN /\ s3.chosen \subseteq Wiz!ToSet(ReadmeLanguages)
      BY <3>1, Zenon
    <3> QED
      BY <3>1, <3>2, <3>3, Zenon
         DEF Wiz!WizTypeOK, Wiz!WizIInv, Wiz!ProfileIInv, Wiz!PermissionIInv, Wiz!MenuIInv
  <2>2. Wiz!CreatedUnderValidName /\ Wiz!LeftThroughLanguages /\ Wiz!StorageSizeAsGiven
    BY DEF Wiz!WizIInv, Wiz!ProfileIInv, Wiz!PermissionIInv
  <2>3. Wiz!CreatedHasProvider
    <3> SUFFICES ASSUME s2 = "created", s5 # "datasource" PROVE Wiz!ManifestNames(s5) \in s8
      BY DEF Wiz!CreatedHasProvider
    <3>1. Wiz!Wanted \subseteq s8 /\ s5 \in WizCategories \cup {"tool"}
      BY DEF Wiz!WizIInv, Wiz!MenuIInv
    <3>2. s5 \in Wiz!AllCategories
      BY <2>0, <3>1, Zenon DEF Wiz!WizAssumption, Wiz!AllCategories
    <3>3. Wiz!ManifestNames(s5) \in Wiz!ToSet(Wiz!PythonFiles(s5))
      BY <3>2, ProviderIsWritten
    <3> QED
      BY <3>1, <3>3, Zenon DEF Wiz!Wanted
  <2>4. Wiz!UnfinishedLeavesNothing
    BY DEF Wiz!WizIInv, Wiz!MenuIInv, Wiz!UnfinishedLeavesNothing
  <2> QED
    BY <2>1, <2>2, <2>3, <2>4
<1> QED
  BY <1>1, <1>2, <1>3, PTL DEF ServicesSpec

===============================================================================
