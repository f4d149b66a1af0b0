--------------------------- MODULE ServerlessCall ---------------------------
(***************************************************************************)
(* An embedding or token-count request to a plugin that runs as a          *)
(* serverless function.  The daemon splits the texts into batches that     *)
(* fit the request limit (io_tunnel/model_serverless_batch.go), invokes    *)
(* the function once per batch, one batch after the other, all under one   *)
(* session id (serverless_runtime/io.go), and merges the answers.          *)
(*                                                                         *)
(* Every batch has a listener, a response stream and a goroutine that      *)
(* talks HTTP; they are all named by the index of the batch.  A text is    *)
(* its size in bytes and an answer names the texts it is about by index.   *)
(***************************************************************************)
EXTENDS Integers, Sequences, FiniteSets, FiniteSetsExt

CONSTANTS
  MaxTexts,     \* bound: texts of a request
  TextBytes,    \* sizes of a text, encoded
  EmptyBytes,   \* size of the request without texts
  MaxRequestBytes,
  MaxRetryTimes,
  MaxLines,     \* bound: lines of the body of an answer
  Models        \* models a function may answer from

\* What is assumed of the constants.
CallAssumption ==
  /\ {MaxTexts, EmptyBytes, MaxRequestBytes, MaxLines} \cup TextBytes \subseteq Nat
  /\ MaxRetryTimes \in Nat \ {0} /\ Models # {}

VARIABLES
  texts,      \* sizes of the texts, encoded
  kind,       \* "embedding" or "tokens"
  plan,       \* splitTextRequest: the batches so far, the texts seen and those batched,
              \* the estimated size of the batch under way, and its error
  co,         \* the coordinating goroutine: pc, batch, merged answers, their models
  client,     \* the stream the caller reads: data, state, and the recorded outcome
  canceled,   \* the context of the request is done
  listeners,  \* the listener stored under the session id, 0 when there is none
  lis,        \* lis[i]: the listener of batch i
  resp,       \* resp[i]: the response stream of batch i
  gor         \* gor[i]: the goroutine of WriteContext

callVars == <<texts, kind, plan, co, client, canceled, listeners, lis, resp, gor>>

------------------------------------------------------------------------------
(* splitTextRequest *)

\* The bytes of the texts first+1 .. last.
TextsBytes(ts, first, last) == UNION {{k} \X (1..ts[k]) : k \in first + 1..last}

\* The length of the message session.Message builds for these texts: commas separate them.
PayloadBytes(ts, first, last) ==
  EmptyBytes + Cardinality(TextsBytes(ts, first, last))
    + (IF last > first THEN last - first - 1 ELSE 0)

Batch(first, last) == [itemOffset |-> first, itemCount |-> last - first]

------------------------------------------------------------------------------
(* State *)

BatchIds == 1..MaxTexts
NoListener == [st |-> "none", by |-> "none"]
NewResponse == [q |-> <<>>, st |-> "open", err |-> "no", hook |-> "no", by |-> "none"]
NoGoroutine == [pc |-> "none", tries |-> 0, sendEnd |-> "yes", heard |-> "no",
                lines |-> 0, held |-> <<>>]

CallInit ==
  /\ texts \in UNION {[1..n -> TextBytes] : n \in 0..MaxTexts}
  /\ kind \in {"embedding", "tokens"}
  /\ plan = [batches |-> <<>>, seen |-> 0, start |-> 0, estimated |-> EmptyBytes, err |-> "none"]
  /\ co = [pc |-> "split", i |-> 1, merged |-> <<>>, models |-> {}]
  /\ client = [data |-> <<>>, st |-> "open", err |-> "no", outcome |-> "canceled",
               recorded |-> "no"]
  /\ canceled = FALSE /\ listeners = 0
  /\ lis = [i \in BatchIds |-> NoListener]
  /\ resp = [i \in BatchIds |-> NewResponse]
  /\ gor = [i \in BatchIds |-> NoGoroutine]

At_(pc) == co.pc = pc
CoGoes(pc) == co' = [co EXCEPT !.pc = pc]
GorGoes(i, pc) == gor' = [gor EXCEPT ![i].pc = pc]
Items(b) == [j \in 1..b.itemCount |-> b.itemOffset + j]

\* Mutant: a listener is removed whichever listener is stored.
DeleteIf_Any(i) == 0

\* Map.DeleteIf: the entry is removed only if it still is this listener.
DeleteIf(i) == IF listeners = i THEN 0 ELSE listeners

\* Stream.close of a response, its effect up to the callbacks.
Closing(i, err, by) ==
  IF resp[i].st = "open"
  THEN [resp EXCEPT ![i].st = "closing", ![i].err = err, ![i].by = by] ELSE resp

\* Broadcast.Close: only the first one runs the callback.
ListenerClosing(i, by) ==
  IF lis[i].st = "open" THEN [lis EXCEPT ![i] = [st |-> "closing", by |-> by]] ELSE lis

\* The coordinator marks the outcome and closes the stream of the caller: the hooks record
\* the outcome and cancel the context.  A stream that the caller is closing is left to it,
\* but the mark may still be read by its hooks.
CloseClient(err, outcome) ==
  \/ /\ client.st = "open"
     /\ client' = [client EXCEPT !.st = "closed", !.err = err, !.outcome = outcome,
                                 !.recorded = outcome]
     /\ canceled' = TRUE
  \/ /\ client.st = "leaving"
     /\ client' = [client EXCEPT !.outcome = outcome]
     /\ UNCHANGED canceled
  \/ client.st = "closed" /\ UNCHANGED <<client, canceled>>

------------------------------------------------------------------------------
(* The coordinator: processServerlessBatches and invokePluginOnce *)

\* splitTextRequest returns an error.
Refuse(err) == plan' = [plan EXCEPT !.err = err] /\ CoGoes("refused")

\* The request without texts has to fit.
SplitStart ==
  /\ At_("split")
  /\ IF EmptyBytes > MaxRequestBytes THEN Refuse("too large")
     ELSE CoGoes("plan") /\ UNCHANGED plan
  /\ UNCHANGED <<texts, kind, client, canceled, listeners, lis, resp, gor>>

\* Why the batch of the texts since start, or the first text after them, cannot be sent.
Unfit(alone) ==
  IF plan.seen = plan.start THEN "too large"
  ELSE IF PayloadBytes(texts, plan.start, plan.seen) > MaxRequestBytes THEN "mismatch"
  ELSE IF alone > MaxRequestBytes THEN "too large"
  ELSE "none"

\* One round of the loop over the texts.
SplitText ==
  LET i == plan.seen + 1
      next == plan.estimated + texts[i] + (IF plan.seen > plan.start THEN 1 ELSE 0)
      alone == EmptyBytes + texts[i]
  IN /\ At_("plan") /\ plan.seen < Len(texts)
     /\ \/ /\ next <= MaxRequestBytes
           /\ plan' = [plan EXCEPT !.seen = i, !.estimated = next] /\ UNCHANGED co
        \/ next > MaxRequestBytes /\ Unfit(alone) # "none" /\ Refuse(Unfit(alone))
        \/ /\ next > MaxRequestBytes /\ Unfit(alone) = "none"
           /\ plan' = [plan EXCEPT !.batches = Append(@, Batch(plan.start, plan.seen)),
                                   !.start = plan.seen, !.seen = i, !.estimated = alone]
           /\ UNCHANGED co
     /\ UNCHANGED <<texts, kind, client, canceled, listeners, lis, resp, gor>>

\* The last batch.  One batch or none is sent as it is, by GenericInvokePlugin.
SplitEnd ==
  /\ At_("plan") /\ plan.seen = Len(texts)
  /\ IF plan.start < plan.seen /\ PayloadBytes(texts, plan.start, plan.seen) > MaxRequestBytes
     THEN Refuse("mismatch")
     ELSE /\ plan' = IF plan.start < plan.seen
                     THEN [plan EXCEPT !.batches = Append(@, Batch(plan.start, plan.seen)),
                                       !.start = plan.seen]
                     ELSE plan
          /\ CoGoes(IF Len(plan'.batches) <= 1 THEN "single" ELSE "batch")
  /\ UNCHANGED <<texts, kind, client, canceled, listeners, lis, resp, gor>>

\* closeServerlessBatchResponse
FailCall(pc) ==
  /\ CoGoes(pc)
  /\ CloseClient("yes", IF canceled THEN client.outcome ELSE "error")

\* runtime.Listen and listener.Listen(onChunk), unless the context is done.
BatchListen ==
  /\ At_("batch")
  /\ \/ /\ canceled /\ FailCall("ended") /\ UNCHANGED <<listeners, lis>>
     \/ /\ ~canceled
        /\ listeners' = co.i /\ lis' = [lis EXCEPT ![co.i].st = "open"]
        /\ CoGoes("write") /\ UNCHANGED <<client, canceled>>
  /\ UNCHANGED <<texts, kind, plan, resp, gor>>

\* session.WriteContext starts the goroutine, which loads the listener.  An address that
\* cannot be joined, or a request above the limit, removes the listener and fails.
BatchWrite ==
  /\ At_("write")
  /\ \/ /\ ~canceled /\ listeners = co.i
        /\ CoGoes("hook") /\ GorGoes(co.i, "activate")
        /\ UNCHANGED <<client, canceled, listeners, lis, resp>>
     \/ /\ \/ (canceled \/ listeners # co.i) /\ UNCHANGED listeners
           \/ ~canceled /\ listeners = co.i /\ listeners' = DeleteIf(co.i)
        /\ lis' = ListenerClosing(co.i, "co")
        /\ resp' = Closing(co.i, "no", "co")
        /\ FailCall("ended") /\ UNCHANGED gor
  /\ UNCHANGED <<texts, kind, plan>>

\* response.OnClose(closeListener): on a closed stream the callback runs at once.
BatchHook ==
  /\ At_("hook")
  /\ \/ /\ resp[co.i].st # "closed"
        /\ resp' = [resp EXCEPT ![co.i].hook = "yes"] /\ UNCHANGED lis
     \/ /\ resp[co.i].st = "closed"
        /\ lis' = ListenerClosing(co.i, "co") /\ UNCHANGED resp
  /\ CoGoes("read")
  /\ UNCHANGED <<texts, kind, plan, client, canceled, listeners, gor>>

\* consume: one answer of the batch, with as many results as texts and, for embeddings,
\* complete usage and the model (also price and currency) of the answers before it.
Consumed(rs) ==
  /\ Len(rs) = 1 /\ Len(rs[1].items) = plan.batches[co.i].itemCount
  /\ kind = "embedding" => rs[1].usage = "yes" /\ co.models \subseteq {rs[1].model}

\* readPluginBatch reads until the stream ends, an error is read or the context is done.
BatchRead ==
  LET r == resp[co.i]
  IN /\ At_("read") /\ r.st = "closed"
     /\ ~(lis[co.i].st = "closing" /\ lis[co.i].by = "co")
     /\ \/ r.err = "yes" /\ FailCall("ended")
        \/ r.err = "no" /\ canceled /\ FailCall("ended")
        \/ r.err = "no" /\ ~canceled /\ ~Consumed(r.q) /\ FailCall("ended")
        \/ /\ r.err = "no" /\ ~canceled /\ Consumed(r.q)
           /\ co' = [co EXCEPT !.merged = @ \o r.q[1].items, !.models = @ \cup {r.q[1].model},
                               !.i = co.i + 1,
                               !.pc = IF co.i = Len(plan.batches) THEN "write result"
                                      ELSE "batch"]
           /\ UNCHANGED <<client, canceled>>
     /\ resp' = [resp EXCEPT ![co.i].q = <<>>]
     /\ UNCHANGED <<texts, kind, plan, listeners, lis, gor>>

\* The count of all results is compared once more, then WriteBlocking into the empty
\* buffer, dropped when the caller has closed the stream.
WriteResult ==
  /\ At_("write result")
  /\ \/ Len(co.merged) # Len(texts) /\ FailCall("ended")
     \/ /\ Len(co.merged) = Len(texts)
        /\ client' = IF client.st = "open" THEN [client EXCEPT !.data = co.merged] ELSE client
        /\ CoGoes("close") /\ UNCHANGED canceled
  /\ UNCHANGED <<texts, kind, plan, listeners, lis, resp, gor>>

CloseResult ==
  /\ At_("close") /\ CoGoes("ended")
  /\ CloseClient("no", IF canceled THEN client.outcome ELSE "success")
  /\ UNCHANGED <<texts, kind, plan, listeners, lis, resp, gor>>

\* The caller begins to close the stream, or the request is canceled.
ClientLeaves ==
  /\ co.pc \notin {"split", "plan", "refused", "single"} /\ ~canceled
  /\ \/ /\ client.st = "open"
        /\ client' = [client EXCEPT !.st = "leaving", !.err = "left"] /\ UNCHANGED canceled
     \/ canceled' = TRUE /\ UNCHANGED client
  /\ UNCHANGED <<texts, kind, plan, co, listeners, lis, resp, gor>>

\* Its close hooks cancel the context and record the outcome as it is marked by now.
ClientGone ==
  /\ client.st = "leaving"
  /\ client' = [client EXCEPT !.st = "closed", !.recorded = client.outcome]
  /\ canceled' = TRUE
  /\ UNCHANGED <<texts, kind, plan, co, listeners, lis, resp, gor>>

------------------------------------------------------------------------------
(* The response stream and the listener of a batch *)

\* context.AfterFunc(ctx, response.Close)
CloseOnCancel(i) ==
  /\ canceled /\ lis[i].st # "none" /\ resp[i].st = "open"
  /\ resp' = Closing(i, "no", "cancel")
  /\ UNCHANGED <<texts, kind, plan, co, client, canceled, listeners, lis, gor>>

\* The callbacks run, then the stream is closed.
ResponseCallbacks(i) ==
  /\ resp[i].st = "closing"
  /\ \/ /\ resp[i].hook = "yes"
        /\ resp' = [resp EXCEPT ![i].hook = "ran"] /\ lis' = ListenerClosing(i, "resp")
     \/ /\ resp[i].hook # "yes" /\ ~(lis[i].st = "closing" /\ lis[i].by = "resp")
        /\ resp' = [resp EXCEPT ![i].st = "closed"] /\ UNCHANGED lis
  /\ UNCHANGED <<texts, kind, plan, co, client, canceled, listeners, gor>>

\* The callback of the listener.
ListenerCallback(i) ==
  /\ lis[i].st = "closing"
  /\ listeners' = DeleteIf(i) /\ lis' = [lis EXCEPT ![i].st = "closed"]
  /\ UNCHANGED <<texts, kind, plan, co, client, canceled, resp, gor>>

------------------------------------------------------------------------------
(* The goroutine of WriteContext *)

\* sendError: the listener's onChunk closes the response with an error.
SendError(i) ==
  /\ resp' = Closing(i, "yes", "gor")
  /\ gor' = [gor EXCEPT ![i].pc = "delete", ![i].sendEnd = "no"]

\* A step that fails is reported, unless the request is canceled.
StepFails(i) ==
  \/ ~canceled /\ SendError(i)
  \/ canceled /\ gor' = [gor EXCEPT ![i].pc = "delete", ![i].sendEnd = "no"] /\ UNCHANGED resp

\* The activation preflight, also refused by a context that is done.
ActivatePlugin(i) ==
  /\ gor[i].pc = "activate"
  /\ \/ ~canceled /\ GorGoes(i, "invoke") /\ UNCHANGED resp
     \/ StepFails(i)
  /\ UNCHANGED <<texts, kind, plan, co, client, canceled, listeners, lis>>

\* invokeServerlessWithRetry: 502 and transport errors are tried again, anything else
\* that is no success is an answer with an error.
InvokeServerless(i) ==
  /\ gor[i].pc = "invoke"
  /\ \/ ~canceled /\ GorGoes(i, "scan") /\ UNCHANGED resp
     \/ ~canceled /\ SendError(i)
     \/ /\ ~canceled /\ gor[i].tries + 1 < MaxRetryTimes
        /\ gor' = [gor EXCEPT ![i].tries = @ + 1] /\ UNCHANGED resp
     \/ gor[i].tries + 1 = MaxRetryTimes /\ StepFails(i)
     \/ canceled /\ StepFails(i)
  /\ UNCHANGED <<texts, kind, plan, co, client, canceled, listeners, lis>>

\* What a stream message may hold: all results of the batch from some model, fewer, or
\* all without the usage.
Answers(i) ==
  LET all == Items(plan.batches[i])
      m == CHOOSE m \in Models : TRUE
  IN {[items |-> all, model |-> x, usage |-> "yes"] : x \in Models}
     \cup {[items |-> SubSeq(all, 2, Len(all)), model |-> m, usage |-> "yes"],
           [items |-> all, model |-> m, usage |-> "no"]}

\* A line of the body.  A session message other than END goes to the listener: an answer
\* waits for space in the response, a malformed one or an ERROR closes it (an ERROR that
\* cannot be parsed does not), and scanning goes on.
ScanLine(i) ==
  /\ gor[i].pc = "scan" /\ gor[i].lines < MaxLines
  /\ LET heard == [gor[i] EXCEPT !.lines = @ + 1, !.heard = "yes"]
     IN \/ \E a \in Answers(i) :
             gor' = [gor EXCEPT ![i] = [heard EXCEPT !.pc = "chunk", !.held = <<a>>]]
             /\ UNCHANGED resp
        \/ gor' = [gor EXCEPT ![i] = heard] /\ resp' = Closing(i, "yes", "gor")
        \/ gor' = [gor EXCEPT ![i] = heard] /\ UNCHANGED resp
        \/ gor' = [gor EXCEPT ![i].lines = @ + 1] /\ UNCHANGED resp
        \/ gor' = [gor EXCEPT ![i] = [heard EXCEPT !.pc = "delete"]] /\ UNCHANGED resp
        \/ SendError(i)
  /\ UNCHANGED <<texts, kind, plan, co, client, canceled, listeners, lis>>

\* Stream.WriteBlocking on a buffer of one.  The coordinator reads as soon as it can: an
\* answer that fills the buffer is taken before the next one.
WriteChunk(i) ==
  /\ gor[i].pc = "chunk"
  /\ resp' = IF resp[i].st = "open" THEN [resp EXCEPT ![i].q = @ \o gor[i].held] ELSE resp
  /\ gor' = [gor EXCEPT ![i].pc = "scan", ![i].held = <<>>]
  /\ UNCHANGED <<texts, kind, plan, co, client, canceled, listeners, lis>>

\* The body ends: without any session message that is an error.  Or reading it fails.
ScanEnds(i) ==
  /\ gor[i].pc = "scan"
  /\ \/ gor[i].heard = "yes" /\ GorGoes(i, "delete") /\ UNCHANGED resp
     \/ gor[i].heard = "no" /\ SendError(i)
     \/ StepFails(i)
  /\ UNCHANGED <<texts, kind, plan, co, client, canceled, listeners, lis>>

\* The deferred function, after a close of the response by this goroutine is over.
GorWaits(i) == resp[i].st = "closing" /\ resp[i].by = "gor"

DeleteListener(i) ==
  /\ gor[i].pc = "delete" /\ ~GorWaits(i)
  /\ listeners' = DeleteIf(i) /\ GorGoes(i, IF gor[i].sendEnd = "yes" THEN "end" ELSE "close")
  /\ UNCHANGED <<texts, kind, plan, co, client, canceled, lis, resp>>

SendEnd(i) ==
  /\ gor[i].pc = "end"
  /\ resp' = Closing(i, "no", "gor") /\ GorGoes(i, "close")
  /\ UNCHANGED <<texts, kind, plan, co, client, canceled, listeners, lis>>

CloseListener(i) ==
  /\ gor[i].pc = "close" /\ ~GorWaits(i)
  /\ lis' = ListenerClosing(i, "gor") /\ gor' = [gor EXCEPT ![i] = [NoGoroutine EXCEPT !.pc = "gone"]]
  /\ UNCHANGED <<texts, kind, plan, co, client, canceled, listeners, resp>>

Settled ==
  /\ co.pc \in {"refused", "single", "ended"}
  /\ \A i \in BatchIds : /\ gor[i].pc \in {"none", "gone"} /\ lis[i].st \in {"none", "closed"}
                         /\ resp[i].st = "closed" \/ lis[i].st = "none"

\* A request that is over stays so.
CallOver == Settled /\ UNCHANGED callVars

CallNext ==
  \/ SplitStart \/ SplitText \/ SplitEnd \/ BatchListen \/ BatchWrite \/ BatchHook \/ BatchRead \/ WriteResult
  \/ CloseResult \/ ClientLeaves \/ ClientGone \/ CallOver
  \/ \E i \in BatchIds :
       \/ CloseOnCancel(i) \/ ResponseCallbacks(i) \/ ListenerCallback(i)
       \/ ActivatePlugin(i) \/ InvokeServerless(i) \/ ScanLine(i) \/ WriteChunk(i)
       \/ ScanEnds(i) \/ DeleteListener(i) \/ SendEnd(i) \/ CloseListener(i)

CallSpec == CallInit /\ [][CallNext]_callVars

------------------------------------------------------------------------------
(* Properties *)

\* Types; no batch is invoked more often than configured.
CallTypeOK ==
  /\ texts \in Seq(TextBytes) /\ kind \in {"embedding", "tokens"}
  /\ plan.err \in {"none", "too large", "mismatch"} /\ Len(plan.batches) <= Len(texts)
  /\ co.i \in 1..MaxTexts + 1 /\ Len(co.merged) <= Len(texts)
  /\ client.recorded \in {"no", "success", "error", "canceled"}
  /\ canceled \in BOOLEAN /\ listeners \in 0..MaxTexts
  /\ \A i \in BatchIds : /\ lis[i].st \in {"none", "open", "closing", "closed"}
                         /\ resp[i].st \in {"open", "closing", "closed"}
                         /\ gor[i].tries < MaxRetryTimes /\ gor[i].lines <= MaxLines

Fits(ts, first, last) == PayloadBytes(ts, first, last) <= MaxRequestBytes

\* Where the texts may be cut into requests of consecutive texts that fit.
Cuts(ts) ==
  {C \in SUBSET (0..Len(ts)) :
     /\ {0, Len(ts)} \subseteq C
     /\ \A a, b \in C : (a < b /\ \A c \in C : ~(a < c /\ c < b)) => Fits(ts, a, b)}

FewestBatches(ts) == Min({Cardinality(C) - 1 : C \in Cuts(ts)})

End(b) == b.itemOffset + b.itemCount

\* splitTextRequest finds batches exactly when every text fits on its own; they cover the
\* texts in order, every one fits the limit, and there is no plan with fewer of them.
PlanIsOptimal ==
  co.pc \notin {"split", "plan"} =>
    LET b == plan.batches
    IN IF plan.err = "none"
       THEN /\ \A k \in DOMAIN b : /\ Fits(texts, b[k].itemOffset, End(b[k])) /\ b[k].itemCount > 0
                                   /\ b[k].itemOffset = IF k = 1 THEN 0 ELSE End(b[k - 1])
            /\ Len(texts) = IF b = <<>> THEN 0 ELSE End(b[Len(b)])
            /\ Len(b) = FewestBatches(texts)
       ELSE ~Fits(texts, 0, 0) \/ \E k \in 1..Len(texts) : ~Fits(texts, k - 1, k)

\* What the caller reads is the result of every text, in order and, for embeddings, of one
\* model; a stream that ends without an error and without the caller's leave has it all,
\* and no success is recorded for less, unless the caller was closing the stream itself.
MergedInOrder ==
  /\ kind = "embedding" => Cardinality(co.models) <= 1
  /\ client.data \in {<<>>, [k \in 1..Len(texts) |-> k]}
  /\ client.recorded = "success" /\ client.err # "left" => Len(client.data) = Len(texts)
  /\ client.recorded = "error" => client.err # "no"

\* Batches share the session id, and the close of an earlier batch may run late: it never
\* takes the listener of the batch that is under way, so its answers are heard.
ListenerSurvives ==
  /\ At_("write") => listeners = co.i
  /\ \A i \in BatchIds :
       gor[i].pc \in {"activate", "invoke", "scan", "chunk"} /\ resp[i].st = "open"
         => listeners = i

------------------------------------------------------------------------------
(* The inductive invariant *)

CallPCs == {"split", "plan", "refused", "single", "batch", "write", "hook", "read",
            "write result", "close", "ended"}
GorPCs == {"none", "activate", "invoke", "scan", "chunk", "delete", "end", "close", "gone"}
YesNo == {"no", "yes"}
AnswerShape == [items : Seq(Nat), model : Models, usage : YesNo]
BatchShape == [itemOffset : Nat, itemCount : Nat]
PlanShape == [batches : Seq(BatchShape), seen : Nat, start : Nat, estimated : Nat,
              err : {"none", "too large", "mismatch"}]
CoShape == [pc : CallPCs, i : 1..MaxTexts + 1, merged : Seq(Nat), models : SUBSET Models]
ClientShape == [data : Seq(Nat), st : {"open", "leaving", "closed"}, err : {"no", "yes", "left"},
                outcome : {"success", "error", "canceled"},
                recorded : {"no", "success", "error", "canceled"}]
LisShape == [st : {"none", "open", "closing", "closed"}, by : {"none", "co", "resp", "gor"}]
RespShape == [q : Seq(AnswerShape), st : {"open", "closing", "closed"}, err : YesNo,
              hook : {"no", "yes", "ran"}, by : {"none", "co", "cancel", "gor"}]
GorShape == [pc : GorPCs, tries : Nat, sendEnd : YesNo, heard : YesNo, lines : Nat,
             held : Seq(AnswerShape)]

CallShape ==
  /\ texts \in Seq(TextBytes) /\ Len(texts) <= MaxTexts /\ kind \in {"embedding", "tokens"}
  /\ plan \in PlanShape /\ co \in CoShape /\ client \in ClientShape
  /\ canceled \in BOOLEAN /\ listeners \in 0..MaxTexts
  /\ lis \in [BatchIds -> LisShape] /\ resp \in [BatchIds -> RespShape]
  /\ gor \in [BatchIds -> GorShape]

\* Batches b cover the first n texts in order, and every one fits.
Covers(ts, b, n) ==
  /\ \A k \in DOMAIN b :
       /\ b[k].itemCount > 0 /\ k <= End(b[k]) /\ End(b[k]) <= n
       /\ Fits(ts, b[k].itemOffset, End(b[k]))
       /\ b[k].itemOffset = IF k = 1 THEN 0 ELSE End(b[k - 1])
       /\ \A j \in DOMAIN b : j < k => End(b[j]) < End(b[k])
  /\ n = IF b = <<>> THEN 0 ELSE End(b[Len(b)])

\* No way to cut the texts needs fewer requests for the first n texts than b.
NoneFewer(ts, b, n) == \A C \in Cuts(ts) : Len(b) <= Cardinality(C \cap (1..n))

\* The loop of splitTextRequest: the estimate is exact.
PlanKnows ==
  /\ Len(plan.batches) <= Len(texts)
  /\ co.pc = "split" =>
       plan = [batches |-> <<>>, seen |-> 0, start |-> 0, estimated |-> EmptyBytes, err |-> "none"]
  /\ co.pc = "plan" =>
       /\ plan.err = "none" /\ plan.seen <= Len(texts)
       /\ plan.start < plan.seen \/ (plan.start = 0 /\ plan.seen = 0)
       /\ plan.estimated = PayloadBytes(texts, plan.start, plan.seen)
       /\ plan.estimated <= MaxRequestBytes
       /\ Covers(texts, plan.batches, plan.start)
       /\ NoneFewer(texts, plan.batches, plan.start)
  /\ co.pc = "refused" => plan.err # "none"
  /\ co.pc \notin {"split", "plan", "refused"} =>
       plan.err = "none" /\ Covers(texts, plan.batches, Len(texts))

Upto_(n) == [k \in 1..n |-> k]

\* How far the coordinator has got, and what it has merged.
CoKnows ==
  /\ co.pc \in {"split", "plan", "refused", "single"} => co.i = 1 /\ co.merged = <<>> /\ listeners = 0
  /\ co.pc \in {"batch", "write", "hook", "read"} =>
       co.i <= Len(plan.batches) /\ co.merged = Upto_(plan.batches[co.i].itemOffset)
  /\ co.pc \in {"write result", "close"} => co.merged = Upto_(Len(texts))
  /\ Len(co.merged) <= Len(texts)
  /\ kind = "embedding" => Cardinality(co.models) <= 1

ClientKnows ==
  /\ client.st = "open" => client.outcome = "canceled"
  /\ client.st # "closed" => client.recorded = "no"
  /\ client.st = "leaving" => client.err = "left"
  /\ client.data \in {<<>>, Upto_(Len(texts))}
  /\ co.pc = "close" /\ client.st = "open" => client.data = Upto_(Len(texts))
  /\ client.recorded = "success" => client.err = "left" \/ client.data = Upto_(Len(texts))
  /\ client.recorded = "error" => client.err # "no"

Fresh(i) == lis[i] = NoListener /\ resp[i] = NewResponse /\ gor[i] = NoGoroutine

\* Every answer of q with as many results as batch b has texts has the results of these texts.
Whole(b, q) ==
  \A n \in DOMAIN q : Len(q[n].items) = b.itemCount => q[n].items = Items(b)

\* Where batch i is: later ones have not begun, the responses of earlier ones are closed,
\* and the one under way has its listener stored.
BatchKnows(i) ==
  /\ i > co.i => Fresh(i)
  /\ i = co.i /\ co.pc \in {"split", "plan", "refused", "single", "batch"} => Fresh(i)
  /\ i < co.i => resp[i].st = "closed"
  /\ i = co.i /\ co.pc = "write" =>
       lis[i].st = "open" /\ gor[i].pc = "none" /\ resp[i].hook = "no" /\ listeners = i
  /\ gor[i].pc \in {"activate", "invoke", "scan", "chunk"} /\ resp[i].st = "open" =>
       listeners = i /\ lis[i].st = "open"
  /\ gor[i].pc # "none" => i \in DOMAIN plan.batches
  /\ Whole(plan.batches[i], resp[i].q) /\ Whole(plan.batches[i], gor[i].held)
  /\ gor[i].tries < MaxRetryTimes /\ gor[i].lines <= MaxLines

CallIInv ==
  /\ CallShape /\ PlanKnows /\ PlanIsOptimal /\ CoKnows /\ ClientKnows
  /\ \A i \in BatchIds : BatchKnows(i)
=============================================================================
