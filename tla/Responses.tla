----------------------------- MODULE Responses -----------------------------
(***************************************************************************)
(* How the answer of a plugin reaches the HTTP client: as server-sent      *)
(* events (baseSSEService and baseSSEWithSession, service/base_sse.go) or  *)
(* as the body of an endpoint's response (writeEndpointResponse,           *)
(* service/endpoint.go).                                                   *)
(*                                                                         *)
(* Both read the plugin's stream in a goroutine of their own while the     *)
(* handler waits for it, for the client to leave and for a deadline.  A    *)
(* chunk is its number; a behaviour is one request of one of the services. *)
(***************************************************************************)
EXTENDS Integers, Sequences, SequencesExt

CONSTANT MaxAnswers   \* bound: chunks a plugin answers with

\* What is assumed of the constants.
AnswersAssumption == MaxAnswers \in Nat

VARIABLES
  svc,      \* the service: "sse" or "endpoint"
  answer,   \* the plugin's stream: chunks sent and read, its end, closed by the handler
  handler,  \* where the handler is
  reader,   \* the reading goroutine and the chunk it holds
  net,      \* the connection: what was written, is the client there
  flags,    \* closed, connected and the deadline
  gauge,    \* the metric plugin_invocations_active
  outcomes  \* completions recorded in the metrics

respVars == <<svc, answer, handler, reader, net, flags, gauge, outcomes>>

RespInit ==
  /\ svc \in {"sse", "endpoint"}
  /\ answer = [sent |-> 0, read |-> 0, end |-> "no", closed |-> FALSE]
  /\ handler = IF svc = "sse" THEN "generate" ELSE "select"
  /\ reader = [pc |-> IF svc = "sse" THEN "none" ELSE "next", held |-> 0, status |-> "success"]
  /\ net = [body |-> <<>>, there |-> TRUE, late |-> 0, result |-> "none"]
  /\ flags = [closed |-> FALSE, done |-> FALSE, connected |-> TRUE, deadline |-> FALSE]
  /\ gauge = 0 /\ outcomes = {}

Sse == svc = "sse"
Endpoint_ == svc = "endpoint"
ReaderGoes(pc) == reader' = [reader EXCEPT !.pc = pc]

\* The plugin: 0 in place of a chunk is an error at the end of the stream.
PluginAnswers ==
  /\ answer.end = "no" /\ ~answer.closed
  /\ \/ answer.sent < MaxAnswers /\ answer' = [answer EXCEPT !.sent = @ + 1]
     \/ \E e \in {"ok", "error"} : answer' = [answer EXCEPT !.end = e]
  /\ UNCHANGED <<svc, handler, reader, net, flags, gauge, outcomes>>

ClientGoes ==
  /\ net.there /\ handler # "returned" /\ net' = [net EXCEPT !.there = FALSE]
  /\ UNCHANGED <<svc, answer, handler, reader, flags, gauge, outcomes>>

DeadlinePasses ==
  /\ handler = "select" /\ ~flags.deadline /\ flags' = [flags EXCEPT !.deadline = TRUE]
  /\ UNCHANGED <<svc, answer, handler, reader, net, gauge, outcomes>>

\* Next and Read: a chunk, the error, or the end.
ReaderReads ==
  /\ reader.pc = "next"
  /\ \/ /\ answer.read < answer.sent
        /\ answer' = [answer EXCEPT !.read = @ + 1]
        /\ reader' = [reader EXCEPT !.pc = "chunk", !.held = answer.read + 1]
     \/ /\ answer.read = answer.sent /\ answer.end = "error" /\ ~answer.closed
        /\ reader' = [reader EXCEPT !.pc = "chunk", !.held = 0, !.status = "error"]
        /\ UNCHANGED answer
     \/ /\ answer.read = answer.sent /\ (answer.end = "ok" \/ answer.closed)
        /\ ReaderGoes("ended") /\ UNCHANGED answer
  /\ UNCHANGED <<svc, handler, net, flags, gauge, outcomes>>

------------------------------------------------------------------------------
(* baseSSEService *)

\* onCompletion
Completes(status) == outcomes' = outcomes \cup {status} /\ gauge' = gauge - 1

\* generator: without a stream the error is written and the request is over.
SseGenerate ==
  /\ Sse /\ handler = "generate"
  /\ \/ handler' = "select" /\ ReaderGoes("next") /\ gauge' = gauge + 1 /\ UNCHANGED <<net, outcomes>>
     \/ /\ handler' = "returned" /\ ReaderGoes("gone") /\ UNCHANGED gauge
        /\ outcomes' = {"error"} /\ net' = [net EXCEPT !.result = "refused"]
  /\ UNCHANGED <<svc, answer, flags>>

\* writeData of the reader: closed is checked first, then written.
WriteData ==
  /\ Sse /\ reader.pc = "chunk"
  /\ ReaderGoes(IF ~flags.closed THEN "write" ELSE IF reader.held = 0 THEN "ended" ELSE "next")
  /\ UNCHANGED <<svc, answer, handler, net, flags, gauge, outcomes>>

WriteEvent_ ==
  /\ Sse /\ reader.pc = "write" /\ ReaderGoes(IF reader.held = 0 THEN "ended" ELSE "next")
  /\ net' = [net EXCEPT !.body = Append(@, reader.held),
                        !.late = IF handler = "returned" THEN @ + 1 ELSE @]
  /\ UNCHANGED <<svc, answer, handler, flags, gauge, outcomes>>

\* onCompletion of the reader, whatever the handler has recorded; then done is closed.
SseComplete ==
  /\ Sse /\ reader.pc = "ended" /\ ReaderGoes("gone")
  /\ Completes(reader.status) /\ flags' = [flags EXCEPT !.done = TRUE]
  /\ UNCHANGED <<svc, answer, handler, net>>

\* The select of the handler; the timeout does not close the plugin's stream.
SseSelect ==
  /\ Sse /\ handler = "select" /\ handler' = "returning"
  /\ \/ /\ ~net.there /\ answer' = [answer EXCEPT !.closed = TRUE]
        /\ Completes("client_disconnect") /\ UNCHANGED net
     \/ flags.done /\ net' = [net EXCEPT !.result = "ended"] /\ UNCHANGED <<answer, gauge, outcomes>>
     \/ /\ flags.deadline /\ net' = [net EXCEPT !.body = Append(@, -1)]
        /\ Completes("timeout") /\ UNCHANGED answer
  /\ UNCHANGED <<svc, reader, flags>>

\* The deferred store of closed.
SseReturn ==
  /\ Sse /\ handler = "returning" /\ handler' = "returned"
  /\ flags' = [flags EXCEPT !.closed = TRUE]
  /\ UNCHANGED <<svc, answer, reader, net, gauge, outcomes>>

------------------------------------------------------------------------------
(* writeEndpointResponse *)

\* fail: a response that has begun is broken off, so that it cannot pass for a whole one.
Failing == IF ~flags.connected THEN "none" ELSE IF net.body = <<>> THEN "status 500" ELSE "aborted"

\* The handler returns: the reader is stopped and the plugin's stream closed.
EpReturns(result) ==
  /\ handler' = "returned" /\ net' = [net EXCEPT !.result = result]
  /\ answer' = [answer EXCEPT !.closed = TRUE]

EpDeadline ==
  /\ Endpoint_ /\ handler = "select" /\ flags.deadline
  /\ EpReturns(Failing) /\ UNCHANGED <<svc, reader, flags, gauge, outcomes>>

\* "Keep the plugin session alive for backwards invocations after disconnect"
EpClientDone ==
  /\ Endpoint_ /\ handler = "select" /\ ~net.there /\ flags.connected
  /\ flags' = [flags EXCEPT !.connected = FALSE]
  /\ UNCHANGED <<svc, answer, handler, reader, net, gauge, outcomes>>

\* Mutant: an error of the plugin ends the response like its end.
EpChunk_ErrorEnds ==
  /\ Endpoint_ /\ handler = "select" /\ reader.pc \in {"chunk", "ended"}
  /\ IF reader.held = 0 \/ reader.pc = "ended"
     THEN EpReturns("ended") /\ ReaderGoes("gone")
     ELSE /\ net' = [net EXCEPT !.body = Append(@, reader.held)] /\ ReaderGoes("next")
          /\ UNCHANGED <<answer, handler>>
  /\ UNCHANGED <<svc, flags, gauge, outcomes>>

\* A chunk from the reader, the error, or its end.  A client that has left gets nothing,
\* a write may fail, and so may the deadline set before the first one.
EpChunk ==
  /\ Endpoint_ /\ handler = "select"
  /\ \/ /\ reader.pc \in {"chunk", "ended"} /\ flags.deadline
        /\ EpReturns(Failing) /\ ReaderGoes("gone") /\ UNCHANGED flags
     \/ /\ reader.pc = "chunk" /\ reader.held = 0 /\ ~flags.deadline
        /\ EpReturns(Failing) /\ ReaderGoes("gone") /\ UNCHANGED flags
     \/ /\ reader.pc = "ended" /\ ~flags.deadline
        /\ EpReturns(IF flags.connected THEN "ended" ELSE "none") /\ ReaderGoes("gone")
        /\ UNCHANGED flags
     \/ /\ reader.pc = "chunk" /\ reader.held # 0 /\ ~flags.deadline
        /\ \/ /\ flags.connected /\ net.there
              /\ net' = [net EXCEPT !.body = Append(@, reader.held)] /\ UNCHANGED flags
           \/ flags' = [flags EXCEPT !.connected = FALSE] /\ UNCHANGED net
        /\ ReaderGoes("next") /\ UNCHANGED <<answer, handler>>
     \/ /\ reader.pc = "chunk" /\ reader.held # 0 /\ ~flags.deadline /\ net.body = <<>>
        /\ flags.connected /\ net.there
        /\ EpReturns(Failing) /\ ReaderGoes("gone") /\ UNCHANGED flags
  /\ UNCHANGED <<svc, gauge, outcomes>>

\* stop is closed: the reader gives up the chunk it offers.
EpReaderStops ==
  /\ Endpoint_ /\ handler = "returned" /\ reader.pc \in {"chunk", "ended"} /\ ReaderGoes("gone")
  /\ UNCHANGED <<svc, answer, handler, net, flags, gauge, outcomes>>

RespOver == handler = "returned" /\ reader.pc = "gone" /\ UNCHANGED respVars

RespNext ==
  \/ PluginAnswers \/ ClientGoes \/ DeadlinePasses \/ ReaderReads
  \/ SseGenerate \/ WriteData \/ WriteEvent_ \/ SseComplete \/ SseSelect \/ SseReturn
  \/ EpDeadline \/ EpClientDone \/ EpChunk \/ EpReaderStops \/ RespOver

RespSpec == RespInit /\ [][RespNext]_respVars

------------------------------------------------------------------------------
(* Properties *)

\* Types; the metric is off by at most one.
RespTypeOK ==
  /\ answer.read \in 0..answer.sent /\ answer.sent <= MaxAnswers
  /\ handler \in {"generate", "select", "returning", "returned"}
  /\ reader.pc \in {"none", "next", "chunk", "write", "ended", "gone"}
  /\ net.body \in Seq(-1..MaxAnswers)
  /\ net.result \in {"none", "ended", "refused", "status 500", "aborted"}
  /\ gauge \in {-1, 0, 1}

\* A body that ended like a whole one is the whole answer: every chunk of the plugin in
\* order, and after it the error event if the plugin failed (SSE), or the plugin did not
\* fail (endpoint).  A body that is cut short shows that it is.
EndedIsWhole ==
  net.result = "ended" =>
    LET all == [k \in 1..answer.sent |-> k]
    IN IF Sse THEN net.body = all \o (IF answer.end = "error" THEN <<0>> ELSE <<>>)
       ELSE answer.end = "ok" /\ net.body = all

\* The reader checks closed before it writes, without a lock: at most the event it was
\* about to write reaches the connection after the handler has returned.
LateWritesBounded == net.late <= 1

\* A client that leaves does not end the session of an endpoint: only the end of the
\* plugin's answer or the deadline does (issue 808), a failed first write apart.
SessionOutlivesClient ==
  Endpoint_ /\ handler = "returned" =>
    answer.end # "no" \/ flags.deadline \/ net.result \in {"status 500"}

\* Every request is completed in the metrics; when the handler waited for the reader it is
\* completed once and counted as active no more.
CompletedOnce ==
  Sse /\ handler = "returned" /\ reader.pc = "gone" =>
    /\ outcomes # {}
    /\ net.result \in {"ended", "refused"} => gauge = 0

------------------------------------------------------------------------------
(* The inductive invariant *)

Upto(n) == [k \in 1..n |-> k]

AnswerShape == [sent : 0..MaxAnswers, read : Nat, end : {"no", "ok", "error"}, closed : BOOLEAN]
ReaderShape == [pc : {"none", "next", "chunk", "write", "ended", "gone"}, held : 0..MaxAnswers,
                status : {"success", "error"}]
NetShape == [body : Seq(-1..MaxAnswers), there : BOOLEAN, late : {0, 1},
             result : {"none", "ended", "refused", "status 500", "aborted"}]
FlagsShape == [closed : BOOLEAN, done : BOOLEAN, connected : BOOLEAN, deadline : BOOLEAN]

RespShape ==
  /\ svc \in {"sse", "endpoint"}
  /\ answer \in AnswerShape /\ answer.read <= answer.sent
  /\ handler \in {"generate", "select", "returning", "returned"}
  /\ reader \in ReaderShape /\ net \in NetShape /\ flags \in FlagsShape

\* Which part of the answer has been written when the reader is where it is: all that was
\* read, but for the chunk it holds, and all of it with the error at the end.
Written ==
  /\ reader.pc \in {"none", "next"} => net.body = Upto(answer.read)
  /\ reader.pc \in {"chunk", "write"} /\ reader.held # 0 =>
       reader.held = answer.read /\ net.body = Upto(answer.read - 1)
  /\ reader.pc \in {"chunk", "write"} /\ reader.held = 0 =>
       answer.end = "error" /\ answer.read = answer.sent /\ net.body = Upto(answer.sent)
  /\ reader.pc \in {"ended", "gone"} =>
       /\ answer.end # "no" /\ answer.read = answer.sent
       /\ net.body = IF answer.end = "error" THEN Append(Upto(answer.sent), 0) ELSE Upto(answer.sent)

\* A request of the SSE service: where handler and reader can be.
SseControl ==
  Sse =>
    /\ handler = "generate" <=> reader.pc = "none"
    /\ handler = "generate" => answer.read = 0
    /\ handler \in {"generate", "select"} => ~flags.closed /\ ~answer.closed /\ net.result = "none"
    /\ flags.done => reader.pc = "gone"
    /\ handler = "returned" /\ reader.pc # "gone" => flags.closed
    /\ handler # "returned" \/ reader.pc = "write" => net.late = 0
    /\ net.result \in {"none", "ended", "refused"}
    /\ net.result # "none" => reader.pc = "gone"
    /\ reader.pc = "gone" => outcomes # {}

\* The metric: the reader and a handler that did not wait for it both subtract one.
ReaderLeft == reader.pc = "gone" /\ net.result = "none"
SseGauge ==
  Sse =>
    /\ gauge \in {-1, 0, 1}
    /\ gauge = 1 <=> handler = "select" /\ ~ReaderLeft
    /\ gauge = -1 <=> handler # "select" /\ ReaderLeft

\* What it has written while the handler waits, and for good once that has seen the end.
SseBody ==
  Sse =>
    /\ handler \in {"generate", "select"} => Written
    /\ net.result = "ended" => answer.end # "no" /\ EndedIsWhole

\* A request of an endpoint.
EndpointControl ==
  Endpoint_ =>
    /\ handler \in {"select", "returned"} /\ reader.pc \notin {"none", "write"}
    /\ net.late = 0 /\ gauge = 0
    /\ handler = "select" =>
         /\ ~answer.closed /\ net.result = "none" /\ reader.pc # "gone"
         /\ reader.pc = "chunk" /\ reader.held = 0 => answer.end = "error"
         /\ reader.pc = "ended" => answer.end = "ok"
    /\ handler = "returned" => answer.closed /\ SessionOutlivesClient

\* While its client is connected it is told everything.
EndpointBody ==
  Endpoint_ =>
    /\ handler = "select" /\ flags.connected => Written
    /\ EndedIsWhole

RespIInv ==
  RespShape /\ SseControl /\ SseGauge /\ SseBody /\ EndpointControl /\ EndpointBody
=============================================================================
