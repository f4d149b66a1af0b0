------------------------------ MODULE Backwards ------------------------------
(***************************************************************************)
(* Sessions, and the requests a plugin sends back to Dify within one.      *)
(* session_manager/session.go, io_tunnel/backwards_invocation with its     *)
(* transactions, dify_invocation/calldify.                                 *)
(*                                                                         *)
(* A local or debugged plugin sends a request through the session it       *)
(* serves, and is answered through it ("duplex").  A serverless plugin     *)
(* sends an HTTP request, which any node may get, and is answered in its   *)
(* response ("serverless"): the node looks the session up, in its own map  *)
(* or in Redis, and the handler waits until the invocation closes the      *)
(* writer or time is up.  Payloads are reduced to what is decided on them; *)
(* what storage requests do is in Persistence.                             *)
(***************************************************************************)
EXTENDS Naturals, Sequences, FiniteSets

CONSTANTS
  BwdReqs,      \* the requests
  BwdTypes,     \* types of requests the plugin sends, known ones and others
  Grants,       \* the permissions of the declaration
  MaxChunks     \* bound: chunks of a streamed answer

VARIABLES
  session,     \* [mem, cache, fromModel]: in the map of its node, in Redis, and
               \* whether the plugin was invoked as a model
  req          \* req[r]: its kind, where it is, its type and what was written

bwdVars == <<session, req>>

\* The permission each type needs, of permissionMapping; "any" is always granted.
Permission ==
  [tool |-> "tool", llm |-> "llm", llm_structured_output |-> "llm", system_summary |-> "llm",
   text_embedding |-> "text_embedding", multimodal_embedding |-> "text_embedding",
   rerank |-> "rerank", multimodal_rerank |-> "rerank", tts |-> "tts",
   speech2text |-> "speech2text", moderation |-> "moderation",
   node_parameter_extractor |-> "node", node_question_classifier |-> "node",
   app |-> "app", fetch_app |-> "app", storage |-> "storage", upload_file |-> "any"]

\* The types answered by a stream; the others by one response.
Streamed == {"tool", "llm", "llm_structured_output", "tts", "app"}

NewReq(kind) ==
  [kind |-> kind, pc |-> "new", typ |-> "none", out |-> <<>>, chunks |-> 0,
   beats |-> FALSE, beating |-> FALSE, closed |-> FALSE, returned |-> FALSE,
   late |-> FALSE, stray |-> FALSE, strayBeats |-> 0]

BwdInit ==
  /\ session \in [mem : {FALSE}, cache : {FALSE}, open : {FALSE}, fromModel : BOOLEAN]
  /\ req \in [BwdReqs -> {NewReq("duplex"), NewReq("serverless")}]

Serverless(r) == req[r].kind = "serverless"
Set(r, x) == req' = [req EXCEPT ![r] = x]

------------------------------------------------------------------------------
(* Sessions *)

\* NewSession: into the map, and into Redis unless that fails, which is logged.
NewSession ==
  /\ ~session.open /\ ~session.mem
  /\ \E c \in BOOLEAN : session' = [session EXCEPT !.mem = TRUE, !.cache = c, !.open = TRUE]
  /\ UNCHANGED req

\* Close: out of both; Redis may fail.
CloseSession ==
  /\ session.open /\ session.mem
  /\ \E c \in {FALSE, session.cache} : session' = [session EXCEPT !.mem = FALSE, !.cache = c]
  /\ UNCHANGED req

\* sessionCacheTTL is over.
SessionExpires ==
  /\ session.cache
  /\ session' = [session EXCEPT !.cache = FALSE]
  /\ UNCHANGED req

\* GetSession on a node: its own map first, then Redis.
Found(own) == (own /\ session.mem) \/ session.cache

------------------------------------------------------------------------------
(* The writer of the response *)

\* Write of serverlessTransactionWriteCloser and of the full-duplex writer: what may
\* become of the request.  A closed writer drops the event.  One whose handler has
\* returned writes into what became of the response, or panics, which closes it.  mu is
\* held from the check of closed to the write: a heartbeat in between keeps the
\* invocation waiting (no outcome).  The invocation's own check and write are one step,
\* as only itself and a heartbeat under mu could close the writer between them, and a
\* timeout that falls between them is one that came before.
WriteEvent(x, e) ==
  IF x.beating THEN {}
  ELSE IF x.closed THEN {x}
  ELSE IF x.returned THEN {[x EXCEPT !.stray = TRUE, !.closed = c] : c \in BOOLEAN}
  ELSE {[x EXCEPT !.out = Append(@, e)]}

\* Writes e and goes on at pc.
WriteThen(r, x, e, pc) == \E y \in WriteEvent(x, e) : Set(r, [y EXCEPT !.pc = pc])

\* WriteError and EndResponse with Done.
Refuse(r, x) ==
  \E y \in WriteEvent(x, "error") : \E z \in WriteEvent(y, "end") :
    Set(r, [z EXCEPT !.pc = "over", !.closed = Serverless(r)])

------------------------------------------------------------------------------
(* A request arrives *)

\* The plugin sends a request of some type.  Handle: what is not a session event is
\* ignored, what cannot be read is answered with 400 and the writer closed, and so is a
\* session that is not found; otherwise the heartbeat starts.  A duplex plugin sends
\* within its session.
Receive(r) ==
  LET x == req[r] IN
  /\ x.pc = "new" /\ session.open
  /\ \E typ \in BwdTypes, own \in BOOLEAN :
       LET y == [x EXCEPT !.pc = "invoke", !.typ = typ] IN
       \/ /\ Serverless(r) /\ Found(own)
          /\ Set(r, [y EXCEPT !.beats = TRUE])
       \/ /\ Serverless(r) /\ ~Found(own)
          /\ Set(r, [x EXCEPT !.out = <<"error">>, !.pc = "over", !.closed = TRUE])
       \/ /\ ~Serverless(r) /\ session.mem
          /\ Set(r, y)
  /\ UNCHANGED session

\* The body is no session event, or cannot be read.
ReceiveOther(r) ==
  LET x == req[r] IN
  /\ x.pc = "new" /\ Serverless(r) /\ session.open
  /\ \/ Set(r, [x EXCEPT !.pc = "over"])
     \/ Set(r, [x EXCEPT !.pc = "over", !.closed = TRUE])
  /\ UNCHANGED session

------------------------------------------------------------------------------
(* InvokeDify *)

\* checkPermission.
Permitted(t) ==
  t \in DOMAIN Permission /\ (Permission[t] = "any" \/ Permission[t] \in Grants)

\* A field is missing: an error is returned.  The handler closes the writer, under mu; a
\* duplex invocation ends its own response with the error.
Malformed(r) ==
  /\ req[r].pc = "invoke" /\ ~req[r].beating
  /\ Set(r, [req[r] EXCEPT !.pc = "over", !.closed = TRUE])
  /\ UNCHANGED session

\* From a model, or without the permission, the request is refused; else it is
\* submitted.
InvokeDify(r) ==
  LET x == req[r] IN
  /\ x.pc = "invoke"
  /\ IF session.fromModel \/ ~Permitted(x.typ) THEN Refuse(r, x)
     ELSE Set(r, [x EXCEPT !.pc = "dispatch"])
  /\ UNCHANGED session

\* dispatchDifyInvocationTask and genericDispatchTask: a request that does not decode or
\* validate is answered with an error.
Dispatch(r) ==
  LET x == req[r] IN
  /\ x.pc = "dispatch"
  /\ Set(r, [x EXCEPT !.pc = "call"]) \/ WriteThen(r, x, "error", "end")
  /\ UNCHANGED session

\* Request: one request to Dify, which fails or is answered with one response.
Requested(r) == \E e \in {"error", "response"} : WriteThen(r, req[r], e, "end")

\* The execute functions of the models that answer at once, of nodes, summaries, files
\* and apps.
CallOnce(r) ==
  /\ req[r].pc = "call" /\ req[r].typ \notin Streamed \cup {"storage"}
  /\ Requested(r)
  /\ UNCHANGED session

\* executeDifyInvocationStorageTask: an operation of Persistence, or an error (no session,
\* no persistence, a value that is not hexadecimal, the operation's own).
CallStorage(r) ==
  /\ req[r].pc = "call" /\ req[r].typ = "storage"
  /\ Requested(r)
  /\ UNCHANGED session

\* The execute functions of tools, LLMs, TTS and apps: the call fails or a stream opens.
CallStreamed(r) ==
  LET x == req[r] IN
  /\ x.pc = "call" /\ x.typ \in Streamed
  /\ WriteThen(r, x, "error", "end") \/ Set(r, [x EXCEPT !.pc = "stream"])
  /\ UNCHANGED session

\* The app of executeDifyInvocationAppTask has no user: an error after the stream opened.
AppWithoutUser(r) ==
  /\ req[r].pc = "stream" /\ req[r].typ = "app" /\ req[r].chunks = 0
  /\ WriteThen(r, req[r], "error", "end")
  /\ UNCHANGED session

\* A chunk of StreamResponse is passed on, or dropped: its stream takes 1024 of them and
\* the error of a Write into a full one is not looked at.
Chunk(r) ==
  LET x == [req[r] EXCEPT !.chunks = @ + 1] IN
  /\ x.pc = "stream" /\ req[r].chunks < MaxChunks
  /\ WriteThen(r, x, "response", "stream") \/ Set(r, x)
  /\ UNCHANGED session

\* Mutant: the error of a chunk is written, and the loop goes on.
StreamOver_GoesOn(r) ==
  /\ req[r].pc = "stream"
  /\ Set(r, [req[r] EXCEPT !.pc = "end"]) \/ WriteThen(r, req[r], "error", "stream")
  /\ UNCHANGED session

\* The stream ends, or fails: a timeout of the client, a chunk with an error or without
\* data, one that does not validate.
StreamOver(r) ==
  LET x == req[r] IN
  /\ x.pc = "stream"
  /\ Set(r, [x EXCEPT !.pc = "end"]) \/ WriteThen(r, x, "error", "end")
  /\ UNCHANGED session

\* EndResponse, deferred: the end event ...
EndEvent(r) ==
  /\ req[r].pc = "end"
  /\ WriteThen(r, req[r], "end", "done")
  /\ UNCHANGED session

\* ... and Done, which closes the writer of a serverless request, without mu.
Done(r) ==
  /\ req[r].pc = "done"
  /\ Set(r, [req[r] EXCEPT !.pc = "over", !.closed = Serverless(r)])
  /\ UNCHANGED session

------------------------------------------------------------------------------
(* The handler of a serverless request *)

\* The writer was closed.
HandlerReturns(r) ==
  /\ Serverless(r) /\ ~req[r].returned /\ req[r].pc \notin {"new", "invoke"} /\ req[r].closed
  /\ Set(r, [req[r] EXCEPT !.returned = TRUE])
  /\ UNCHANGED session

\* maxTimeout is over; a writer that is open stays so.
HandlerTimesOut(r) ==
  /\ Serverless(r) /\ ~req[r].returned /\ req[r].pc \notin {"new", "invoke"}
  /\ Set(r, [req[r] EXCEPT !.returned = TRUE, !.late = ~req[r].closed])
  /\ UNCHANGED session

\* WriteAndFlush of the heartbeat finds the writer open, with mu, ...
BeatChecks(r) ==
  /\ req[r].beats /\ ~req[r].closed /\ ~req[r].beating
  /\ Set(r, [req[r] EXCEPT !.beating = TRUE])
  /\ UNCHANGED session

\* ... and writes: a blank line, which ends no answer.  By now Done may have closed the
\* writer and the handler may have returned; a panic closes it.
BeatWrites(r) ==
  LET x == [req[r] EXCEPT !.beating = FALSE] IN
  /\ req[r].beating
  /\ IF x.returned
     THEN \E c \in BOOLEAN :
            Set(r, [x EXCEPT !.closed = @ \/ c, !.strayBeats = IF x.late THEN @ ELSE @ + 1])
     ELSE Set(r, x)
  /\ UNCHANGED session

------------------------------------------------------------------------------
InvocationStep(r) ==
  \/ Malformed(r) \/ InvokeDify(r) \/ Dispatch(r) \/ CallOnce(r) \/ CallStorage(r)
  \/ CallStreamed(r) \/ AppWithoutUser(r) \/ StreamOver(r)
  \/ EndEvent(r) \/ Done(r)

BwdNext ==
  \/ NewSession \/ CloseSession \/ SessionExpires
  \/ \E r \in BwdReqs :
       \/ Receive(r) \/ ReceiveOther(r) \/ InvocationStep(r) \/ Chunk(r)
       \/ HandlerReturns(r) \/ HandlerTimesOut(r) \/ BeatChecks(r) \/ BeatWrites(r)

\* Routines go on (a beat lets go of mu again), a call to Dify ends (every one has a read
\* timeout), and the timer of the handler fires.  The next beat may always come before
\* the invocation gets mu, yet a mutex of Go starves nobody.
BwdFairness ==
  \A r \in BwdReqs :
    /\ SF_bwdVars(InvocationStep(r))
    /\ WF_bwdVars(BeatWrites(r))
    /\ WF_bwdVars(HandlerReturns(r) \/ HandlerTimesOut(r))

------------------------------------------------------------------------------
(* Properties *)

\* The type of the state.
BwdTypeOK ==
  /\ session \in [mem : BOOLEAN, cache : BOOLEAN, open : BOOLEAN, fromModel : BOOLEAN]
  /\ \A r \in BwdReqs :
       /\ req[r].pc \in {"new", "invoke", "dispatch", "call", "stream", "end", "done", "over"}
       /\ req[r].typ \in BwdTypes \cup {"none"}
       /\ Len(req[r].out) <= MaxChunks + 2 /\ req[r].chunks \in 0..MaxChunks

\* What the plugin reads is a well-formed answer: nothing after the end, one error at
\* most and that the last event before it, whatever closes, times out or fails.
AnswerWellFormed ==
  \A r \in BwdReqs :
    LET out == req[r].out IN
    \A i \in 1..(Len(out) - 1) :
      /\ out[i] # "end"
      /\ out[i] = "error" => out[i + 1] = "end"

\* A request reaches Dify only with a permission of the declaration, and not from a
\* plugin invoked as a model.
OnlyPermittedCalls ==
  \A r \in BwdReqs :
    req[r].pc \in {"call", "stream"} =>
      /\ ~session.fromModel
      /\ req[r].typ \in DOMAIN Permission
      /\ Permission[req[r].typ] \in Grants \cup {"any"}

\* Unless the handler gave up waiting with the writer open, no event is written into the
\* response after the handler has returned, and one blank line of the heartbeat at most:
\* the one that had found the writer open when Done closed it.
NoStrayWrite ==
  \A r \in BwdReqs : req[r].late \/ (~req[r].stray /\ req[r].strayBeats <= 1)

\* An HTTP request of a serverless plugin is answered or times out, and a request that
\* was dispatched comes to its end event or to a closed writer.
RequestsEnd ==
  \A r \in BwdReqs :
    /\ (Serverless(r) /\ req[r].pc # "new") ~> req[r].returned
    /\ (req[r].pc = "dispatch") ~>
         \/ req[r].closed \/ req[r].late
         \/ req[r].out # <<>> /\ req[r].out[Len(req[r].out)] = "end"
==============================================================================
