---------------------------- MODULE DebugServer ----------------------------
(***************************************************************************)
(* Remote debugging (internal/core/debugging_runtime, control_panel/       *)
(* server_debugger.go, install_service/controlpanel.go): a developer's     *)
(* plugin connects, shakes hands, transfers its declaration and is then    *)
(* installed for the tenant until the connection closes.                   *)
(*                                                                         *)
(* Each connection is served by one event loop, so its events come one     *)
(* after the other; the loops of two connections interleave.  Close only   *)
(* asks for the close: messages already received are still handled before  *)
(* OnClose.  All connections here are of one plugin and one tenant, as     *)
(* when a developer reconnects, so they share identity and installation.   *)
(***************************************************************************)
EXTENDS Integers, FiniteSets

CONSTANTS
  Conns,      \* connections; each is opened once
  Parts,      \* parts of a declaration that are transferred one by one
  MaxConns,   \* values of PLUGIN_REMOTE_INSTALLING_MAX_CONN
  MaxAssets,  \* the 50 MB of assets, in chunks
  MaxEnds     \* bound: end messages of a connection

\* What is assumed of the constants.
DebugAssumption ==
  IsFiniteSet(Conns) /\ MaxConns \subseteq Nat /\ MaxAssets \in Nat /\ MaxEnds \in Nat

VARIABLES
  conns,        \* conns[c]: the RemotePluginRuntime, and whether its connection is open
  loop,         \* loop[c]: where the event loop of c is
  maxConn,      \* the configured limit
  currentConn,
  debugging,    \* control panel: the runtime stored under the identity
  registry,     \* cluster: the runtime registered under the identity
  installation, \* is there an installation row
  session,      \* the request that listens on a connection, if any
  ends,         \* ends[c]: end messages counted (history, and bound)
  early,        \* history: connections that closed without an end message
  overlapped,   \* history: a runtime connected before another had left
  dbFailed      \* history: an uninstall failed in the database

debugVars == <<conns, loop, maxConn, currentConn, debugging, registry, installation, session,
               ends, early, overlapped, dbFailed>>

NewRuntime ==
  [open |-> FALSE, closing |-> FALSE, closed |-> FALSE, handshake |-> FALSE,
   handshakeFailed |-> FALSE, initialized |-> FALSE, alive |-> TRUE,
   transferred |-> {}, config |-> {}, assetsBytes |-> 0, installed |-> FALSE]

DebugInit ==
  /\ conns = [c \in Conns |-> NewRuntime]
  /\ loop = [c \in Conns |-> "none"]
  /\ maxConn \in MaxConns /\ currentConn = 0
  /\ debugging = "none" /\ registry = "none" /\ installation = FALSE
  /\ session = [conn |-> "none", state |-> "none"]
  /\ ends = [c \in Conns |-> 0] /\ early = 0 /\ overlapped = FALSE /\ dbFailed = FALSE

Panel == <<debugging, registry, installation>>
History == <<ends, early, overlapped, dbFailed>>
Step(c, from, to) == loop[c] = from /\ loop' = [loop EXCEPT ![c] = to]

\* The timer: ten seconds after OnOpen a connection without handshake is closed.
HandshakeTimer(c) ==
  /\ conns[c].open /\ ~conns[c].handshake /\ ~conns[c].closing
  /\ conns' = [conns EXCEPT ![c].closing = TRUE]
  /\ UNCHANGED <<loop, currentConn, Panel, session, History>>

OnOpen(c) ==
  /\ Step(c, "none", "idle")
  /\ conns' = [conns EXCEPT ![c].open = TRUE]
  /\ UNCHANGED <<currentConn, Panel, session, History>>

------------------------------------------------------------------------------
(* OnTraffic *)

\* closeConn, by the first caller only.
CloseConn(r) == IF r.closed THEN r ELSE [r EXCEPT !.closed = TRUE, !.closing = TRUE]
Fail(r) == CloseConn([r EXCEPT !.handshakeFailed = TRUE])

\* A runtime takes registration messages until it is initialized or has failed.
Registering(c) ==
  /\ loop[c] = "idle" /\ conns[c].open
  /\ ~conns[c].handshakeFailed /\ ~conns[c].initialized

Registers(c, r) ==
  /\ Registering(c) /\ conns' = [conns EXCEPT ![c] = r]
  /\ UNCHANGED <<loop, currentConn, Panel, session, History>>

\* handleHandleShake: an unreadable message, an unknown key or a second handshake fails
\* the runtime for good.
Handshake(c) ==
  \/ ~conns[c].handshake /\ Registers(c, [conns[c] EXCEPT !.handshake = TRUE])
  \/ Registers(c, Fail(conns[c]))

\* Any other message before the handshake fails the runtime.
BeforeHandshake(c) == ~conns[c].handshake /\ Registers(c, Fail(conns[c]))

\* The handlers of the declarations.  A second message of a kind, or one that cannot
\* be read, closes the connection.  The manifest replaces whatever was there; an empty
\* list of declarations is noted as transferred and leaves the declaration as it is.
Declaration(c, part) ==
  LET r == conns[c]
      done == [r EXCEPT !.transferred = @ \cup {part},
                        !.config = IF part = "manifest" THEN {part} ELSE @ \cup {part}]
  IN /\ r.handshake
     /\ \/ part \notin r.transferred /\ Registers(c, done)
        \/ /\ part \notin r.transferred \cup {"manifest"}
           /\ Registers(c, [r EXCEPT !.transferred = @ \cup {part}])
        \/ Registers(c, CloseConn(r))

\* handleAssetsTransfer.
AssetChunk(c) ==
  /\ conns[c].handshake
  /\ \/ /\ conns[c].assetsBytes < MaxAssets
        /\ Registers(c, [conns[c] EXCEPT !.assetsBytes = @ + 1])
     \/ Registers(c, CloseConn(conns[c]))

\* The end message: the connection is counted.
EndCount(c) ==
  /\ Registering(c) /\ conns[c].handshake /\ ends[c] < MaxEnds
  /\ loop' = [loop EXCEPT ![c] = "end"]
  /\ currentConn' = currentConn + 1
  /\ ends' = [ends EXCEPT ![c] = @ + 1]
  /\ UNCHANGED <<conns, Panel, session, early, overlapped, dbFailed>>

Exclusive == {"model", "agent_strategy", "datasource", "trigger"}

\* ManifestValidate: author and name come with the manifest, some part is there, and a
\* part of an exclusive kind is alone.
ManifestValid(config) ==
  LET parts == config \ {"manifest"}
  IN /\ "manifest" \in config /\ parts # {}
     /\ \A e \in Exclusive : e \in parts => parts = {e}

Initialized(c) == conns[c].open /\ conns[c].initialized
Present(c) == conns[c].initialized /\ loop[c] # "gone"

\* The limit, then handleInitializationEndEvent, which may also fail to remap the
\* assets.  On an error the connection stays counted until it closes.
EndInitialize(c) ==
  /\ \/ /\ Step(c, "end", "store")
        /\ currentConn <= maxConn
        /\ conns[c].transferred \ {"manifest"} # {}
        /\ ManifestValid(conns[c].config)
        /\ conns' = [conns EXCEPT ![c].initialized = TRUE]
        /\ overlapped' = (overlapped \/ \E d \in Conns \ {c} : Present(d))
     \/ /\ Step(c, "end", "idle")
        /\ conns' = [conns EXCEPT ![c] = CloseConn(@)]
        /\ UNCHANGED overlapped
  /\ UNCHANGED <<currentConn, Panel, session, ends, early, dbFailed>>

------------------------------------------------------------------------------
(* onDebuggingRuntimeConnected and OnDebuggingRuntimeConnected *)

StoreRuntime(c) ==
  /\ Step(c, "store", "register") /\ debugging' = c
  /\ UNCHANGED <<conns, currentConn, registry, installation, session, History>>

\* cluster.RegisterPlugin, whose error is only logged.
RegisterRuntime(c) ==
  /\ Step(c, "register", "install")
  /\ \/ registry' = c
     \/ UNCHANGED registry
  /\ UNCHANGED <<conns, currentConn, debugging, installation, session, History>>

\* InstallPlugin; the plugin may be installed already.
InstallDebugging(c) ==
  /\ \/ /\ Step(c, "install", "idle") /\ ~installation
        /\ installation' = TRUE
        /\ conns' = [conns EXCEPT ![c].installed = TRUE]
     \/ Step(c, "install", "fetch") /\ installation /\ UNCHANGED <<installation, conns>>
     \/ Step(c, "install", "idle") /\ UNCHANGED <<installation, conns>>
  /\ dbFailed' = (dbFailed \/ (loop'[c] = "idle" /\ ~installation'))
  /\ UNCHANGED <<currentConn, debugging, registry, session, ends, early, overlapped>>

\* fetchPluginInstallationByPluginID: takes over the row that was found.
FetchInstallation(c) ==
  /\ Step(c, "fetch", "idle")
  /\ \/ installation /\ conns' = [conns EXCEPT ![c].installed = TRUE]
     \/ UNCHANGED conns
  /\ UNCHANGED <<currentConn, Panel, session, History>>

------------------------------------------------------------------------------
(* A connected runtime *)

\* SpawnCore: the answer to the session that listens.
PluginEvent(c) ==
  /\ loop[c] = "idle" /\ Initialized(c) /\ session = [conn |-> c, state |-> "listening"]
  /\ session' = [session EXCEPT !.state = "answered"]
  /\ UNCHANGED <<conns, loop, currentConn, Panel, History>>

\* HeartbeatMonitor, after sixty seconds without a heartbeat, and Stop.
HeartbeatMonitor(c) ==
  /\ Initialized(c) /\ conns[c].alive
  /\ conns' = [conns EXCEPT ![c].alive = FALSE, ![c].closing = TRUE]
  /\ UNCHANGED <<loop, currentConn, Panel, session, History>>

\* Listen: addSessionMessageCloser looks at closed and then adds the closer.  A request
\* that finds the runtime closed is never told.
ListenCheck(c) ==
  /\ debugging = c /\ session.state = "none"
  /\ session' = [conn |-> c, state |-> IF conns[c].closed THEN "untold" ELSE "adding"]
  /\ UNCHANGED <<conns, loop, currentConn, Panel, History>>

ListenAdd(c) ==
  /\ session = [conn |-> c, state |-> "adding"]
  /\ session' = [session EXCEPT !.state = IF conns[c].open THEN "listening" ELSE "untold"]
  /\ UNCHANGED <<conns, loop, currentConn, Panel, History>>

------------------------------------------------------------------------------
(* OnClose *)

\* The connection closes, because it was asked to or by the peer: the runtime leaves
\* s.plugins, cleanupResources tells the sessions and closes the response.
CloseCleanup(c) ==
  /\ conns[c].open /\ Step(c, "idle", "closed")
  /\ conns' = [conns EXCEPT ![c].open = FALSE, ![c].alive = FALSE, ![c].closed = TRUE]
  /\ session' = IF session = [conn |-> c, state |-> "listening"]
               THEN [session EXCEPT !.state = "told"] ELSE session
  /\ UNCHANGED <<currentConn, Panel, History>>

\* Mutant: also a runtime that was not initialized is taken down.
CloseUnregister_Any(c) ==
  /\ Step(c, "closed", "delete") /\ registry' = "none"
  /\ UNCHANGED <<conns, currentConn, debugging, installation, session, History>>

\* onDebuggingRuntimeDisconnected: nothing for a runtime that was not initialized;
\* cluster.UnregisterPlugin works by identity and may fail.
CloseUnregister(c) ==
  /\ \/ Step(c, "closed", "leave") /\ ~conns[c].initialized /\ UNCHANGED registry
     \/ Step(c, "closed", "delete") /\ conns[c].initialized /\ registry' = "none"
     \/ Step(c, "closed", "delete") /\ conns[c].initialized /\ UNCHANGED registry
  /\ UNCHANGED <<conns, currentConn, debugging, installation, session, History>>

\* debuggingPluginRuntime.Delete, by identity.
CloseDelete(c) ==
  /\ Step(c, "delete", "uninstall") /\ debugging' = "none"
  /\ UNCHANGED <<conns, currentConn, registry, installation, session, History>>

\* OnDebuggingRuntimeDisconnected: uninstalls the row whose id the runtime was given.
CloseUninstall(c) ==
  /\ Step(c, "uninstall", "leave")
  /\ \/ conns[c].installed /\ installation' = FALSE /\ UNCHANGED dbFailed
     \/ ~conns[c].installed /\ UNCHANGED <<installation, dbFailed>>
     \/ dbFailed' = TRUE /\ UNCHANGED installation
  /\ UNCHANGED <<conns, currentConn, debugging, registry, session, ends, early, overlapped>>

CloseLeave(c) ==
  /\ Step(c, "leave", "gone")
  /\ currentConn' = currentConn - 1
  /\ early' = IF ends[c] = 0 THEN early + 1 ELSE early
  /\ UNCHANGED <<conns, Panel, session, ends, overlapped, dbFailed>>

LoopStep(c) ==
  \/ EndInitialize(c) \/ StoreRuntime(c) \/ RegisterRuntime(c) \/ InstallDebugging(c)
  \/ FetchInstallation(c) \/ CloseUnregister(c) \/ CloseDelete(c) \/ CloseUninstall(c)
  \/ CloseLeave(c)

DebugNext ==
  /\ UNCHANGED maxConn
  /\ \E c \in Conns :
       \/ OnOpen(c) \/ HandshakeTimer(c) \/ Handshake(c) \/ BeforeHandshake(c)
       \/ \E part \in Parts \cup {"manifest"} : Declaration(c, part)
       \/ AssetChunk(c) \/ EndCount(c) \/ LoopStep(c)
       \/ PluginEvent(c) \/ HeartbeatMonitor(c) \/ ListenCheck(c) \/ ListenAdd(c)
       \/ CloseCleanup(c)

DebugSpec == DebugInit /\ [][DebugNext]_debugVars

------------------------------------------------------------------------------
(* Properties *)

Loops == {"none", "idle", "end", "store", "register", "install", "fetch", "closed",
          "delete", "uninstall", "leave", "gone"}

RuntimeShape ==
  [open : BOOLEAN, closing : BOOLEAN, closed : BOOLEAN, handshake : BOOLEAN,
   handshakeFailed : BOOLEAN, initialized : BOOLEAN, alive : BOOLEAN,
   transferred : SUBSET (Parts \cup {"manifest"}),
   config : SUBSET (Parts \cup {"manifest"}),
   assetsBytes : 0..MaxAssets, installed : BOOLEAN]

SessionShape ==
  [conn : Conns \cup {"none"},
   state : {"none", "adding", "listening", "answered", "told", "untold"}]

\* The type of the state.
DebugTypeOK ==
  /\ conns \in [Conns -> RuntimeShape]
  /\ loop \in [Conns -> Loops] /\ maxConn \in MaxConns
  /\ currentConn \in -Cardinality(Conns)..Cardinality(Conns) * MaxEnds
  /\ debugging \in Conns \cup {"none"} /\ registry \in Conns \cup {"none"}
  /\ installation \in BOOLEAN /\ overlapped \in BOOLEAN /\ dbFailed \in BOOLEAN
  /\ session \in SessionShape
  /\ ends \in [Conns -> 0..MaxEnds] /\ early \in 0..Cardinality(Conns)

\* The limit on connections (hooks.go): no more runtimes are connected than allowed, plus
\* one for each connection that closed before its end message and was subtracted from a
\* counter it had never been added to.
ConnectionLimit ==
  Cardinality({c \in Conns : Initialized(c)}) <= maxConn + early

\* A runtime is published only with a complete declaration from a tenant that has shaken
\* hands: parts that a late manifest wiped out again are noticed by ManifestValidate.
PublishedIsComplete ==
  \A c \in Conns : conns[c].initialized =>
    conns[c].handshake /\ "manifest" \in conns[c].config /\ conns[c].config \cap Parts # {}

\* When every connection of the plugin has left, nothing of it remains: it is neither
\* reachable nor installed, however connects and disconnects interleaved
\* (server_debugger.go, install_service/controlpanel.go), database errors aside.
NothingRemains ==
  (\A c \in Conns : loop[c] \in {"none", "gone"})
    => debugging = "none" /\ (dbFailed \/ ~installation)

\* A connected runtime is reachable and installed, unless another connection of the
\* same plugin was up at the same time: the close of either then removes both.
ConnectedIsReachable ==
  \A c \in Conns :
    loop[c] = "idle" /\ Initialized(c) /\ ~overlapped
      /\ (\A d \in Conns \ {c} : loop[d] \in {"none", "idle", "end", "gone"})
      => debugging = c /\ (dbFailed \/ installation)

\* A session that listened when the connection closed is told so (type.go).
SessionsAreTold ==
  session.state = "listening" => conns[session.conn].open

------------------------------------------------------------------------------
(* The inductive invariant *)

\* Connections that have left, end messages that were counted, and connections that
\* were counted and have not left.
Gone == {c \in Conns : loop[c] = "gone"}
EndMessages == {m \in Conns \X (1..MaxEnds) : m[2] <= ends[m[1]]}
Counted == {c \in Conns : loop[c] # "gone" /\ ends[c] > 0}

\* The counter covers the connections that were counted, up to the early ones.
CounterCovers ==
  /\ currentConn \in Int /\ early \in Nat /\ early <= Cardinality(Gone)
  /\ -Cardinality(Gone) <= currentConn /\ currentConn <= Cardinality(EndMessages)
  /\ Cardinality(Counted) <= currentConn + early

\* Where the event loop of c may be, by what is known of its runtime.
LoopKnows(c) ==
  /\ loop[c] = "end" => conns[c].handshake /\ ~conns[c].initialized
  /\ loop[c] \in {"end", "store", "register", "install", "fetch"} => ends[c] > 0
  /\ loop[c] \in {"store", "register", "install", "fetch", "delete", "uninstall"}
       => conns[c].initialized
  /\ conns[c].initialized => ends[c] > 0 /\ loop[c] # "none"
  /\ conns[c].installed => conns[c].initialized
  /\ loop[c] \in {"closed", "delete", "uninstall", "leave", "gone"} => ~conns[c].open

\* The runtime under the identity has not yet deleted it, and an installation has an
\* owner that will remove it.
Owned ==
  /\ debugging # "none" =>
       /\ conns[debugging].initialized
       /\ loop[debugging] \in {"register", "install", "fetch", "idle", "closed", "delete"}
  /\ installation /\ ~dbFailed => \E c \in Conns :
       conns[c].installed /\ loop[c] \in {"idle", "closed", "delete", "uninstall"}

\* Without an overlap one runtime is present at a time, and it is the one that is stored
\* and installed.
Alone ==
  ~overlapped => \A c \in Conns : Present(c) =>
    /\ \A d \in Conns \ {c} : ~Present(d)
    /\ loop[c] \in {"register", "install", "fetch", "idle", "closed", "delete"} => debugging = c
    /\ loop[c] \in {"fetch", "idle", "closed", "delete"} /\ ~dbFailed => installation

DebugIInv ==
  /\ DebugTypeOK /\ CounterCovers /\ (\A c \in Conns : LoopKnows(c)) /\ Owned /\ Alone
  /\ ConnectionLimit /\ PublishedIsComplete /\ SessionsAreTold
  /\ session.state # "none" => session.conn \in Conns
=============================================================================
