----------------------------- MODULE EngineClient -----------------------------
(***************************************************************************)
(* The engine and the MyFlowHub client below it: core/engine/engine.go,    *)
(* core/myflowhub/client.go and the commands of the bridge that drive them.*)
(*                                                                         *)
(* Commands are serialized by stdioHost.cmdMu.  The web bridge stops the   *)
(* engine a second time in the background after a shutdown and goes on     *)
(* serving, so that Stop runs beside the next command.  The session may    *)
(* break and the process may die at any point.  Start, Stop and            *)
(* UpdateConfig of the runtime are single calls here that succeed or fail  *)
(* (RuntimeLifecycle has their steps).                                     *)
(*                                                                         *)
(* External: the SDK's client, whose Connect fails when Close overtakes it *)
(* and may be repeated when it failed, and the hub, which issues one node  *)
(* id for each device; a node id is written as the device it stands for.   *)
(***************************************************************************)
EXTENDS Naturals, Sequences

CONSTANTS
    Devices, Endpoints,      \* what a configuration may name
    Configs, InitialConfig,  \* configurations the user may set
    NoDevice, NoEndpoint,    \* the empty strings
    QueueLimit,              \* capacity of the client's event channel
    MaxSessions,             \* bound on the connections made
    MaxRuns                  \* bound on the runtimes started

Config == [device : Devices, endpoint : Endpoints, enabled : BOOLEAN]

ASSUME ConfigAssumption == Configs \subseteq Config /\ InitialConfig \in Configs
ASSUME NoneAssumption == NoDevice \notin Devices /\ NoEndpoint \notin Endpoints
ASSUME BoundAssumption == {QueueLimit, MaxSessions, MaxRuns} \subseteq Nat

VARIABLES
    stored,     \* the configuration on disk
    disk,       \* auth_snapshot.json
    cfg,        \* Engine.cfg
    runtime,    \* Engine.runtime: its number (0: none) and its node id
    consumers,  \* runtimes whose consumeRuntime goroutine is alive
    op,         \* what the command thread and the background Stop do
    sdk,        \* Client.client: none, idle or open
    endpoint,   \* Client.endpoint
    connected,  \* Client.connected
    auth,       \* Client.auth
    events,     \* Client.events, the session each message came in
    session,    \* number of the last connection
    bound,      \* the node id the hub has bound that connection to
    runs,       \* history: runtimes started
    since,      \* history: the session each of them was started in
    answer,     \* history: result of the last connect, until it is outdated
    lost,       \* history: whether this session broke
    raced,      \* history: whether Start began beside a background Stop
    stale       \* history: whether a runtime was given an earlier session's message

diskVars   == <<stored, disk>>
engineVars == <<cfg, runtime, consumers>>
clientVars == <<sdk, endpoint, connected, auth>>
linkVars   == <<session, bound, lost>>
runVars    == <<runs, since>>
vars == <<diskVars, engineVars, op, clientVars, linkVars, events, runVars,
          answer, raced, stale>>

Threads == {"command", "background"}
NoRuntime == [run |-> 0, node |-> NoDevice]
NoAuth == [device |-> NoDevice, node |-> NoDevice, loggedIn |-> FALSE]

\* A call in progress: its phase, the configuration it works with, the
\* runtime it is stopping, the node id it has found, whether it has failed
\* and the snapshot it is saving.
Running(kind, phase, next) ==
    [kind |-> kind, pc |-> phase, next |-> next, run |-> 0, node |-> NoDevice,
     failed |-> FALSE, snap |-> NoAuth]
IdleOp == Running("none", "idle", InitialConfig)

At(t, phase) == op[t].pc = phase
Goto(t, phase) == op' = [op EXCEPT ![t].pc = phase]
Finish(t) == op' = [op EXCEPT ![t] = IdleOp]
CommandIdle == At("command", "idle")
Started == runtime.run # 0

Init ==
    /\ stored = InitialConfig /\ disk = NoAuth
    /\ cfg = InitialConfig /\ runtime = NoRuntime /\ consumers = {}
    /\ op = [t \in Threads |-> IdleOp]
    /\ sdk = "none" /\ endpoint = NoEndpoint /\ connected = FALSE
    /\ auth = NoAuth
    /\ events = << >>
    /\ session = 0 /\ bound = NoDevice /\ lost = FALSE
    /\ runs = 0 /\ since = [n \in 1 .. MaxRuns |-> 0]
    /\ answer = "none" /\ raced = FALSE /\ stale = FALSE
-------------------------------------------------------------------------------
(* Client. *)

\* ensureClient: a client that was closed is replaced by a new one.
Ensured == IF sdk = "none" THEN "idle" ELSE sdk

\* onClientError: the session breaks.
SessionError ==
    /\ sdk = "open"
    /\ sdk' = "idle" /\ connected' = FALSE
    /\ lost' = TRUE /\ bound' = NoDevice /\ answer' = "none"
    /\ UNCHANGED <<diskVars, engineVars, op, endpoint, auth, session, events,
                   runVars, raced, stale>>

\* onUnmatchedFrame: a message comes in, in a session in which a runtime has
\* subscribed or is about to; it is dropped when the channel is full.
Mutant_FrameArrives ==
    /\ sdk = "open"
    /\ At("command", "runtime") \/ \E n \in 1 .. runs : since[n] = session
    /\ Len(events) <= QueueLimit
    /\ events' = Append(events, session)
    /\ UNCHANGED <<diskVars, engineVars, op, clientVars, linkVars, runVars, answer,
                   raced, stale>>
FrameArrives ==
    /\ sdk = "open"
    /\ At("command", "runtime") \/ \E n \in 1 .. runs : since[n] = session
    /\ Len(events) < QueueLimit
    /\ events' = Append(events, session)
    /\ UNCHANGED <<diskVars, engineVars, op, clientVars, linkVars, runVars, answer,
                   raced, stale>>

\* Close, first part: the client is taken out and closed.
CloseSession(t) ==
    /\ At(t, "close")
    /\ sdk' = "none" /\ endpoint' = NoEndpoint /\ bound' = NoDevice
    /\ Goto(t, "mark")
    /\ UNCHANGED <<diskVars, engineVars, connected, auth, session, lost, events,
                   runVars, answer, raced, stale>>

\* Close, second part: connected and LoggedIn are reset.
Mutant_CloseMarks(t) ==
    /\ At(t, "mark")
    /\ connected' = FALSE
    /\ op' = [op EXCEPT ![t].pc = "save", ![t].snap = auth]
    /\ answer' = "none"
    /\ UNCHANGED <<diskVars, engineVars, sdk, endpoint, auth, linkVars, events,
                   runVars, raced, stale>>
CloseMarks(t) ==
    /\ At(t, "mark")
    /\ connected' = FALSE
    /\ auth' = [auth EXCEPT !.loggedIn = FALSE]
    /\ op' = [op EXCEPT ![t].pc = "save", ![t].snap = auth']
    /\ answer' = "none"
    /\ UNCHANGED <<diskVars, engineVars, sdk, endpoint, linkVars, events, runVars,
                   raced, stale>>

\* Close, last part: the snapshot is written, or cannot be.  A switch of
\* endpoints goes on to connect, a change of identity whose Stop has not failed
\* to clear the credentials, and a shutdown leaves a Stop in the background.
CloseSaves(t) ==
    /\ At(t, "save")
    /\ \E ok \in BOOLEAN :
          /\ disk' = IF ok THEN op[t].snap ELSE disk
          /\ CASE op[t].kind = "start" /\ ~ op[t].failed -> Goto(t, "dial")
               [] op[t].kind = "update" /\ ok /\ ~ op[t].failed -> Goto(t, "clear")
               [] op[t].kind = "shutdown" ->
                     op' = [op EXCEPT ![t] = IdleOp,
                              !["background"] = Running("stop", "take", InitialConfig)]
               [] OTHER -> Finish(t)
    /\ UNCHANGED <<stored, engineVars, clientVars, linkVars, events, runVars, answer,
                   raced, stale>>
-------------------------------------------------------------------------------
(* Engine.Start, the connect command. *)

\* A started engine answers at once.  Connect closes a client that was
\* connected to another endpoint.
BeginStart ==
    /\ CommandIdle
    /\ IF Started
       THEN answer' = "ok" /\ UNCHANGED <<op, raced>>
       ELSE /\ op' = [op EXCEPT !["command"] =
                         Running("start",
                                 IF endpoint \in {NoEndpoint, cfg.endpoint}
                                 THEN "dial" ELSE "close", cfg)]
            /\ answer' = "none"
            /\ raced' = ~ At("background", "idle")
    /\ UNCHANGED <<diskVars, engineVars, clientVars, linkVars, events, runVars,
                   stale>>

Dial ==
    /\ At("command", "dial")
    /\ sdk' = Ensured
    /\ Goto("command", "connect")
    /\ UNCHANGED <<diskVars, engineVars, endpoint, connected, auth, linkVars, events,
                   runVars, answer, raced, stale>>

\* A client that is connected already is taken as it is.
ConnectSucceeds ==
    /\ At("command", "connect")
    /\ \/ sdk = "open" /\ UNCHANGED <<sdk, linkVars>>
       \/ /\ sdk = "idle" /\ session < MaxSessions
          /\ sdk' = "open" /\ session' = session + 1
          /\ bound' = NoDevice /\ lost' = FALSE
    /\ Goto("command", "connected")
    /\ UNCHANGED <<diskVars, engineVars, endpoint, connected, auth, events, runVars,
                   answer, raced, stale>>

\* The hub cannot be reached, or the command is cancelled, which closes a session.
ConnectFails ==
    /\ At("command", "connect")
    /\ IF sdk = "open" THEN sdk' = "idle" /\ bound' = NoDevice
                       ELSE UNCHANGED <<sdk, bound>>
    /\ Finish("command")
    /\ UNCHANGED <<diskVars, engineVars, endpoint, connected, auth, session, lost,
                   events, runVars, answer, raced, stale>>

ConnectMarks ==
    /\ At("command", "connected")
    /\ connected' = TRUE
    /\ endpoint' = op["command"].next.endpoint
    /\ Goto("command", "identify")
    /\ UNCHANGED <<diskVars, engineVars, sdk, auth, linkVars, events, runVars,
                   answer, raced, stale>>

\* A failing Start closes the client.
StartFails == op' = [op EXCEPT !["command"].pc = "close",
                               !["command"].failed = TRUE]

\* Whether a snapshot belongs to another device than d.
Mutant_IsForeign(snapshot, d) == FALSE
IsForeign(snapshot, d) ==
    /\ snapshot.device # d
    /\ snapshot.device = NoDevice => snapshot.node # NoDevice

\* EnsureIdentity: a foreign snapshot is cleared, which may fail to reach the
\* disk; then a node id is registered for, logged in with, or used as it is.
Identify ==
    LET d == op["command"].next.device IN
    /\ At("command", "identify")
    /\ \/ /\ IsForeign(auth, d)
          /\ auth' = NoAuth
          /\ \/ disk' = NoAuth /\ Goto("command", "register")
             \/ UNCHANGED disk /\ StartFails
       \/ /\ ~ IsForeign(auth, d)
          /\ CASE auth.node = NoDevice -> Goto("command", "register")
               [] auth.node # NoDevice /\ ~ auth.loggedIn -> Goto("command", "login")
               [] auth.node # NoDevice /\ auth.loggedIn ->
                     op' = [op EXCEPT !["command"].pc = "runtime",
                                      !["command"].node = auth.node]
          /\ UNCHANGED <<auth, disk>>
    /\ UNCHANGED <<stored, engineVars, sdk, endpoint, connected, linkVars, events,
                   runVars, answer, raced, stale>>

\* The hub answers Register or Login: the node id is kept in memory, and on
\* disk unless writing it fails, which is ignored.
Granted(node) ==
    /\ connected /\ sdk = "open"
    /\ auth' = [device |-> op["command"].next.device, node |-> node,
                loggedIn |-> TRUE]
    /\ disk' \in {auth', disk}

\* Register or Login fails before its request, on its way, or is refused.
Refused ==
    /\ sdk' \in {sdk, Ensured}
    /\ auth' \in {auth, [auth EXCEPT !.loggedIn = FALSE]}
    /\ StartFails
    /\ UNCHANGED <<disk, bound>>

Register ==
    /\ At("command", "register")
    /\ \/ /\ Granted(op["command"].next.device)
          /\ Goto("command", "login")
          /\ UNCHANGED <<sdk, bound>>
       \/ Refused
    /\ UNCHANGED <<stored, engineVars, endpoint, connected, session, lost, events,
                   runVars, answer, raced, stale>>

Login ==
    /\ At("command", "login")
    /\ \/ /\ Granted(auth.node)
          /\ bound' = auth.node
          /\ op' = [op EXCEPT !["command"].pc = "runtime",
                              !["command"].node = auth.node]
          /\ UNCHANGED sdk
       \/ Refused
    /\ UNCHANGED <<stored, engineVars, endpoint, connected, session, lost, events,
                   runVars, answer, raced, stale>>

\* runtime.New and its Start, with the node id of the snapshot; only a disabled
\* runtime starts without subscribing.
RuntimeStarts ==
    /\ At("command", "runtime")
    /\ op["command"].next.enabled => sdk = "open" /\ auth.loggedIn
    /\ runs < MaxRuns
    /\ runs' = runs + 1
    /\ since' = [since EXCEPT ![runs + 1] = session]
    /\ Goto("command", "install")
    /\ UNCHANGED <<diskVars, engineVars, clientVars, linkVars, events, answer, raced,
                   stale>>

Mutant_RuntimeFails ==
    /\ At("command", "runtime")
    /\ Finish("command")
    /\ UNCHANGED <<diskVars, engineVars, clientVars, linkVars, events, runVars,
                   answer, raced, stale>>
RuntimeFails ==
    /\ At("command", "runtime")
    /\ StartFails
    /\ UNCHANGED <<diskVars, engineVars, clientVars, linkVars, events, runVars,
                   answer, raced, stale>>

Install ==
    /\ At("command", "install")
    /\ runtime' = [run |-> runs, node |-> op["command"].node]
    /\ consumers' = consumers \cup {runs}
    /\ answer' = IF lost THEN "none" ELSE "ok"
    /\ Finish("command")
    /\ UNCHANGED <<diskVars, cfg, clientVars, linkVars, events, runVars, raced,
                   stale>>
-------------------------------------------------------------------------------
(* The consumer of a runtime.  Its select may still prefer a message when its  *)
(* context is cancelled, so it may take some more before it ends.              *)
Consume(n) ==
    /\ n \in consumers
    /\ events # << >>
    /\ events' = Tail(events)
    /\ stale' = (stale \/ Head(events) < since[n])
    /\ UNCHANGED <<diskVars, engineVars, op, clientVars, linkVars, runVars, answer,
                   raced>>

ConsumerEnds(n) ==
    /\ n \in consumers /\ n # runtime.run
    /\ consumers' = consumers \ {n}
    /\ UNCHANGED <<diskVars, cfg, runtime, op, clientVars, linkVars, events, runVars,
                   answer, raced, stale>>
-------------------------------------------------------------------------------
(* Engine.Stop, by a command or in the background. *)

StopTakes(t) ==
    /\ At(t, "take")
    /\ op' = [op EXCEPT ![t].pc = "stop", ![t].run = runtime.run]
    /\ runtime' = NoRuntime
    /\ answer' = "none"
    /\ UNCHANGED <<diskVars, cfg, consumers, clientVars, linkVars, events, runVars,
                   raced, stale>>

\* Stop waits for the consumer, two seconds at most, so that the consumer may
\* be gone or not; stopping the runtime may fail and the client is closed.
StopRuntime(t) ==
    /\ At(t, "stop")
    /\ \E failed \in IF op[t].run = 0 THEN {FALSE} ELSE BOOLEAN :
          op' = [op EXCEPT ![t].pc = "close", ![t].failed = failed]
    /\ UNCHANGED <<diskVars, engineVars, clientVars, linkVars, events, runVars,
                   answer, raced, stale>>

\* The shutdown command; a second one waits until the background Stop of the
\* first has ended (a bound).  The stdio bridge exits after it: see Restart.
BeginShutdown ==
    /\ CommandIdle /\ At("background", "idle")
    /\ op' = [op EXCEPT !["command"] = Running("shutdown", "take", InitialConfig)]
    /\ UNCHANGED <<diskVars, engineVars, clientVars, linkVars, events, runVars,
                   answer, raced, stale>>
-------------------------------------------------------------------------------
(* Engine.UpdateConfig, after set_config has stored the configuration. *)

Mutant_IdentityChanged(c) == FALSE
IdentityChanged(c) == c.device # cfg.device

\* A new device stops the engine first; anything else is kept at once and
\* handed to the runtime, whether that succeeds or not.
BeginUpdate(c) ==
    /\ CommandIdle
    /\ stored' = c
    /\ IF IdentityChanged(c)
       THEN /\ op' = [op EXCEPT !["command"] = Running("update", "take", c)]
            /\ UNCHANGED cfg
       ELSE cfg' = c /\ UNCHANGED op
    /\ UNCHANGED <<disk, runtime, consumers, clientVars, linkVars, events, runVars,
                   answer, raced, stale>>

\* ClearAuth; the configuration is kept only if the disk was reached.
ClearIdentity ==
    /\ At("command", "clear")
    /\ auth' = NoAuth
    /\ \/ disk' = NoAuth /\ cfg' = op["command"].next
       \/ UNCHANGED <<disk, cfg>>
    /\ Finish("command")
    /\ UNCHANGED <<stored, runtime, consumers, sdk, endpoint, connected, linkVars,
                   events, runVars, answer, raced, stale>>
-------------------------------------------------------------------------------
\* loadAuthSnapshot: a login does not outlive its process.
Mutant_Loaded(snapshot) == snapshot
Loaded(snapshot) == [snapshot EXCEPT !.loggedIn = FALSE]

\* Phases in which auth_snapshot.json is being written, in place.
Writing == \/ \E t \in Threads : At(t, "save")
           \/ \E phase \in {"identify", "register", "login", "clear"} :
                 At("command", phase)

\* The process dies, or ends, and a new one is started.  A snapshot that was
\* being written may be unreadable, which counts as none.
Restart ==
    /\ disk' \in {disk} \cup (IF Writing THEN {NoAuth} ELSE {})
    /\ cfg' = stored /\ runtime' = NoRuntime /\ consumers' = {}
    /\ op' = [t \in Threads |-> IdleOp]
    /\ sdk' = "none" /\ endpoint' = NoEndpoint /\ connected' = FALSE
    /\ auth' = Loaded(disk')
    /\ events' = << >> /\ bound' = NoDevice
    /\ answer' = "none" /\ raced' = FALSE
    /\ UNCHANGED <<stored, session, lost, runVars, stale>>
-------------------------------------------------------------------------------
Next ==
    \/ SessionError \/ FrameArrives
    \/ \E t \in Threads : CloseSession(t) \/ CloseMarks(t) \/ CloseSaves(t)
    \/ BeginStart \/ Dial \/ ConnectSucceeds \/ ConnectFails \/ ConnectMarks
    \/ Identify \/ Register \/ Login
    \/ RuntimeStarts \/ RuntimeFails \/ Install
    \/ \E n \in 1 .. MaxRuns : Consume(n) \/ ConsumerEnds(n)
    \/ \E t \in Threads : StopTakes(t) \/ StopRuntime(t)
    \/ BeginShutdown
    \/ \E c \in Configs : BeginUpdate(c)
    \/ ClearIdentity
    \/ Restart

Spec == Init /\ [][Next]_vars
-------------------------------------------------------------------------------
(* Properties. *)

Nodes == Devices \cup {NoDevice}
Snapshots == [device : Nodes, node : Nodes, loggedIn : BOOLEAN]
Phases == {"idle", "close", "mark", "save", "dial", "connect", "connected",
           "identify", "register", "login", "runtime", "install", "take", "stop",
           "clear"}
Kinds == {"none", "start", "stop", "shutdown", "update"}
Operations == [kind : Kinds, pc : Phases, next : Configs, run : 0 .. MaxRuns,
               node : Nodes, failed : BOOLEAN, snap : Snapshots]

\* The shape of engine and client; the event channel keeps its capacity.
TypeOK ==
    /\ stored \in Configs /\ cfg \in Configs
    /\ disk \in Snapshots /\ auth \in Snapshots
    /\ runtime \in [run : 0 .. MaxRuns, node : Nodes]
    /\ consumers \subseteq 1 .. MaxRuns
    /\ op \in [Threads -> Operations]
    /\ sdk \in {"none", "idle", "open"}
    /\ endpoint \in Endpoints \cup {NoEndpoint}
    /\ connected \in BOOLEAN /\ lost \in BOOLEAN
    /\ raced \in BOOLEAN /\ stale \in BOOLEAN
    /\ events \in Seq(0 .. MaxSessions) /\ Len(events) <= QueueLimit
    /\ session \in 0 .. MaxSessions
    /\ bound \in Nodes
    /\ runs \in 0 .. MaxRuns
    /\ since \in [1 .. MaxRuns -> 0 .. MaxSessions]
    /\ answer \in {"none", "ok"}

\* A running runtime acts for the device the user configured, with the node id
\* issued for it, and so does the client it publishes through: across crashes,
\* failed writes and failed changes of identity, nothing of another device's
\* login is used (engine.go:205-223, client.go:158-179).
RuntimeIsConfiguredDevice ==
    Started => /\ runtime.node = cfg.device
               /\ auth.node = cfg.device
               /\ auth.device = cfg.device

\* Without a runtime, and with nothing in progress, there is no session that
\* looks usable: every failure of Start and every Stop closes it, also beside a
\* background Stop (engine.go:114-119, 182-185; client.go:433-456).
OfflineWhenStopped ==
    ~ Started /\ (\A t \in Threads : At(t, "idle")) =>
        ~ connected /\ ~ auth.loggedIn /\ sdk # "open" /\ endpoint = NoEndpoint

\* A login belongs to its session: a running engine whose session has not
\* broken, and whose Start was not disturbed by a background Stop, is bound at
\* the hub to its node id (client.go:166-171, 446-450, 603).
StartedIsBound ==
    Started /\ ~ lost /\ ~ raced =>
        /\ sdk = "open" /\ connected
        /\ auth.loggedIn
        /\ bound = runtime.node
-------------------------------------------------------------------------------
(* Statements of the documentation that the code does not keep. *)

\* docs/requirements/clipboard-sync.md:88: "ClipboardNode must resubscribe to
\* every configured topic route after reconnect or login when enabled".  So a
\* connect command that has just succeeded leaves an enabled node connected.
ConnectMeansConnected == answer = "ok" /\ cfg.enabled /\ ~ raced => connected

\* docs/requirements/clipboard-sync.md:69: after a reconnect "only new online
\* events are synchronized".
OnlyNewOnlineEvents == ~ stale
===============================================================================
