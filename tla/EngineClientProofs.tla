-------------------------- MODULE EngineClientProofs --------------------------
(***************************************************************************)
(* Theorems about EngineClient, for any devices, endpoints, configurations *)
(* and bounds.                                                             *)
(***************************************************************************)
EXTENDS EngineClient, TLAPS

Command == op["command"]
Background == op["background"]

StartPhases == {"dial", "connect", "connected", "identify", "register", "login",
                "runtime", "install"}
ClosePhases == {"close", "mark", "save"}

\* The phases each operation goes through, and when the engine is stopped.
PhaseInv ==
    /\ Command.kind \in {"none", "start", "update", "shutdown"}
    /\ Command.kind = "none" <=> Command.pc = "idle"
    /\ Command.kind = "start" => /\ Command.pc \in StartPhases \cup ClosePhases
                                 /\ Command.next = cfg
                                 /\ ~ Started
    /\ Command.kind \in {"update", "shutdown"} =>
          /\ Command.pc \in {"take", "stop", "clear"} \cup ClosePhases
          /\ Command.pc # "take" => ~ Started
    /\ Command.pc = "clear" => Command.kind = "update"
    /\ Command.pc = "install" => runs # 0
    /\ \/ Background.kind = "none" /\ Background.pc = "idle"
       \/ /\ Background.kind = "stop"
          /\ Background.pc \in {"take", "stop"} \cup ClosePhases

\* A snapshot's node id was issued for its device.
IsOwn(snapshot) == snapshot.node # NoDevice => snapshot.node = snapshot.device

\* Whose credentials are in use.
IdentityInv ==
    /\ IsOwn(auth) /\ IsOwn(disk)
    /\ IsOwn(Command.snap) /\ IsOwn(Background.snap)
    /\ Command.pc \in {"login", "runtime", "install"} =>
          auth.node = Command.next.device /\ auth.device = Command.next.device
    /\ Command.pc \in {"runtime", "install"} => Command.node = Command.next.device
    /\ RuntimeIsConfiguredDevice

\* What a stopped engine may still hold, and which Stop will take it away.
OfflineInv ==
    ~ Started =>
       /\ /\ Command.pc \in {"idle", "dial", "connect", "mark", "save", "clear"}
          /\ sdk = "open" \/ endpoint # NoEndpoint
          => Background.pc \in {"take", "stop", "close"}
       /\ /\ Command.pc \in {"idle", "dial", "connect", "save", "clear"}
          /\ connected \/ auth.loggedIn
          => Background.pc \in {"take", "stop", "close", "mark"}

\* How far an undisturbed Start has got, unless its session has broken.
BoundInv ==
    ~ raced =>
       /\ Started \/ Command.kind = "start" => Background.pc = "idle"
       /\ Command.kind = "start" =>
             /\ Command.pc \in ClosePhases => Command.failed
             /\ Command.pc = "connected" => ~ auth.loggedIn /\ (lost \/ sdk = "open")
             /\ Command.pc \in {"identify", "register"} =>
                   ~ auth.loggedIn /\ (lost \/ (sdk = "open" /\ connected))
             /\ Command.pc = "login" => lost \/ (sdk = "open" /\ connected)
             /\ Command.pc \in {"runtime", "install"} =>
                   /\ auth.loggedIn
                   /\ \/ lost
                      \/ sdk = "open" /\ connected /\ bound = Command.node
       /\ StartedIsBound

EngineInv == TypeOK /\ PhaseInv /\ IdentityInv /\ OfflineInv /\ BoundInv
-------------------------------------------------------------------------------
\* What the record of a call in progress is made of.
LEMMA RunningFields ==
    ASSUME NEW kind \in Kinds, NEW phase \in Phases, NEW c \in Configs
    PROVE  /\ Running(kind, phase, c) \in Operations
           /\ Running(kind, phase, c).kind = kind
           /\ Running(kind, phase, c).pc = phase
           /\ Running(kind, phase, c).next = c
           /\ ~ Running(kind, phase, c).failed
           /\ Running(kind, phase, c).snap = NoAuth
<1>1. NoAuth \in Snapshots
  BY DEF NoAuth, Snapshots, Nodes
<1>2. 0 \in 0 .. MaxRuns
  BY BoundAssumption
<1>3. QED
  BY <1>1, <1>2 DEF Running, Operations, Nodes

LEMMA IdleOpFields ==
    /\ IdleOp \in Operations
    /\ IdleOp.kind = "none" /\ IdleOp.pc = "idle" /\ IdleOp.snap = NoAuth
<1>1. "none" \in Kinds /\ "idle" \in Phases /\ InitialConfig \in Configs
  BY ConfigAssumption DEF Kinds, Phases
<1>2. QED
  BY <1>1, RunningFields DEF IdleOp

\* A call moves to another phase and keeps the rest.
LEMMA GotoFields ==
    ASSUME op \in [Threads -> Operations], NEW t \in Threads,
           NEW phase \in Phases, Goto(t, phase)
    PROVE  /\ op' \in [Threads -> Operations]
           /\ op'[t].pc = phase
           /\ op'[t].kind = op[t].kind /\ op'[t].next = op[t].next
           /\ op'[t].node = op[t].node /\ op'[t].failed = op[t].failed
           /\ op'[t].snap = op[t].snap
           /\ \A u \in Threads \ {t} : op'[u] = op[u]
<1>1. op[t] \in Operations
  OBVIOUS
<1> DEFINE moved == [op[t] EXCEPT !.pc = phase]
<1>2. /\ moved \in Operations /\ moved.pc = phase
      /\ moved.kind = op[t].kind /\ moved.next = op[t].next
      /\ moved.node = op[t].node /\ moved.failed = op[t].failed
      /\ moved.snap = op[t].snap
  BY <1>1 DEF Operations
<1>3. op' = [op EXCEPT ![t] = moved]
  BY DEF Goto
<1> HIDE DEF moved
<1>4. QED
  BY <1>2, <1>3

LEMMA FinishFields ==
    ASSUME op \in [Threads -> Operations], NEW t \in Threads, Finish(t)
    PROVE  /\ op' \in [Threads -> Operations]
           /\ op'[t].pc = "idle" /\ op'[t].kind = "none" /\ op'[t].snap = NoAuth
           /\ \A u \in Threads \ {t} : op'[u] = op[u]
BY IdleOpFields DEF Finish

LEMMA StartFailsFields ==
    ASSUME op \in [Threads -> Operations], StartFails
    PROVE  /\ op' \in [Threads -> Operations]
           /\ Command'.pc = "close" /\ Command'.failed = TRUE
           /\ Command'.kind = Command.kind /\ Command'.next = Command.next
           /\ Command'.node = Command.node
           /\ Command'.snap = Command.snap
           /\ Background' = Background
<1> DEFINE moved == [op["command"] EXCEPT !.pc = "close", !.failed = TRUE]
<1>1. op["command"] \in Operations
  BY DEF Threads
<1>2. /\ moved \in Operations /\ moved.pc = "close" /\ moved.failed = TRUE
      /\ moved.kind = Command.kind /\ moved.next = Command.next
      /\ moved.node = Command.node
      /\ moved.snap = Command.snap
  BY <1>1 DEF Operations, Phases, Command
<1>3. op' = [op EXCEPT !["command"] = moved]
  BY DEF StartFails
<1> HIDE DEF moved
<1>4. QED
  BY <1>2, <1>3 DEF Command, Background, Threads

\* A login ends with a node id for the runtime.
LEMMA ToRuntimeFields ==
    ASSUME op \in [Threads -> Operations], NEW node \in Nodes,
           op' = [op EXCEPT !["command"].pc = "runtime", !["command"].node = node]
    PROVE  /\ op' \in [Threads -> Operations]
           /\ Command'.pc = "runtime" /\ Command'.node = node
           /\ Command'.kind = Command.kind /\ Command'.next = Command.next
           /\ Command'.failed = Command.failed /\ Command'.snap = Command.snap
           /\ Background' = Background
<1> DEFINE moved == [op["command"] EXCEPT !.pc = "runtime", !.node = node]
<1>1. op["command"] \in Operations
  BY DEF Threads
<1>2. /\ moved \in Operations /\ moved.pc = "runtime" /\ moved.node = node
      /\ moved.kind = Command.kind /\ moved.next = Command.next
      /\ moved.failed = Command.failed /\ moved.snap = Command.snap
  BY <1>1 DEF Operations, Phases, Command
<1>3. op' = [op EXCEPT !["command"] = moved]
  OBVIOUS
<1> HIDE DEF moved
<1>4. QED
  BY <1>2, <1>3 DEF Command, Background, Threads

\* Two fields of a call change at once.
LEMMA SaveFields ==
    ASSUME op \in [Threads -> Operations], NEW t \in Threads,
           NEW snapshot \in Snapshots,
           op' = [op EXCEPT ![t].pc = "save", ![t].snap = snapshot]
    PROVE  /\ op' \in [Threads -> Operations]
           /\ op'[t].pc = "save" /\ op'[t].snap = snapshot
           /\ op'[t].kind = op[t].kind /\ op'[t].next = op[t].next
           /\ op'[t].node = op[t].node /\ op'[t].failed = op[t].failed
           /\ \A u \in Threads \ {t} : op'[u] = op[u]
<1>1. op[t] \in Operations
  OBVIOUS
<1> DEFINE moved == [op[t] EXCEPT !.pc = "save", !.snap = snapshot]
<1>2. /\ moved \in Operations /\ moved.pc = "save" /\ moved.snap = snapshot
      /\ moved.kind = op[t].kind /\ moved.next = op[t].next
      /\ moved.node = op[t].node /\ moved.failed = op[t].failed
  BY <1>1 DEF Operations, Phases
<1>3. op' = [op EXCEPT ![t] = moved]
  OBVIOUS
<1> HIDE DEF moved
<1>4. QED
  BY <1>2, <1>3

LEMMA TakeFields ==
    ASSUME op \in [Threads -> Operations], NEW t \in Threads, NEW n \in 0 .. MaxRuns,
           op' = [op EXCEPT ![t].pc = "stop", ![t].run = n]
    PROVE  /\ op' \in [Threads -> Operations]
           /\ op'[t].pc = "stop" /\ op'[t].snap = op[t].snap
           /\ op'[t].kind = op[t].kind /\ op'[t].next = op[t].next
           /\ \A u \in Threads \ {t} : op'[u] = op[u]
<1>1. op[t] \in Operations
  OBVIOUS
<1> DEFINE moved == [op[t] EXCEPT !.pc = "stop", !.run = n]
<1>2. /\ moved \in Operations /\ moved.pc = "stop" /\ moved.snap = op[t].snap
      /\ moved.kind = op[t].kind /\ moved.next = op[t].next
  BY <1>1 DEF Operations, Phases
<1>3. op' = [op EXCEPT ![t] = moved]
  OBVIOUS
<1> HIDE DEF moved
<1>4. QED
  BY <1>2, <1>3

LEMMA StoppedFields ==
    ASSUME op \in [Threads -> Operations], NEW t \in Threads, NEW b \in BOOLEAN,
           op' = [op EXCEPT ![t].pc = "close", ![t].failed = b]
    PROVE  /\ op' \in [Threads -> Operations]
           /\ op'[t].pc = "close" /\ op'[t].snap = op[t].snap
           /\ op'[t].kind = op[t].kind /\ op'[t].next = op[t].next
           /\ \A u \in Threads \ {t} : op'[u] = op[u]
<1>1. op[t] \in Operations
  OBVIOUS
<1> DEFINE moved == [op[t] EXCEPT !.pc = "close", !.failed = b]
<1>2. /\ moved \in Operations /\ moved.pc = "close" /\ moved.snap = op[t].snap
      /\ moved.kind = op[t].kind /\ moved.next = op[t].next
  BY <1>1 DEF Operations, Phases
<1>3. op' = [op EXCEPT ![t] = moved]
  OBVIOUS
<1> HIDE DEF moved
<1>4. QED
  BY <1>2, <1>3

LEMMA EngineInvInitial == Init => EngineInv
<1> SUFFICES ASSUME Init
             PROVE  EngineInv
  OBVIOUS
<1> USE DEF Init
<1>1. Command = IdleOp /\ Background = IdleOp
  BY DEF Command, Background, Threads
<1>2. op \in [Threads -> Operations]
  BY IdleOpFields
<1>3. TypeOK
  <2>1. NoAuth \in Snapshots /\ NoRuntime \in [run : 0 .. MaxRuns, node : Nodes]
    BY BoundAssumption DEF NoAuth, NoRuntime, Snapshots, Nodes
  <2>2. /\ events \in Seq(0 .. MaxSessions) /\ Len(events) <= QueueLimit
        /\ session \in 0 .. MaxSessions /\ runs \in 0 .. MaxRuns
        /\ since \in [1 .. MaxRuns -> 0 .. MaxSessions]
    BY BoundAssumption
  <2>3. QED
    BY <1>2, <2>1, <2>2, ConfigAssumption DEF TypeOK, Nodes
<1>4. PhaseInv
  BY <1>1, IdleOpFields DEF PhaseInv
<1>5. IdentityInv
  BY <1>1, IdleOpFields DEF IdentityInv, IsOwn, NoAuth, RuntimeIsConfiguredDevice,
     Started, NoRuntime
<1>6. OfflineInv /\ BoundInv
  BY <1>1, IdleOpFields DEF OfflineInv, BoundInv, StartedIsBound, Started,
     NoRuntime, NoAuth
<1>7. QED
  BY <1>3, <1>4, <1>5, <1>6 DEF EngineInv

LEMMA EngineInvPreserved == EngineInv /\ [Next]_vars => EngineInv'
<1> SUFFICES ASSUME EngineInv, [Next]_vars
             PROVE  EngineInv'
  OBVIOUS
<1> USE BoundAssumption
    DEF EngineInv, diskVars, engineVars, clientVars, linkVars, runVars, At, CommandIdle
<1>1. ASSUME SessionError
      PROVE  EngineInv'
  <2>1. op' = op /\ Command' = Command /\ Background' = Background
    BY <1>1 DEF SessionError, Command, Background
  <2>2. TypeOK'
    BY <1>1, <2>1 DEF SessionError, TypeOK, Nodes
  <2>3. PhaseInv'
    BY <1>1, <2>1 DEF SessionError, PhaseInv, StartPhases, ClosePhases, Started
  <2>4. IdentityInv'
    BY <1>1, <2>1, <2>3 DEF SessionError, PhaseInv, IdentityInv, IsOwn, Started,
       StartPhases, ClosePhases, RuntimeIsConfiguredDevice, Command, Background
  <2>5. OfflineInv'
    BY <1>1, <2>1 DEF SessionError, PhaseInv, OfflineInv, Started, StartPhases,
       ClosePhases, Command
  <2>6. BoundInv'
    BY <1>1, <2>1 DEF SessionError, PhaseInv, OfflineInv, BoundInv, StartedIsBound, Started,
       StartPhases, ClosePhases
  <2>7. QED
    BY <2>2, <2>3, <2>4, <2>5, <2>6
<1>2. ASSUME FrameArrives
      PROVE  EngineInv'
  <2>1. op' = op /\ Command' = Command /\ Background' = Background
    BY <1>2 DEF FrameArrives, Command, Background
  <2>2. TypeOK'
    BY <1>2, <2>1 DEF FrameArrives, TypeOK
  <2>3. PhaseInv'
    BY <1>2, <2>1 DEF FrameArrives, PhaseInv, StartPhases, ClosePhases, Started
  <2>4. IdentityInv'
    BY <1>2, <2>1, <2>3 DEF FrameArrives, PhaseInv, IdentityInv, IsOwn, Started,
       StartPhases, ClosePhases, RuntimeIsConfiguredDevice, Command, Background
  <2>5. OfflineInv'
    BY <1>2, <2>1 DEF FrameArrives, PhaseInv, OfflineInv, Started, StartPhases,
       ClosePhases
  <2>6. BoundInv'
    BY <1>2, <2>1 DEF FrameArrives, PhaseInv, OfflineInv, BoundInv, StartedIsBound, Started,
       StartPhases, ClosePhases
  <2>7. QED
    BY <2>2, <2>3, <2>4, <2>5, <2>6
<1>3. ASSUME NEW t \in Threads, CloseSession(t)
      PROVE  EngineInv'
  <2>1. /\ op' \in [Threads -> Operations]
        /\ \/ /\ t = "command" /\ Command.pc = "close"
              /\ Background' = Background
              /\ Command'.pc = "mark"
              /\ Command'.kind = Command.kind /\ Command'.next = Command.next
              /\ Command'.snap = Command.snap
              /\ Command'.failed = Command.failed /\ Command'.node = Command.node
           \/ /\ t = "background" /\ Background.pc = "close"
              /\ Command' = Command
              /\ Background'.pc = "mark"
              /\ Background'.kind = Background.kind /\ Background'.next = Background.next
              /\ Background'.snap = Background.snap
              /\ Background'.failed = Background.failed /\ Background'.node = Background.node
    <3>1. Goto(t, "mark")
      BY <1>3 DEF CloseSession
    <3>2. op \in [Threads -> Operations] /\ "mark" \in Phases
      BY DEF TypeOK, Phases
    <3>3. QED
      BY <1>3, <3>1, <3>2, GotoFields DEF CloseSession, Command, Background, Threads
  <2>2. TypeOK'
    BY <1>3, <2>1 DEF CloseSession, TypeOK, Nodes
  <2>3. PhaseInv'
    BY <1>3, <2>1 DEF CloseSession, PhaseInv, StartPhases, ClosePhases, Started
  <2>4. IdentityInv'
    BY <1>3, <2>1, <2>3 DEF CloseSession, PhaseInv, IdentityInv, IsOwn, Started,
       StartPhases, ClosePhases, RuntimeIsConfiguredDevice
  <2>5. OfflineInv'
    BY <1>3, <2>1 DEF CloseSession, PhaseInv, OfflineInv, Started, StartPhases,
       ClosePhases
  <2>6. BoundInv'
    BY <1>3, <2>1 DEF CloseSession, PhaseInv, OfflineInv, BoundInv, StartedIsBound, Started,
       StartPhases, ClosePhases
  <2>7. QED
    BY <2>2, <2>3, <2>4, <2>5, <2>6
<1>4. ASSUME NEW t \in Threads, CloseMarks(t)
      PROVE  EngineInv'
  <2>1. /\ op' \in [Threads -> Operations]
        /\ \/ /\ t = "command" /\ Command.pc = "mark"
              /\ Background' = Background
              /\ Command'.pc = "save"
              /\ Command'.kind = Command.kind /\ Command'.next = Command.next
              /\ Command'.snap = auth'
              /\ Command'.failed = Command.failed /\ Command'.node = Command.node
           \/ /\ t = "background" /\ Background.pc = "mark"
              /\ Command' = Command
              /\ Background'.pc = "save"
              /\ Background'.kind = Background.kind /\ Background'.next = Background.next
              /\ Background'.snap = auth'
              /\ Background'.failed = Background.failed /\ Background'.node = Background.node
    <3>1. op' = [op EXCEPT ![t].pc = "save", ![t].snap = auth']
      BY <1>4 DEF CloseMarks
    <3>2. op \in [Threads -> Operations] /\ auth' \in Snapshots
      BY <1>4 DEF CloseMarks, TypeOK, Snapshots
    <3>3. QED
      BY <1>4, <3>1, <3>2, SaveFields DEF CloseMarks, Command, Background, Threads
  <2>0. /\ connected' = FALSE
        /\ auth' \in Snapshots /\ ~ auth'.loggedIn
        /\ auth'.node = auth.node /\ auth'.device = auth.device
        /\ answer' = "none"
        /\ UNCHANGED <<diskVars, engineVars, sdk, endpoint, linkVars, events, runVars,
                       raced, stale>>
    BY <1>4 DEF CloseMarks, TypeOK, Snapshots
  <2>2. TypeOK'
    BY <2>0, <2>1 DEF TypeOK, Snapshots
  <2>3. PhaseInv'
    BY <2>0, <2>1 DEF PhaseInv, StartPhases, ClosePhases, Started
  <2>4. IdentityInv'
    BY <2>0, <2>1, <2>3 DEF PhaseInv, IdentityInv, IsOwn, Started,
       StartPhases, ClosePhases, RuntimeIsConfiguredDevice
  <2>5. OfflineInv'
    BY <2>0, <2>1 DEF PhaseInv, OfflineInv, Started, StartPhases,
       ClosePhases
  <2>6. BoundInv'
    BY <2>0, <2>1 DEF PhaseInv, OfflineInv, BoundInv, StartedIsBound, Started,
       StartPhases, ClosePhases
  <2>7. QED
    BY <2>2, <2>3, <2>4, <2>5, <2>6
<1>5. ASSUME NEW t \in Threads, CloseSaves(t)
      PROVE  EngineInv'
  <2>1. /\ op' \in [Threads -> Operations]
        /\ \/ t = "command" /\ Command.pc = "save"
           \/ t = "background" /\ Background.pc = "save" /\ Background.kind = "stop"
        /\ t = "background" =>
              /\ Background'.pc = "idle" /\ Background'.kind = "none"
              /\ Background'.snap = NoAuth /\ Command' = Command
        /\ t = "command" =>
              \/ /\ Command.kind = "start" /\ ~ Command.failed
                 /\ Command'.pc = "dial" /\ Command'.kind = Command.kind
                 /\ Command'.next = Command.next /\ Command'.snap = Command.snap
                 /\ Background' = Background
              \/ /\ Command.kind = "update"
                 /\ Command'.pc = "clear" /\ Command'.kind = Command.kind
                 /\ Command'.snap = Command.snap
                 /\ Background' = Background
              \/ /\ Command.kind = "shutdown"
                 /\ Command'.pc = "idle" /\ Command'.kind = "none"
                 /\ Command'.snap = NoAuth /\ Background'.pc = "take"
                 /\ Background'.kind = "stop" /\ Background'.snap = NoAuth
              \/ /\ Command.kind \in {"start", "update"}
                 /\ Command'.pc = "idle" /\ Command'.kind = "none"
                 /\ Command'.snap = NoAuth /\ Background' = Background
    <3>1. op \in [Threads -> Operations] /\ {"dial", "clear", "take"} \subseteq Phases
      BY DEF TypeOK, Phases
    <3>2. PICK ok \in BOOLEAN :
             CASE op[t].kind = "start" /\ ~ op[t].failed -> Goto(t, "dial")
               [] op[t].kind = "update" /\ ok /\ ~ op[t].failed -> Goto(t, "clear")
               [] op[t].kind = "shutdown" ->
                     op' = [op EXCEPT ![t] = IdleOp,
                              !["background"] = Running("stop", "take", InitialConfig)]
               [] OTHER -> Finish(t)
      BY <1>5 DEF CloseSaves
    <3>3. /\ t = "command" \/ t = "background"
          /\ op[t].pc = "save"
          /\ t = "command" => op[t].kind \in {"start", "update", "shutdown"}
          /\ t = "background" => op[t].kind = "stop"
      BY <1>5 DEF CloseSaves, PhaseInv, Command, Background, Threads, TypeOK, Operations,
         Kinds, ClosePhases
    <3>4. CASE op[t].kind = "start" /\ ~ op[t].failed
      <4>1. Goto(t, "dial")
        BY <3>2, <3>4
      <4>2. QED
        BY <3>1, <3>3, <3>4, <4>1, GotoFields DEF Command, Background, Threads
    <3>5. CASE op[t].kind = "update" /\ ok /\ ~ op[t].failed
      <4>1. Goto(t, "clear")
        BY <3>2, <3>5
      <4>2. QED
        BY <3>1, <3>3, <3>5, <4>1, GotoFields DEF Command, Background, Threads
    <3>6. CASE op[t].kind = "shutdown"
      <4> DEFINE left == Running("stop", "take", InitialConfig)
      <4>1. op' = [op EXCEPT !["command"] = IdleOp, !["background"] = left]
        BY <3>2, <3>3, <3>6
      <4>2. /\ left \in Operations /\ left.kind = "stop" /\ left.pc = "take"
            /\ left.snap = NoAuth
        <5>1. "stop" \in Kinds /\ InitialConfig \in Configs
          BY ConfigAssumption DEF Kinds
        <5>2. QED
          BY <3>1, <5>1, RunningFields
      <4> HIDE DEF left
      <4>3. QED
        BY <3>1, <3>3, <3>6, <4>1, <4>2, IdleOpFields DEF Command, Background, Threads
    <3>7. CASE /\ ~ (op[t].kind = "start" /\ ~ op[t].failed)
               /\ ~ (op[t].kind = "update" /\ ok /\ ~ op[t].failed)
               /\ op[t].kind # "shutdown"
      <4>1. Finish(t)
        BY <3>2, <3>7
      <4>2. QED
        BY <3>1, <3>3, <3>7, <4>1, FinishFields DEF Command, Background, Threads
    <3>8. QED
      BY <3>4, <3>5, <3>6, <3>7
  <2>0. /\ disk' \in {disk, Command.snap, Background.snap}
        /\ UNCHANGED <<stored, engineVars, clientVars, linkVars, events, runVars, answer,
                       raced, stale>>
    BY <1>5 DEF CloseSaves, Command, Background, Threads
  <2>2. TypeOK'
    <3>1. Command.snap \in Snapshots /\ Background.snap \in Snapshots
      <4>1. op["command"] \in Operations /\ op["background"] \in Operations
        BY DEF TypeOK, Threads
      <4>2. QED
        BY <4>1 DEF Operations, Command, Background
    <3>2. disk' \in Snapshots
      BY <2>0, <3>1 DEF TypeOK
    <3>3. QED
      BY <2>0, <2>1, <3>2 DEF TypeOK
  <2>3. PhaseInv'
    BY <2>0, <2>1 DEF PhaseInv, StartPhases, ClosePhases, Started
  <2>4. IdentityInv'
    BY <2>0, <2>1, <2>3 DEF PhaseInv, IdentityInv, IsOwn, Started,
       StartPhases, ClosePhases, RuntimeIsConfiguredDevice, NoAuth
  <2>5. OfflineInv'
    BY <2>0, <2>1 DEF PhaseInv, OfflineInv, Started, StartPhases,
       ClosePhases
  <2>6. BoundInv'
    BY <2>0, <2>1 DEF PhaseInv, OfflineInv, BoundInv, StartedIsBound, Started,
       StartPhases, ClosePhases
  <2>7. QED
    BY <2>2, <2>3, <2>4, <2>5, <2>6
<1>6. ASSUME BeginStart
      PROVE  EngineInv'
  <2>1. /\ op' \in [Threads -> Operations]
        /\ Background' = Background /\ Command.pc = "idle"
        /\ Command'.snap = Command.snap \/ Command'.snap = NoAuth
        /\ \/ Started /\ Command' = Command /\ raced' = raced /\ answer' = "ok"
           \/ /\ ~ Started
              /\ (~ raced' => Background.pc = "idle") /\ answer' = "none"
              /\ Command'.kind = "start" /\ Command'.next = cfg
              /\ ~ Command'.failed
              /\ \/ Command'.pc = "dial"
                 \/ Command'.pc = "close" /\ endpoint # NoEndpoint
    <3>1. CASE Started
      BY <1>6, <3>1 DEF BeginStart, TypeOK, Command, Background
    <3>2. CASE ~ Started
      <4> DEFINE phase == IF endpoint \in {NoEndpoint, cfg.endpoint}
                          THEN "dial" ELSE "close"
                 begun == Running("start", phase, cfg)
      <4>1. /\ op' = [op EXCEPT !["command"] = begun]
            /\ op["command"].pc = "idle"
            /\ (~ raced' => op["background"].pc = "idle") /\ answer' = "none"
        BY <1>6, <3>2 DEF BeginStart
      <4>2. /\ phase \in Phases
            /\ phase = "dial" \/ (phase = "close" /\ endpoint # NoEndpoint)
        BY DEF Phases
      <4> HIDE DEF phase
      <4>3. /\ begun \in Operations /\ begun.kind = "start" /\ begun.pc = phase
            /\ begun.next = cfg /\ ~ begun.failed /\ begun.snap = NoAuth
        <5>1. "start" \in Kinds /\ cfg \in Configs
          BY DEF TypeOK, Kinds
        <5>2. QED
          BY <4>2, <5>1, RunningFields
      <4> HIDE DEF begun
      <4>4. QED
        BY <3>2, <4>1, <4>2, <4>3 DEF TypeOK, Command, Background, Threads
    <3>3. QED
      BY <3>1, <3>2
  <2>0. /\ raced' \in BOOLEAN /\ answer' \in {"none", "ok"}
        /\ UNCHANGED <<diskVars, engineVars, clientVars, linkVars, events, runVars, stale>>
    BY <1>6 DEF BeginStart, TypeOK
  <2>2. TypeOK'
    BY <2>0, <2>1 DEF TypeOK
  <2>3. PhaseInv'
    BY <2>0, <2>1 DEF PhaseInv, StartPhases, ClosePhases, Started
  <2>4. IdentityInv'
    BY <2>0, <2>1, <2>3 DEF PhaseInv, IdentityInv, IsOwn, Started,
       StartPhases, ClosePhases, RuntimeIsConfiguredDevice, NoAuth
  <2>5. OfflineInv'
    BY <2>0, <2>1 DEF PhaseInv, OfflineInv, Started, StartPhases,
       ClosePhases
  <2>6. BoundInv'
    BY <2>0, <2>1 DEF PhaseInv, OfflineInv, BoundInv, StartedIsBound, Started,
       StartPhases, ClosePhases
  <2>7. QED
    BY <2>2, <2>3, <2>4, <2>5, <2>6
<1>7. ASSUME Dial
      PROVE  EngineInv'
  <2>1. /\ op' \in [Threads -> Operations] /\ Command.pc = "dial"
        /\ Command'.pc = "connect" /\ Command'.kind = Command.kind
        /\ Command'.next = Command.next /\ Command'.node = Command.node
        /\ Command'.failed = Command.failed /\ Command'.snap = Command.snap
        /\ Background' = Background
    <3>1. Goto("command", "connect")
      BY <1>7 DEF Dial
    <3>2. QED
      BY <1>7, <3>1, GotoFields DEF Dial, TypeOK, Command, Background, Threads, Phases
  <2>2. TypeOK'
    BY <1>7, <2>1 DEF Dial, TypeOK, Ensured
  <2>3. PhaseInv'
    BY <1>7, <2>1 DEF Dial, PhaseInv, StartPhases, ClosePhases, Started
  <2>4. IdentityInv'
    BY <1>7, <2>1, <2>3 DEF Dial, PhaseInv, IdentityInv, IsOwn, Started,
       StartPhases, ClosePhases, RuntimeIsConfiguredDevice
  <2>5. OfflineInv'
    BY <1>7, <2>1 DEF Dial, PhaseInv, OfflineInv, Started, StartPhases,
       ClosePhases, Ensured
  <2>6. BoundInv'
    BY <1>7, <2>1 DEF Dial, PhaseInv, OfflineInv, BoundInv, StartedIsBound, Started,
       StartPhases, ClosePhases, Ensured
  <2>7. QED
    BY <2>2, <2>3, <2>4, <2>5, <2>6
<1>8. ASSUME ConnectSucceeds
      PROVE  EngineInv'
  <2>1. /\ op' \in [Threads -> Operations] /\ Command.pc = "connect"
        /\ Command'.pc = "connected" /\ Command'.kind = Command.kind
        /\ Command'.next = Command.next /\ Command'.node = Command.node
        /\ Command'.failed = Command.failed /\ Command'.snap = Command.snap
        /\ Background' = Background
    <3>1. Goto("command", "connected")
      BY <1>8 DEF ConnectSucceeds
    <3>2. QED
      BY <1>8, <3>1, GotoFields DEF ConnectSucceeds, TypeOK, Command, Background, Threads, Phases
  <2>2. TypeOK'
    <3>1. session' \in 0 .. MaxSessions
      BY <1>8 DEF ConnectSucceeds, TypeOK
    <3>2. QED
      BY <1>8, <2>1, <3>1 DEF ConnectSucceeds, TypeOK, Nodes
  <2>3. PhaseInv'
    BY <1>8, <2>1 DEF ConnectSucceeds, PhaseInv, StartPhases, ClosePhases, Started
  <2>4. IdentityInv'
    BY <1>8, <2>1, <2>3 DEF ConnectSucceeds, PhaseInv, IdentityInv, IsOwn, Started,
       StartPhases, ClosePhases, RuntimeIsConfiguredDevice
  <2>5. OfflineInv'
    BY <1>8, <2>1 DEF ConnectSucceeds, PhaseInv, OfflineInv, Started, StartPhases,
       ClosePhases
  <2>6. BoundInv'
    BY <1>8, <2>1 DEF ConnectSucceeds, PhaseInv, OfflineInv, BoundInv, StartedIsBound, Started,
       StartPhases, ClosePhases
  <2>7. QED
    BY <2>2, <2>3, <2>4, <2>5, <2>6
<1>9. ASSUME ConnectFails
      PROVE  EngineInv'
  <2>1. /\ op' \in [Threads -> Operations] /\ Command.pc = "connect"
        /\ Command'.pc = "idle" /\ Command'.kind = "none"
        /\ Command'.snap = NoAuth
        /\ Background' = Background
    BY <1>9, FinishFields DEF ConnectFails, TypeOK, Command, Background, Threads
  <2>2. TypeOK'
    BY <1>9, <2>1 DEF ConnectFails, TypeOK, Nodes
  <2>3. PhaseInv'
    BY <1>9, <2>1 DEF ConnectFails, PhaseInv, StartPhases, ClosePhases, Started
  <2>4. IdentityInv'
    BY <1>9, <2>1, <2>3 DEF ConnectFails, PhaseInv, IdentityInv, IsOwn, Started,
       StartPhases, ClosePhases, RuntimeIsConfiguredDevice, NoAuth
  <2>5. OfflineInv'
    BY <1>9, <2>1 DEF ConnectFails, PhaseInv, OfflineInv, Started, StartPhases,
       ClosePhases
  <2>6. BoundInv'
    BY <1>9, <2>1 DEF ConnectFails, PhaseInv, OfflineInv, BoundInv, StartedIsBound, Started,
       StartPhases, ClosePhases
  <2>7. QED
    BY <2>2, <2>3, <2>4, <2>5, <2>6
<1>10. ASSUME ConnectMarks
       PROVE  EngineInv'
  <2>1. /\ op' \in [Threads -> Operations] /\ Command.pc = "connected"
        /\ Command'.pc = "identify" /\ Command'.kind = Command.kind
        /\ Command'.next = Command.next /\ Command'.node = Command.node
        /\ Command'.failed = Command.failed /\ Command'.snap = Command.snap
        /\ Background' = Background
    <3>1. Goto("command", "identify")
      BY <1>10 DEF ConnectMarks
    <3>2. QED
      BY <1>10, <3>1, GotoFields DEF ConnectMarks, TypeOK, Command, Background, Threads, Phases
  <2>2. TypeOK'
    <3>1. op["command"] \in Operations
      BY DEF TypeOK, Threads
    <3>2. op["command"].next.endpoint \in Endpoints
      BY <3>1, ConfigAssumption DEF Operations, Config
    <3>3. QED
      BY <1>10, <2>1, <3>2 DEF ConnectMarks, TypeOK
  <2>3. PhaseInv'
    BY <1>10, <2>1 DEF ConnectMarks, PhaseInv, StartPhases, ClosePhases, Started
  <2>4. IdentityInv'
    BY <1>10, <2>1, <2>3 DEF ConnectMarks, PhaseInv, IdentityInv, IsOwn, Started,
       StartPhases, ClosePhases, RuntimeIsConfiguredDevice
  <2>5. OfflineInv'
    BY <1>10, <2>1 DEF ConnectMarks, PhaseInv, OfflineInv, Started, StartPhases,
       ClosePhases
  <2>6. BoundInv'
    BY <1>10, <2>1 DEF ConnectMarks, PhaseInv, OfflineInv, BoundInv, StartedIsBound, Started,
       StartPhases, ClosePhases
  <2>7. QED
    BY <2>2, <2>3, <2>4, <2>5, <2>6
<1>11. ASSUME Identify
       PROVE  EngineInv'
  <2>1. /\ op' \in [Threads -> Operations] /\ Command.pc = "identify"
        /\ Background' = Background /\ Command'.kind = Command.kind
        /\ Command'.next = Command.next /\ Command'.snap = Command.snap
        /\ \/ Command'.pc = "close" /\ Command'.failed
           \/ Command'.pc = "register"
           \/ /\ Command'.pc = "login" /\ UNCHANGED auth
              /\ auth.node # NoDevice /\ ~ IsForeign(auth, Command.next.device)
           \/ /\ Command'.pc = "runtime" /\ UNCHANGED auth /\ auth.loggedIn
              /\ auth.node # NoDevice /\ ~ IsForeign(auth, Command.next.device)
              /\ Command'.node = auth.node
    <3>1. /\ op \in [Threads -> Operations] /\ auth.node \in Nodes
          /\ {"register", "login"} \subseteq Phases /\ "command" \in Threads
          /\ Command.pc = "identify"
      BY <1>11 DEF Identify, TypeOK, Phases, Snapshots, Threads, Command
    <3>2. CASE StartFails
      BY <3>1, <3>2, StartFailsFields
    <3>3. CASE Goto("command", "register")
      BY <3>1, <3>3, GotoFields DEF Command, Background, Threads
    <3>4. CASE /\ ~ IsForeign(auth, op["command"].next.device)
               /\ auth.node # NoDevice /\ Goto("command", "login") /\ UNCHANGED auth
      BY <3>1, <3>4, GotoFields DEF Command, Background, Threads
    <3>5. CASE /\ ~ IsForeign(auth, op["command"].next.device)
               /\ auth.node # NoDevice /\ auth.loggedIn /\ UNCHANGED auth
               /\ op' = [op EXCEPT !["command"].pc = "runtime",
                                  !["command"].node = auth.node]
      BY <3>1, <3>5, ToRuntimeFields DEF Command
    <3>6. QED
      BY <1>11, <3>2, <3>3, <3>4, <3>5 DEF Identify
  <2>0. /\ (auth' = NoAuth /\ disk' \in {NoAuth, disk}) \/ UNCHANGED <<auth, disk>>
        /\ UNCHANGED <<stored, engineVars, sdk, endpoint, connected, linkVars, events,
                       runVars, answer, raced, stale>>
    BY <1>11 DEF Identify
  <2>2. TypeOK'
    <3>1. NoAuth \in Snapshots
      BY DEF NoAuth, Snapshots, Nodes
    <3>2. auth' \in Snapshots /\ disk' \in Snapshots
      BY <2>0, <3>1 DEF TypeOK
    <3>3. QED
      BY <2>0, <2>1, <3>2 DEF TypeOK
  <2>3. PhaseInv'
    BY <2>0, <2>1 DEF PhaseInv, StartPhases, ClosePhases, Started
  <2>4. IdentityInv'
    BY <2>0, <2>1, <2>3 DEF PhaseInv, IdentityInv, IsOwn, Started,
       StartPhases, ClosePhases, RuntimeIsConfiguredDevice, NoAuth, IsForeign
  <2>5. OfflineInv'
    BY <2>0, <2>1 DEF PhaseInv, OfflineInv, Started, StartPhases,
       ClosePhases, NoAuth
  <2>6. BoundInv'
    BY <2>0, <2>1 DEF PhaseInv, OfflineInv, BoundInv, StartedIsBound, Started,
       StartPhases, ClosePhases, NoAuth
  <2>7. QED
    BY <2>2, <2>3, <2>4, <2>5, <2>6
<1>12. ASSUME Register
       PROVE  EngineInv'
  <2>1. /\ op' \in [Threads -> Operations] /\ Command.pc = "register"
        /\ Background' = Background /\ Command'.kind = Command.kind
        /\ Command'.next = Command.next /\ Command'.snap = Command.snap
        /\ \/ /\ connected /\ sdk = "open" /\ sdk' = sdk
              /\ auth'.node = Command.next.device /\ auth'.device = Command.next.device
              /\ auth'.loggedIn /\ auth' \in Snapshots /\ disk' \in {auth', disk}
              /\ bound' = bound /\ Command'.pc = "login"
           \/ /\ sdk' \in {sdk, "idle"} /\ (sdk' = "idle" => sdk # "open")
              /\ auth' \in Snapshots /\ (auth'.loggedIn => auth.loggedIn)
              /\ auth'.node = auth.node /\ auth'.device = auth.device
              /\ UNCHANGED <<disk, bound>>
              /\ Command'.pc = "close" /\ Command'.failed
    <3>1. /\ op \in [Threads -> Operations] /\ Command.pc = "register"
          /\ Command.next.device \in Nodes /\ auth.node \in Nodes
          /\ auth \in Snapshots /\ "login" \in Phases /\ "command" \in Threads
      <4>1. op["command"] \in Operations
        BY DEF TypeOK, Threads
      <4>2. op["command"].next.device \in Nodes
        BY <4>1, ConfigAssumption DEF Operations, Config, Nodes
      <4>3. QED
        BY <1>12, <4>2 DEF Register, TypeOK, Phases, Snapshots, Threads, Command
    <3>2. CASE Refused
      <4>1. /\ sdk' \in {sdk, "idle"} /\ (sdk' = "idle" => sdk # "open" \/ sdk' = sdk)
        BY <3>2 DEF Refused, Ensured
      <4>2. /\ auth' \in Snapshots /\ (auth'.loggedIn => auth.loggedIn)
            /\ auth'.node = auth.node /\ auth'.device = auth.device
        <5>1. CASE auth' = auth
          BY <3>1, <5>1
        <5>2. CASE auth' = [auth EXCEPT !.loggedIn = FALSE]
          BY <3>1, <5>2 DEF Snapshots
        <5>3. QED
          BY <3>2, <5>1, <5>2 DEF Refused
      <4>3. StartFails /\ UNCHANGED <<disk, bound>>
        BY <3>2 DEF Refused
      <4>4. QED
        BY <3>1, <4>1, <4>2, <4>3, StartFailsFields
    <3>3. CASE /\ Granted(op["command"].next.device) /\ Goto("command", "login")
               /\ UNCHANGED <<sdk, bound>>
      <4>1. /\ auth' \in Snapshots /\ auth'.loggedIn
            /\ auth'.node = Command.next.device /\ auth'.device = Command.next.device
            /\ connected /\ sdk = "open" /\ disk' \in {auth', disk}
        BY <3>1, <3>3 DEF Granted, Snapshots, Command
      <4>2. QED
        BY <3>1, <3>3, <4>1, GotoFields DEF Command, Background, Threads
    <3>4. QED
      BY <1>12, <3>2, <3>3 DEF Register
  <2>0. UNCHANGED <<stored, engineVars, endpoint, connected, session, lost, events,
                    runVars, answer, raced, stale>>
    BY <1>12 DEF Register
  <2>2. TypeOK'
    BY <2>0, <2>1 DEF TypeOK, Snapshots
  <2>3. PhaseInv'
    BY <2>0, <2>1 DEF PhaseInv, StartPhases, ClosePhases, Started
  <2>4. IdentityInv'
    BY <2>0, <2>1, <2>3 DEF PhaseInv, IdentityInv, IsOwn, Started,
       StartPhases, ClosePhases, RuntimeIsConfiguredDevice
  <2>5. OfflineInv'
    BY <2>0, <2>1 DEF PhaseInv, OfflineInv, Started, StartPhases,
       ClosePhases
  <2>6. BoundInv'
    BY <2>0, <2>1 DEF PhaseInv, OfflineInv, BoundInv, StartedIsBound, Started,
       StartPhases, ClosePhases
  <2>7. QED
    BY <2>2, <2>3, <2>4, <2>5, <2>6
<1>13. ASSUME Login
       PROVE  EngineInv'
  <2>1. /\ op' \in [Threads -> Operations] /\ Command.pc = "login"
        /\ Background' = Background /\ Command'.kind = Command.kind
        /\ Command'.next = Command.next /\ Command'.snap = Command.snap
        /\ \/ /\ connected /\ sdk = "open" /\ sdk' = sdk
              /\ auth'.node = auth.node /\ auth'.device = Command.next.device
              /\ auth'.loggedIn /\ auth' \in Snapshots /\ disk' \in {auth', disk}
              /\ bound' = auth.node /\ Command'.pc = "runtime" /\ Command'.node = auth.node
           \/ /\ sdk' \in {sdk, "idle"} /\ (sdk' = "idle" => sdk # "open")
              /\ auth' \in Snapshots /\ (auth'.loggedIn => auth.loggedIn)
              /\ auth'.node = auth.node /\ auth'.device = auth.device
              /\ UNCHANGED <<disk, bound>>
              /\ Command'.pc = "close" /\ Command'.failed
    <3>1. /\ op \in [Threads -> Operations] /\ Command.pc = "login"
          /\ Command.next.device \in Nodes /\ auth.node \in Nodes
          /\ auth \in Snapshots /\ "login" \in Phases /\ "command" \in Threads
      <4>1. op["command"] \in Operations
        BY DEF TypeOK, Threads
      <4>2. op["command"].next.device \in Nodes
        BY <4>1, ConfigAssumption DEF Operations, Config, Nodes
      <4>3. QED
        BY <1>13, <4>2 DEF Login, TypeOK, Phases, Snapshots, Threads, Command
    <3>2. CASE Refused
      <4>1. /\ sdk' \in {sdk, "idle"} /\ (sdk' = "idle" => sdk # "open" \/ sdk' = sdk)
        BY <3>2 DEF Refused, Ensured
      <4>2. /\ auth' \in Snapshots /\ (auth'.loggedIn => auth.loggedIn)
            /\ auth'.node = auth.node /\ auth'.device = auth.device
        <5>1. CASE auth' = auth
          BY <3>1, <5>1
        <5>2. CASE auth' = [auth EXCEPT !.loggedIn = FALSE]
          BY <3>1, <5>2 DEF Snapshots
        <5>3. QED
          BY <3>2, <5>1, <5>2 DEF Refused
      <4>3. StartFails /\ UNCHANGED <<disk, bound>>
        BY <3>2 DEF Refused
      <4>4. QED
        BY <3>1, <4>1, <4>2, <4>3, StartFailsFields
    <3>3. CASE /\ Granted(auth.node) /\ bound' = auth.node /\ UNCHANGED sdk
               /\ op' = [op EXCEPT !["command"].pc = "runtime",
                                  !["command"].node = auth.node]
      <4>1. /\ auth' \in Snapshots /\ auth'.loggedIn
            /\ auth'.node = auth.node /\ auth'.device = Command.next.device
            /\ connected /\ sdk = "open" /\ disk' \in {auth', disk}
        BY <3>1, <3>3 DEF Granted, Snapshots, Command
      <4>2. QED
        BY <3>1, <3>3, <4>1, ToRuntimeFields
    <3>4. QED
      BY <1>13, <3>2, <3>3 DEF Login
  <2>0. UNCHANGED <<stored, engineVars, endpoint, connected, session, lost, events,
                    runVars, answer, raced, stale>>
    BY <1>13 DEF Login
  <2>2. TypeOK'
    BY <2>0, <2>1 DEF TypeOK, Snapshots
  <2>3. PhaseInv'
    BY <2>0, <2>1 DEF PhaseInv, StartPhases, ClosePhases, Started
  <2>4. IdentityInv'
    BY <2>0, <2>1, <2>3 DEF PhaseInv, IdentityInv, IsOwn, Started,
       StartPhases, ClosePhases, RuntimeIsConfiguredDevice
  <2>5. OfflineInv'
    BY <2>0, <2>1 DEF PhaseInv, OfflineInv, Started, StartPhases,
       ClosePhases
  <2>6. BoundInv'
    BY <2>0, <2>1 DEF PhaseInv, OfflineInv, BoundInv, StartedIsBound, Started,
       StartPhases, ClosePhases
  <2>7. QED
    BY <2>2, <2>3, <2>4, <2>5, <2>6
<1>14. ASSUME RuntimeStarts
       PROVE  EngineInv'
  <2>1. /\ op' \in [Threads -> Operations] /\ Command.pc = "runtime"
        /\ Command'.pc = "install" /\ Command'.kind = Command.kind
        /\ Command'.next = Command.next /\ Command'.node = Command.node
        /\ Command'.failed = Command.failed /\ Command'.snap = Command.snap
        /\ Background' = Background
    <3>1. Goto("command", "install")
      BY <1>14 DEF RuntimeStarts
    <3>2. QED
      BY <1>14, <3>1, GotoFields DEF RuntimeStarts, TypeOK, Command, Background, Threads, Phases
  <2>2. TypeOK'
    <3>1. runs' \in 0 .. MaxRuns /\ since' \in [1 .. MaxRuns -> 0 .. MaxSessions]
      BY <1>14 DEF RuntimeStarts, TypeOK
    <3>2. QED
      BY <1>14, <2>1, <3>1 DEF RuntimeStarts, TypeOK
  <2>3. PhaseInv'
    BY <1>14, <2>1 DEF RuntimeStarts, PhaseInv, StartPhases, ClosePhases, Started, TypeOK
  <2>4. IdentityInv'
    BY <1>14, <2>1, <2>3 DEF RuntimeStarts, PhaseInv, IdentityInv, IsOwn, Started,
       StartPhases, ClosePhases, RuntimeIsConfiguredDevice
  <2>5. OfflineInv'
    BY <1>14, <2>1 DEF RuntimeStarts, PhaseInv, OfflineInv, Started, StartPhases,
       ClosePhases
  <2>6. BoundInv'
    BY <1>14, <2>1 DEF RuntimeStarts, PhaseInv, OfflineInv, BoundInv, StartedIsBound, Started,
       StartPhases, ClosePhases
  <2>7. QED
    BY <2>2, <2>3, <2>4, <2>5, <2>6
<1>15. ASSUME RuntimeFails
       PROVE  EngineInv'
  <2>1. /\ op' \in [Threads -> Operations] /\ Command.pc = "runtime"
        /\ Command'.pc = "close" /\ Command'.failed
        /\ Command'.kind = Command.kind /\ Command'.next = Command.next
        /\ Command'.snap = Command.snap /\ Background' = Background
    <3>1. StartFails /\ op \in [Threads -> Operations]
      BY <1>15 DEF RuntimeFails, TypeOK
    <3>2. QED
      BY <1>15, <3>1, StartFailsFields DEF RuntimeFails, Command
  <2>2. TypeOK'
    BY <1>15, <2>1 DEF RuntimeFails, TypeOK
  <2>3. PhaseInv'
    BY <1>15, <2>1 DEF RuntimeFails, PhaseInv, StartPhases, ClosePhases, Started
  <2>4. IdentityInv'
    BY <1>15, <2>1, <2>3 DEF RuntimeFails, PhaseInv, IdentityInv, IsOwn, Started,
       StartPhases, ClosePhases, RuntimeIsConfiguredDevice
  <2>5. OfflineInv'
    BY <1>15, <2>1 DEF RuntimeFails, PhaseInv, OfflineInv, Started, StartPhases,
       ClosePhases
  <2>6. BoundInv'
    BY <1>15, <2>1 DEF RuntimeFails, PhaseInv, OfflineInv, BoundInv, StartedIsBound, Started,
       StartPhases, ClosePhases
  <2>7. QED
    BY <2>2, <2>3, <2>4, <2>5, <2>6
<1>16. ASSUME Install
       PROVE  EngineInv'
  <2>1. /\ op' \in [Threads -> Operations] /\ Command.pc = "install"
        /\ Command.node \in Nodes /\ Command.kind \in Kinds
        /\ Command'.pc = "idle" /\ Command'.kind = "none"
        /\ Command'.snap = NoAuth
        /\ Background' = Background
    <3>1. op["command"] \in Operations
      BY DEF TypeOK, Threads
    <3>2. QED
      BY <1>16, <3>1, FinishFields
      DEF Install, TypeOK, Command, Background, Threads, Operations
  <2>0. /\ runtime'.run = runs /\ runtime'.node = Command.node /\ runs # 0
        /\ runtime' \in [run : 0 .. MaxRuns, node : Nodes]
        /\ consumers' \subseteq 1 .. MaxRuns
        /\ answer' \in {"none", "ok"}
        /\ UNCHANGED <<diskVars, cfg, clientVars, linkVars, events, runVars, raced,
                       stale>>
    <3>1. op["command"] \in Operations
      BY DEF TypeOK, Threads
    <3>2. Command.node \in Nodes
      BY <3>1 DEF Operations, Command
    <3>3. runs # 0
      BY <1>16 DEF Install, PhaseInv, Command
    <3>4. runs \in 1 .. MaxRuns /\ consumers \subseteq 1 .. MaxRuns
      BY <3>3 DEF TypeOK
    <3>5. /\ runtime' = [run |-> runs, node |-> Command.node]
          /\ consumers' = consumers \cup {runs} /\ answer' \in {"none", "ok"}
          /\ UNCHANGED <<diskVars, cfg, clientVars, linkVars, events, runVars, raced,
                         stale>>
      BY <1>16 DEF Install, Command
    <3>6. QED
      BY <3>2, <3>4, <3>5
  <2>2. TypeOK'
    BY <2>0, <2>1 DEF TypeOK
  <2>3. PhaseInv'
    BY <2>0, <2>1 DEF PhaseInv, StartPhases, ClosePhases, Started
  <2>4. IdentityInv'
    BY <2>0, <2>1, <2>3 DEF PhaseInv, IdentityInv, IsOwn, Started,
       StartPhases, ClosePhases, RuntimeIsConfiguredDevice, NoAuth
  <2>5. OfflineInv'
    BY <2>0, <2>1 DEF PhaseInv, OfflineInv, Started, StartPhases,
       ClosePhases
  <2>6. BoundInv'
    BY <2>0, <2>1 DEF PhaseInv, OfflineInv, BoundInv, StartedIsBound, Started,
       StartPhases, ClosePhases
  <2>7. QED
    BY <2>2, <2>3, <2>4, <2>5, <2>6
<1>17. ASSUME NEW n \in 1 .. MaxRuns, Consume(n)
       PROVE  EngineInv'
  <2>1. op' = op /\ Command' = Command /\ Background' = Background
    BY <1>17 DEF Consume, Command, Background
  <2>2. TypeOK'
    <3>1. events' \in Seq(0 .. MaxSessions) /\ Len(events') <= QueueLimit
      <4>1. events \in Seq(0 .. MaxSessions) /\ events # << >>
        BY <1>17 DEF Consume, TypeOK
      <4>2. Tail(events) \in Seq(0 .. MaxSessions) /\ Len(Tail(events)) = Len(events) - 1
        BY <4>1
      <4>3. Len(events) \in Nat /\ Len(events) <= QueueLimit
        BY <4>1 DEF TypeOK
      <4>4. QED
        BY <1>17, <4>2, <4>3 DEF Consume
    <3>2. stale' \in BOOLEAN
      BY <1>17 DEF Consume, TypeOK
    <3>3. QED
      BY <1>17, <2>1, <3>1, <3>2 DEF Consume, TypeOK
  <2>3. PhaseInv'
    BY <1>17, <2>1 DEF Consume, PhaseInv, StartPhases, ClosePhases, Started
  <2>4. IdentityInv'
    BY <1>17, <2>1, <2>3 DEF Consume, PhaseInv, IdentityInv, IsOwn, Started,
       StartPhases, ClosePhases, RuntimeIsConfiguredDevice, Command, Background
  <2>5. OfflineInv'
    BY <1>17, <2>1 DEF Consume, PhaseInv, OfflineInv, Started, StartPhases,
       ClosePhases
  <2>6. BoundInv'
    BY <1>17, <2>1 DEF Consume, PhaseInv, OfflineInv, BoundInv, StartedIsBound, Started,
       StartPhases, ClosePhases
  <2>7. QED
    BY <2>2, <2>3, <2>4, <2>5, <2>6
<1>18. ASSUME NEW n \in 1 .. MaxRuns, ConsumerEnds(n)
       PROVE  EngineInv'
  <2>1. op' = op /\ Command' = Command /\ Background' = Background
    BY <1>18 DEF ConsumerEnds, Command, Background
  <2>2. TypeOK'
    BY <1>18, <2>1 DEF ConsumerEnds, TypeOK
  <2>3. PhaseInv'
    BY <1>18, <2>1 DEF ConsumerEnds, PhaseInv, StartPhases, ClosePhases, Started
  <2>4. IdentityInv'
    BY <1>18, <2>1, <2>3 DEF ConsumerEnds, PhaseInv, IdentityInv, IsOwn, Started,
       StartPhases, ClosePhases, RuntimeIsConfiguredDevice, Command, Background
  <2>5. OfflineInv'
    BY <1>18, <2>1 DEF ConsumerEnds, PhaseInv, OfflineInv, Started, StartPhases,
       ClosePhases
  <2>6. BoundInv'
    BY <1>18, <2>1 DEF ConsumerEnds, PhaseInv, OfflineInv, BoundInv, StartedIsBound, Started,
       StartPhases, ClosePhases
  <2>7. QED
    BY <2>2, <2>3, <2>4, <2>5, <2>6
<1>19. ASSUME NEW t \in Threads, StopTakes(t)
       PROVE  EngineInv'
  <2>1. /\ op' \in [Threads -> Operations]
        /\ \/ /\ t = "command" /\ Command.pc = "take"
              /\ Background' = Background
              /\ Command'.pc = "stop"
              /\ Command'.kind = Command.kind /\ Command'.next = Command.next
              /\ Command'.snap = Command.snap
           \/ /\ t = "background" /\ Background.pc = "take"
              /\ Command' = Command
              /\ Background'.pc = "stop"
              /\ Background'.kind = Background.kind /\ Background'.next = Background.next
              /\ Background'.snap = Background.snap
    <3>1. /\ op' = [op EXCEPT ![t].pc = "stop", ![t].run = runtime.run]
          /\ op \in [Threads -> Operations] /\ runtime.run \in 0 .. MaxRuns
      BY <1>19 DEF StopTakes, TypeOK
    <3>2. QED
      BY <1>19, <3>1, TakeFields DEF StopTakes, Command, Background, Threads
  <2>0. /\ runtime' = NoRuntime /\ answer' = "none"
        /\ UNCHANGED <<diskVars, cfg, consumers, clientVars, linkVars, events, runVars,
                       raced, stale>>
    BY <1>19 DEF StopTakes
  <2>2. TypeOK'
    BY <2>0, <2>1 DEF TypeOK, NoRuntime, Nodes
  <2>3. PhaseInv'
    BY <2>0, <2>1 DEF PhaseInv, StartPhases, ClosePhases, Started, NoRuntime
  <2>4. IdentityInv'
    BY <2>0, <2>1, <2>3 DEF PhaseInv, IdentityInv, IsOwn, Started,
       StartPhases, ClosePhases, RuntimeIsConfiguredDevice, NoRuntime
  <2>5. OfflineInv'
    BY <2>0, <2>1 DEF PhaseInv, OfflineInv, Started, StartPhases,
       ClosePhases, NoRuntime
  <2>6. BoundInv'
    BY <2>0, <2>1 DEF PhaseInv, OfflineInv, BoundInv, StartedIsBound, Started,
       StartPhases, ClosePhases, NoRuntime
  <2>7. QED
    BY <2>2, <2>3, <2>4, <2>5, <2>6
<1>20. ASSUME NEW t \in Threads, StopRuntime(t)
       PROVE  EngineInv'
  <2>1. /\ op' \in [Threads -> Operations]
        /\ \/ /\ t = "command" /\ Command.pc = "stop"
              /\ Background' = Background
              /\ Command'.pc = "close"
              /\ Command'.kind = Command.kind /\ Command'.next = Command.next
              /\ Command'.snap = Command.snap
           \/ /\ t = "background" /\ Background.pc = "stop"
              /\ Command' = Command
              /\ Background'.pc = "close"
              /\ Background'.kind = Background.kind /\ Background'.next = Background.next
              /\ Background'.snap = Background.snap
    <3>1. PICK b \in BOOLEAN : op' = [op EXCEPT ![t].pc = "close", ![t].failed = b]
      BY <1>20 DEF StopRuntime
    <3>2. op \in [Threads -> Operations] /\ op[t].pc = "stop"
      BY <1>20 DEF StopRuntime, TypeOK
    <3>3. QED
      BY <3>1, <3>2, StoppedFields DEF Command, Background, Threads
  <2>0. UNCHANGED <<diskVars, engineVars, clientVars, linkVars, events, runVars,
                    answer, raced, stale>>
    BY <1>20 DEF StopRuntime
  <2>2. TypeOK'
    BY <2>0, <2>1 DEF TypeOK
  <2>3. PhaseInv'
    BY <2>0, <2>1 DEF PhaseInv, StartPhases, ClosePhases, Started
  <2>4. IdentityInv'
    BY <2>0, <2>1, <2>3 DEF PhaseInv, IdentityInv, IsOwn, Started,
       StartPhases, ClosePhases, RuntimeIsConfiguredDevice
  <2>5. OfflineInv'
    BY <2>0, <2>1 DEF PhaseInv, OfflineInv, Started, StartPhases,
       ClosePhases
  <2>6. BoundInv'
    BY <2>0, <2>1 DEF PhaseInv, OfflineInv, BoundInv, StartedIsBound, Started,
       StartPhases, ClosePhases
  <2>7. QED
    BY <2>2, <2>3, <2>4, <2>5, <2>6
<1>21. ASSUME BeginShutdown
       PROVE  EngineInv'
  <2>1. /\ op' \in [Threads -> Operations] /\ Command.pc = "idle"
        /\ Command'.pc = "take" /\ Command'.kind = "shutdown"
        /\ Command'.snap = NoAuth /\ Background' = Background
    <3> DEFINE begun == Running("shutdown", "take", InitialConfig)
    <3>1. /\ begun \in Operations /\ begun.kind = "shutdown" /\ begun.pc = "take"
          /\ begun.snap = NoAuth
      <4>1. /\ "shutdown" \in Kinds /\ "take" \in Phases
            /\ InitialConfig \in Configs
        BY ConfigAssumption DEF Kinds, Phases
      <4>2. QED
        BY <4>1, RunningFields
    <3>2. /\ op' = [op EXCEPT !["command"] = begun] /\ op["command"].pc = "idle"
          /\ op \in [Threads -> Operations]
      BY <1>21 DEF BeginShutdown, TypeOK
    <3> HIDE DEF begun
    <3>3. QED
      BY <3>1, <3>2 DEF Command, Background, Threads
  <2>0. /\ Background.pc = "idle"
        /\ UNCHANGED <<diskVars, engineVars, clientVars, linkVars, events, runVars,
                       answer, raced, stale>>
    BY <1>21 DEF BeginShutdown, Background
  <2>2. TypeOK'
    BY <2>0, <2>1 DEF TypeOK
  <2>3. PhaseInv'
    BY <2>0, <2>1 DEF PhaseInv, StartPhases, ClosePhases, Started
  <2>4. IdentityInv'
    BY <2>0, <2>1, <2>3 DEF PhaseInv, IdentityInv, IsOwn, Started,
       StartPhases, ClosePhases, RuntimeIsConfiguredDevice, NoAuth
  <2>5. OfflineInv'
    BY <2>0, <2>1 DEF PhaseInv, OfflineInv, Started, StartPhases,
       ClosePhases
  <2>6. BoundInv'
    BY <2>0, <2>1 DEF PhaseInv, OfflineInv, BoundInv, StartedIsBound, Started,
       StartPhases, ClosePhases
  <2>7. QED
    BY <2>2, <2>3, <2>4, <2>5, <2>6
<1>22. ASSUME NEW c \in Configs, BeginUpdate(c)
       PROVE  EngineInv'
  <2>1. /\ op' \in [Threads -> Operations] /\ Command.pc = "idle"
        /\ Background' = Background
        /\ \/ Command' = Command
           \/ /\ Command'.pc = "take" /\ Command'.kind = "update"
              /\ Command'.snap = NoAuth
    <3> DEFINE begun == Running("update", "take", c)
    <3>1. /\ begun \in Operations /\ begun.kind = "update" /\ begun.pc = "take"
          /\ begun.snap = NoAuth
      <4>1. "update" \in Kinds /\ "take" \in Phases
        BY DEF Kinds, Phases
      <4>2. QED
        BY <4>1, RunningFields
    <3>2. /\ op["command"].pc = "idle" /\ op \in [Threads -> Operations]
          /\ op' = op \/ op' = [op EXCEPT !["command"] = begun]
      BY <1>22 DEF BeginUpdate, TypeOK
    <3> HIDE DEF begun
    <3>3. CASE op' = op
      BY <3>2, <3>3 DEF Command, Background
    <3>4. CASE op' = [op EXCEPT !["command"] = begun]
      BY <3>1, <3>2, <3>4 DEF Command, Background, Threads
    <3>5. QED
      BY <3>2, <3>3, <3>4
  <2>0. /\ stored' = c
        /\ cfg' \in Configs /\ cfg'.device = cfg.device
        /\ UNCHANGED <<disk, runtime, consumers, clientVars, linkVars, events, runVars,
                       answer, raced, stale>>
    BY <1>22 DEF BeginUpdate, IdentityChanged, TypeOK
  <2>2. TypeOK'
    BY <2>0, <2>1 DEF TypeOK
  <2>3. PhaseInv'
    BY <2>0, <2>1 DEF PhaseInv, StartPhases, ClosePhases, Started
  <2>4. IdentityInv'
    BY <2>0, <2>1, <2>3 DEF PhaseInv, IdentityInv, IsOwn, Started,
       StartPhases, ClosePhases, RuntimeIsConfiguredDevice, NoAuth
  <2>5. OfflineInv'
    BY <2>0, <2>1 DEF PhaseInv, OfflineInv, Started, StartPhases,
       ClosePhases
  <2>6. BoundInv'
    BY <2>0, <2>1 DEF PhaseInv, OfflineInv, BoundInv, StartedIsBound, Started,
       StartPhases, ClosePhases
  <2>7. QED
    BY <2>2, <2>3, <2>4, <2>5, <2>6
<1>23. ASSUME ClearIdentity
       PROVE  EngineInv'
  <2>1. /\ op' \in [Threads -> Operations] /\ Command.pc = "clear"
        /\ Command'.pc = "idle" /\ Command'.kind = "none"
        /\ Command'.snap = NoAuth
        /\ Background' = Background
    BY <1>23, FinishFields DEF ClearIdentity, TypeOK, Command, Background, Threads
  <2>0. /\ auth' = NoAuth /\ NoAuth \in Snapshots
        /\ disk' \in {NoAuth, disk} /\ cfg' \in {cfg, Command.next}
        /\ Command.next \in Configs
        /\ UNCHANGED <<stored, runtime, consumers, sdk, endpoint, connected, linkVars,
                       events, runVars, answer, raced, stale>>
    <3>1. op["command"] \in Operations
      BY DEF TypeOK, Threads
    <3>2. Command.next \in Configs
      BY <3>1 DEF Operations, Command
    <3>3. NoAuth \in Snapshots
      BY DEF NoAuth, Snapshots, Nodes
    <3>4. QED
      BY <1>23, <3>2, <3>3 DEF ClearIdentity, Command
  <2>2. TypeOK'
    BY <2>0, <2>1 DEF TypeOK
  <2>3. PhaseInv'
    BY <2>0, <2>1 DEF PhaseInv, StartPhases, ClosePhases, Started
  <2>4. IdentityInv'
    BY <2>0, <2>1, <2>3 DEF PhaseInv, IdentityInv, IsOwn, Started,
       StartPhases, ClosePhases, RuntimeIsConfiguredDevice, NoAuth
  <2>5. OfflineInv'
    BY <2>0, <2>1 DEF PhaseInv, OfflineInv, Started, StartPhases,
       ClosePhases, NoAuth
  <2>6. BoundInv'
    BY <2>0, <2>1 DEF PhaseInv, OfflineInv, BoundInv, StartedIsBound, Started,
       StartPhases, ClosePhases, NoAuth
  <2>7. QED
    BY <2>2, <2>3, <2>4, <2>5, <2>6
<1>24. ASSUME Restart
       PROVE  EngineInv'
  <2>1. /\ op' \in [Threads -> Operations]
        /\ Command'.pc = "idle" /\ Command'.kind = "none"
        /\ Command'.snap = NoAuth
        /\ Background'.pc = "idle" /\ Background'.kind = "none"
        /\ Background'.snap = NoAuth
    BY <1>24, IdleOpFields DEF Restart, Command, Background, Threads
  <2>0. /\ disk' \in {disk, NoAuth} /\ NoAuth \in Snapshots
        /\ cfg' = stored /\ runtime' = NoRuntime /\ consumers' = {}
        /\ sdk' = "none" /\ endpoint' = NoEndpoint /\ ~ connected' /\ connected' \in BOOLEAN
        /\ auth' \in Snapshots /\ auth'.node = disk'.node /\ auth'.device = disk'.device
        /\ ~ auth'.loggedIn
        /\ events' = << >> /\ bound' = NoDevice
        /\ answer' = "none" /\ ~ raced' /\ raced' \in BOOLEAN
        /\ UNCHANGED <<stored, session, lost, runVars, stale>>
    <3>1. NoAuth \in Snapshots
      BY DEF NoAuth, Snapshots, Nodes
    <3>2. disk' \in {disk, NoAuth}
      BY <1>24 DEF Restart
    <3>3. disk' \in Snapshots /\ auth' = [disk' EXCEPT !.loggedIn = FALSE]
      BY <1>24, <3>1, <3>2 DEF Restart, TypeOK, Loaded
    <3>4. /\ auth' \in Snapshots /\ ~ auth'.loggedIn
          /\ auth'.node = disk'.node /\ auth'.device = disk'.device
      BY <3>3 DEF Snapshots
    <3>5. /\ cfg' = stored /\ runtime' = NoRuntime /\ consumers' = {}
          /\ sdk' = "none" /\ endpoint' = NoEndpoint /\ ~ connected'
          /\ connected' \in BOOLEAN
          /\ events' = << >> /\ bound' = NoDevice
          /\ answer' = "none" /\ ~ raced' /\ raced' \in BOOLEAN
          /\ UNCHANGED <<stored, session, lost, runVars, stale>>
      BY <1>24 DEF Restart
    <3>6. QED
      BY <3>1, <3>2, <3>4, <3>5
  <2>2. TypeOK'
    BY <2>0, <2>1 DEF TypeOK, NoRuntime, Nodes
  <2>3. PhaseInv'
    BY <2>0, <2>1 DEF PhaseInv, StartPhases, ClosePhases, Started, NoRuntime
  <2>4. IdentityInv'
    BY <2>0, <2>1, <2>3 DEF PhaseInv, IdentityInv, IsOwn, Started,
       StartPhases, ClosePhases, RuntimeIsConfiguredDevice, NoRuntime, NoAuth
  <2>5. OfflineInv'
    BY <2>0, <2>1 DEF PhaseInv, OfflineInv, Started, StartPhases,
       ClosePhases, NoRuntime
  <2>6. BoundInv'
    BY <2>0, <2>1 DEF PhaseInv, OfflineInv, BoundInv, StartedIsBound, Started,
       StartPhases, ClosePhases, NoRuntime
  <2>7. QED
    BY <2>2, <2>3, <2>4, <2>5, <2>6
<1>25. CASE UNCHANGED vars
  <2>1. Command' = Command /\ Background' = Background
    BY <1>25 DEF vars, Command, Background
  <2>2. UNCHANGED <<stored, disk, cfg, runtime, consumers, op, sdk, endpoint, connected,
                    auth, events, session, bound, runs, since, answer, lost, raced, stale>>
    BY <1>25 DEF vars
  <2>3. TypeOK'
    BY <2>2 DEF TypeOK
  <2>4. PhaseInv' /\ OfflineInv'
    BY <2>1, <2>2 DEF PhaseInv, OfflineInv, Started
  <2>5. IdentityInv' /\ BoundInv'
    BY <2>1, <2>2 DEF IdentityInv, BoundInv, RuntimeIsConfiguredDevice,
       StartedIsBound, Started, IsOwn
  <2>6. QED
    BY <2>3, <2>4, <2>5
<1>26. QED
  BY <1>1, <1>2, <1>3, <1>4, <1>5, <1>6, <1>7, <1>8, <1>9, <1>10, <1>11,
     <1>12, <1>13, <1>14, <1>15, <1>16, <1>17, <1>18, <1>19, <1>20, <1>21,
     <1>22, <1>23, <1>24, <1>25 DEF Next

LEMMA EngineInvariant == Spec => []EngineInv
<1>1. Init => EngineInv
  BY EngineInvInitial
<1>2. EngineInv /\ [Next]_vars => EngineInv'
  BY EngineInvPreserved
<1>3. QED
  BY <1>1, <1>2, PTL DEF Spec
-------------------------------------------------------------------------------
\* Engine, client, commands and histories have the declared shapes, and the
\* client's event channel never holds more than its capacity.
THEOREM EngineTypeCorrect == Spec => []TypeOK
<1>1. EngineInv => TypeOK
  BY DEF EngineInv
<1>2. QED
  BY <1>1, EngineInvariant, PTL

\* However commands, background Stops, broken sessions and crashes interleave, a
\* runtime is only ever run with the node id of the configured device.
THEOREM RuntimeActsForTheConfiguredDevice == Spec => []RuntimeIsConfiguredDevice
<1>1. EngineInv => RuntimeIsConfiguredDevice
  BY DEF EngineInv, IdentityInv
<1>2. QED
  BY <1>1, EngineInvariant, PTL

\* A stopped engine at rest has no session, no login and no endpoint.
THEOREM StoppedEngineIsOffline == Spec => []OfflineWhenStopped
<1>1. EngineInv => OfflineWhenStopped
  BY DEF EngineInv, OfflineInv, OfflineWhenStopped, TypeOK, At, Threads, Command,
     Background
<1>2. QED
  BY <1>1, EngineInvariant, PTL

\* A started engine, undisturbed and with its session intact, is logged in at the
\* hub in that session with the runtime's node id.
THEOREM StartedEngineIsBound == Spec => []StartedIsBound
<1>1. EngineInv => StartedIsBound
  BY DEF EngineInv, BoundInv, StartedIsBound
<1>2. QED
  BY <1>1, EngineInvariant, PTL
-------------------------------------------------------------------------------
(* Every step of a command, and of the background Stop, brings it nearer to    *)
(* its end.                                                                    *)

\* How many phases a call may still go through.  A Start that has not failed
\* closes a client of another endpoint before it dials.
Remaining == [pc \in Phases |->
    CASE pc = "dial" -> 12      [] pc = "connect" -> 11 [] pc = "connected" -> 10
      [] pc = "identify" -> 9   [] pc = "register" -> 8 [] pc = "login" -> 7
      [] pc \in {"runtime", "take"} -> 6
      [] pc \in {"install", "stop"} -> 5
      [] pc = "close" -> 4      [] pc = "mark" -> 3     [] pc = "save" -> 2
      [] pc = "clear" -> 1      [] pc = "idle" -> 0]
StepsLeft(o) ==
    Remaining[o.pc] +
        (IF o.kind = "start" /\ ~ o.failed /\ o.pc \in ClosePhases THEN 11 ELSE 0)

\* A call is left alone, begins, or gets on.
MovesOn(t) ==
    op'[t] = op[t] \/ At(t, "idle") \/ StepsLeft(op'[t]) < StepsLeft(op[t])

\* A shutdown waits for the last background Stop, and starts the next one only
\* with its last step.
ShutdownInv == Command.kind = "shutdown" => Background.pc = "idle"

LEMMA RemainingValues ==
    /\ Remaining["dial"] = 12 /\ Remaining["connect"] = 11
    /\ Remaining["connected"] = 10 /\ Remaining["identify"] = 9
    /\ Remaining["register"] = 8 /\ Remaining["login"] = 7
    /\ Remaining["runtime"] = 6 /\ Remaining["take"] = 6
    /\ Remaining["install"] = 5 /\ Remaining["stop"] = 5
    /\ Remaining["close"] = 4 /\ Remaining["mark"] = 3 /\ Remaining["save"] = 2
    /\ Remaining["clear"] = 1 /\ Remaining["idle"] = 0
BY DEF Remaining, Phases

LEMMA StepsOf ==
    ASSUME NEW o \in Operations
    PROVE  /\ StepsLeft(o) \in Nat
           /\ o.pc = "idle" => StepsLeft(o) = 0
           /\ o.pc # "idle" => StepsLeft(o) > 0
           /\ o.pc \notin ClosePhases => StepsLeft(o) = Remaining[o.pc]
           /\ o.kind # "start" \/ o.failed => StepsLeft(o) = Remaining[o.pc]
           /\ o.kind = "start" /\ ~ o.failed /\ o.pc \in ClosePhases =>
                 StepsLeft(o) = Remaining[o.pc] + 11
BY RemainingValues DEF StepsLeft, ClosePhases, Operations, Phases

\* What the step of one thread does to the calls.
LEMMA MoveOfOne ==
    ASSUME NEW t \in Threads,
           At(t, "idle") \/ StepsLeft(op'[t]) < StepsLeft(op[t]),
           \A u \in Threads \ {t} : op'[u] = op[u]
    PROVE  \A u \in Threads : MovesOn(u)
BY DEF MovesOn

\* A call that is not about to close the client goes to a phase below, or
\* closes the client after it has failed.
LEMMA GoesDown ==
    ASSUME NEW o \in Operations, NEW q \in Operations,
           o.pc \notin ClosePhases \cup {"idle"},
           q.pc \notin ClosePhases \/ q.kind # "start" \/ q.failed,
           Remaining[q.pc] < Remaining[o.pc]
    PROVE  StepsLeft(q) < StepsLeft(o)
BY StepsOf

LEMMA StepMovesOn ==
    ASSUME EngineInv, ShutdownInv, [Next]_vars
    PROVE  /\ \A t \in Threads : MovesOn(t)
           /\ ShutdownInv'
<1>a. /\ op \in [Threads -> Operations] /\ op' \in [Threads -> Operations]
      /\ "command" \in Threads /\ "background" \in Threads
      /\ \A t \in Threads : t = "command" \/ t = "background"
      /\ \A t \in Threads : op[t] \in Operations /\ op'[t] \in Operations
  BY EngineInvPreserved DEF EngineInv, TypeOK, Threads
<1>b. /\ Command.kind \in {"none", "start", "update", "shutdown"}
      /\ Background.kind \in {"none", "stop"}
      /\ Command.kind = "none" <=> Command.pc = "idle"
      /\ Background.kind = "none" <=> Background.pc = "idle"
      /\ Command.kind = "start" => Command.pc \in StartPhases \cup ClosePhases
      /\ Command.kind \in {"update", "shutdown"} =>
            Command.pc \in {"take", "stop", "clear"} \cup ClosePhases
  BY DEF EngineInv, PhaseInv, ClosePhases
\* The background Stop begins only where a shutdown ends.
<1>c. ASSUME NEW t \in Threads, op[t].pc # "idle",
             op'[t].kind \in {op[t].kind, "none"},
             \A u \in Threads \ {t} : op'[u] = op[u]
      PROVE  ShutdownInv'
  BY <1>a, <1>b, <1>c DEF ShutdownInv, Command, Background
<1>1. ASSUME UNCHANGED op
      PROVE  (\A t \in Threads : MovesOn(t)) /\ ShutdownInv'
  BY <1>1 DEF MovesOn, ShutdownInv, Command, Background
<1>2. ASSUME NEW t \in Threads, CloseSession(t)
      PROVE  (\A u \in Threads : MovesOn(u)) /\ ShutdownInv'
  <2>1. op[t].pc = "close" /\ Goto(t, "mark")
    BY <1>2 DEF CloseSession, At
  <2>2. /\ op'[t].pc = "mark" /\ op'[t].kind = op[t].kind
        /\ op'[t].failed = op[t].failed
        /\ \A u \in Threads \ {t} : op'[u] = op[u]
    BY <1>a, <2>1, GotoFields DEF Phases
  <2>3. StepsLeft(op'[t]) < StepsLeft(op[t])
    BY <1>a, <2>1, <2>2, StepsOf, RemainingValues DEF ClosePhases
  <2>4. QED
    BY <1>c, <2>1, <2>2, <2>3, MoveOfOne
<1>3. ASSUME NEW t \in Threads, CloseMarks(t)
      PROVE  (\A u \in Threads : MovesOn(u)) /\ ShutdownInv'
  <2>1. /\ op[t].pc = "mark"
        /\ op' = [op EXCEPT ![t].pc = "save", ![t].snap = auth']
    BY <1>3 DEF CloseMarks, At
  <2>2. auth' \in Snapshots
    BY EngineInvPreserved DEF EngineInv, TypeOK
  <2>3. /\ op'[t].pc = "save" /\ op'[t].kind = op[t].kind
        /\ op'[t].failed = op[t].failed
        /\ \A u \in Threads \ {t} : op'[u] = op[u]
    BY <1>a, <2>1, <2>2, SaveFields
  <2>4. StepsLeft(op'[t]) < StepsLeft(op[t])
    <3>1. CASE op[t].kind = "start" /\ ~ op[t].failed
      <4>1. StepsLeft(op[t]) = 14
        BY <1>a, <2>1, <3>1, StepsOf, RemainingValues DEF ClosePhases
      <4>2. StepsLeft(op'[t]) = 13
        BY <1>a, <2>3, <3>1, StepsOf, RemainingValues DEF ClosePhases
      <4>3. QED
        BY <4>1, <4>2
    <3>2. CASE op[t].kind # "start" \/ op[t].failed
      <4>1. StepsLeft(op[t]) = 3
        BY <1>a, <2>1, <3>2, StepsOf, RemainingValues
      <4>2. StepsLeft(op'[t]) = 2
        BY <1>a, <2>3, <3>2, StepsOf, RemainingValues
      <4>3. QED
        BY <4>1, <4>2
    <3>3. QED
      BY <3>1, <3>2
  <2>5. QED
    BY <1>c, <2>1, <2>3, <2>4, MoveOfOne
<1>4. ASSUME NEW t \in Threads, CloseSaves(t)
      PROVE  (\A u \in Threads : MovesOn(u)) /\ ShutdownInv'
  <2>1. op[t].pc = "save"
    BY <1>4 DEF CloseSaves, At
  <2>2. StepsLeft(op[t]) \in Nat /\ StepsLeft(op[t]) >= 2
    BY <1>a, <2>1, StepsOf, RemainingValues DEF ClosePhases
  <2>3. CASE op[t].kind = "start" /\ ~ op[t].failed /\ Goto(t, "dial")
    <3>1. /\ op'[t].pc = "dial" /\ op'[t].kind = op[t].kind
          /\ \A u \in Threads \ {t} : op'[u] = op[u]
      BY <1>a, <2>3, GotoFields DEF Phases
    <3>2. StepsLeft(op'[t]) = 12 /\ StepsLeft(op[t]) = 13
      BY <1>a, <2>1, <2>3, <3>1, StepsOf, RemainingValues DEF ClosePhases
    <3>3. QED
      BY <1>c, <2>1, <3>1, <3>2, MoveOfOne
  <2>4. CASE Goto(t, "clear")
    <3>1. /\ op'[t].pc = "clear" /\ op'[t].kind = op[t].kind
          /\ \A u \in Threads \ {t} : op'[u] = op[u]
      BY <1>a, <2>4, GotoFields DEF Phases
    <3>2. StepsLeft(op'[t]) = 1
      BY <1>a, <3>1, StepsOf, RemainingValues DEF ClosePhases
    <3>3. QED
      BY <1>c, <2>1, <2>2, <3>1, <3>2, MoveOfOne
  <2>5. CASE /\ op[t].kind = "shutdown"
             /\ op' = [op EXCEPT ![t] = IdleOp,
                          !["background"] = Running("stop", "take", InitialConfig)]
    <3>1. t = "command" /\ Background.pc = "idle"
      BY <1>a, <1>b, <2>5 DEF ShutdownInv, Command, Background
    <3>2. op'["command"] = IdleOp
      BY <1>a, <2>5, <3>1 DEF Threads
    <3>3. MovesOn("command")
      BY <1>a, <2>2, <3>1, <3>2, StepsOf, IdleOpFields DEF MovesOn
    <3>4. MovesOn("background")
      BY <3>1 DEF MovesOn, At, Background
    <3>5. ShutdownInv'
      BY <3>2, IdleOpFields DEF ShutdownInv, Command
    <3>6. QED
      BY <1>a, <3>3, <3>4, <3>5
  <2>6. CASE Finish(t)
    <3>1. /\ op'[t].pc = "idle" /\ op'[t].kind = "none"
          /\ \A u \in Threads \ {t} : op'[u] = op[u]
      BY <1>a, <2>6, FinishFields
    <3>2. StepsLeft(op'[t]) = 0
      BY <1>a, <3>1, StepsOf
    <3>3. QED
      BY <1>c, <2>1, <2>2, <3>1, <3>2, MoveOfOne
  <2>7. QED
    BY <1>4, <2>3, <2>4, <2>5, <2>6 DEF CloseSaves
<1>5. ASSUME NEW o \in Operations, Command.pc = "idle",
             op' = [op EXCEPT !["command"] = o],
             o.kind = "shutdown" => Background.pc = "idle"
      PROVE  (\A t \in Threads : MovesOn(t)) /\ ShutdownInv'
  <2>1. Command' = o /\ Background' = Background
    BY <1>a, <1>5 DEF Command, Background, Threads
  <2>2. At("command", "idle") /\ \A u \in Threads \ {"command"} : op'[u] = op[u]
    BY <1>a, <1>5 DEF At, Command
  <2>3. QED
    BY <1>5, <1>a, <2>1, <2>2, MoveOfOne DEF ShutdownInv
<1>6. ASSUME BeginStart
      PROVE  (\A t \in Threads : MovesOn(t)) /\ ShutdownInv'
  <2> DEFINE phase == IF endpoint \in {NoEndpoint, cfg.endpoint} THEN "dial" ELSE "close"
  <2>1. CASE Started
    BY <1>1, <1>6, <2>1 DEF BeginStart
  <2>2. CASE ~ Started
    <3>1. /\ phase \in Phases /\ "start" \in Kinds /\ cfg \in Configs
      BY DEF Phases, Kinds, EngineInv, TypeOK
    <3>2. op' = [op EXCEPT !["command"] = Running("start", phase, cfg)]
      BY <1>6, <2>2 DEF BeginStart
    <3>3. /\ Running("start", phase, cfg) \in Operations
          /\ Running("start", phase, cfg).kind = "start"
      BY <3>1, RunningFields
    <3>4. Command.pc = "idle"
      BY <1>6 DEF BeginStart, CommandIdle, At, Command
    <3>5. QED
      BY <1>5, <3>2, <3>3, <3>4
  <2>3. QED
    BY <2>1, <2>2
<1>7. ASSUME BeginShutdown
      PROVE  (\A t \in Threads : MovesOn(t)) /\ ShutdownInv'
  <2>1. /\ Command.pc = "idle" /\ Background.pc = "idle"
        /\ op' = [op EXCEPT !["command"] = Running("shutdown", "take", InitialConfig)]
    BY <1>7 DEF BeginShutdown, CommandIdle, At, Command, Background
  <2>2. Running("shutdown", "take", InitialConfig) \in Operations
    BY RunningFields, ConfigAssumption DEF Kinds, Phases
  <2>3. QED
    BY <1>5, <2>1, <2>2
<1>8. ASSUME NEW c \in Configs, BeginUpdate(c)
      PROVE  (\A t \in Threads : MovesOn(t)) /\ ShutdownInv'
  <2>1. Command.pc = "idle"
    BY <1>8 DEF BeginUpdate, CommandIdle, At, Command
  <2>2. CASE IdentityChanged(c)
    <3>1. op' = [op EXCEPT !["command"] = Running("update", "take", c)]
      BY <1>8, <2>2 DEF BeginUpdate
    <3>2. /\ Running("update", "take", c) \in Operations
          /\ Running("update", "take", c).kind = "update"
      BY RunningFields DEF Kinds, Phases
    <3>3. QED
      BY <1>5, <2>1, <3>1, <3>2
  <2>3. CASE ~ IdentityChanged(c)
    BY <1>1, <1>8, <2>3 DEF BeginUpdate
  <2>4. QED
    BY <2>2, <2>3
\* The phases of Start, and the last one of a change of device.
<1>9. ASSUME NEW phase \in Phases, Goto("command", phase),
             Command.pc \in StartPhases, phase \notin ClosePhases,
             Remaining[phase] < Remaining[Command.pc]
      PROVE  (\A t \in Threads : MovesOn(t)) /\ ShutdownInv'
  <2>1. /\ op'["command"].pc = phase /\ op'["command"].kind = op["command"].kind
        /\ \A u \in Threads \ {"command"} : op'[u] = op[u]
    BY <1>9, <1>a, GotoFields
  <2>2. op["command"].pc \notin ClosePhases \cup {"idle"}
    BY <1>9 DEF Command, StartPhases, ClosePhases
  <2>3. StepsLeft(op'["command"]) < StepsLeft(op["command"])
    BY <1>9, <1>a, <2>1, <2>2, GoesDown DEF Command
  <2>4. QED
    BY <1>a, <1>c, <2>1, <2>2, <2>3, MoveOfOne
<1>10. ASSUME Command.pc \in StartPhases, StartFails
       PROVE  (\A t \in Threads : MovesOn(t)) /\ ShutdownInv'
  <2>1. /\ op'["command"].pc = "close" /\ op'["command"].kind = op["command"].kind
        /\ op'["command"].failed
        /\ \A u \in Threads \ {"command"} : op'[u] = op[u]
    BY <1>10, <1>a, StartFailsFields DEF Command, Background
  <2>2. /\ op["command"].pc \notin ClosePhases \cup {"idle"}
        /\ Remaining["close"] < Remaining[op["command"].pc]
    BY <1>10, RemainingValues DEF Command, StartPhases, ClosePhases
  <2>3. StepsLeft(op'["command"]) < StepsLeft(op["command"])
    BY <1>a, <2>1, <2>2, GoesDown
  <2>4. QED
    BY <1>a, <1>c, <2>1, <2>2, <2>3, MoveOfOne
<1>11. ASSUME Command.pc # "idle", Finish("command")
       PROVE  (\A t \in Threads : MovesOn(t)) /\ ShutdownInv'
  <2>1. /\ op'["command"].pc = "idle" /\ op'["command"].kind = "none"
        /\ \A u \in Threads \ {"command"} : op'[u] = op[u]
    BY <1>11, <1>a, FinishFields
  <2>2. StepsLeft(op'["command"]) < StepsLeft(op["command"])
    BY <1>11, <1>a, <2>1, StepsOf DEF Command
  <2>3. QED
    BY <1>11, <1>a, <1>c, <2>1, <2>2, MoveOfOne DEF Command
<1>12. ASSUME NEW node, Command.pc \in {"identify", "login"}, node \in Nodes,
              op' = [op EXCEPT !["command"].pc = "runtime", !["command"].node = node]
       PROVE  (\A t \in Threads : MovesOn(t)) /\ ShutdownInv'
  <2>1. /\ op'["command"].pc = "runtime" /\ op'["command"].kind = op["command"].kind
        /\ \A u \in Threads \ {"command"} : op'[u] = op[u]
    BY <1>12, <1>a, ToRuntimeFields DEF Command, Background
  <2>2. /\ op["command"].pc \notin ClosePhases \cup {"idle"}
        /\ Remaining["runtime"] < Remaining[op["command"].pc]
    BY <1>12, RemainingValues DEF Command, ClosePhases
  <2>3. StepsLeft(op'["command"]) < StepsLeft(op["command"])
    BY <1>a, <2>1, <2>2, GoesDown DEF ClosePhases
  <2>4. QED
    BY <1>a, <1>c, <2>1, <2>2, <2>3, MoveOfOne
<1>13. ASSUME \/ Dial \/ ConnectSucceeds \/ ConnectMarks \/ RuntimeStarts
       PROVE  (\A t \in Threads : MovesOn(t)) /\ ShutdownInv'
  BY <1>9, <1>13, RemainingValues
     DEF Dial, ConnectSucceeds, ConnectMarks, RuntimeStarts, At, Command,
         StartPhases, ClosePhases, Phases
<1>14. ASSUME ConnectFails \/ Install \/ ClearIdentity
       PROVE  (\A t \in Threads : MovesOn(t)) /\ ShutdownInv'
  BY <1>11, <1>14 DEF ConnectFails, Install, ClearIdentity, At, Command
<1>15. ASSUME RuntimeFails
       PROVE  (\A t \in Threads : MovesOn(t)) /\ ShutdownInv'
  BY <1>10, <1>15 DEF RuntimeFails, At, Command, StartPhases
<1>16. ASSUME Identify
       PROVE  (\A t \in Threads : MovesOn(t)) /\ ShutdownInv'
  <2>1. Command.pc = "identify" /\ auth.node \in Nodes
    BY <1>16 DEF Identify, At, Command, EngineInv, TypeOK, Snapshots
  <2>2. \/ Goto("command", "register") \/ Goto("command", "login") \/ StartFails
        \/ op' = [op EXCEPT !["command"].pc = "runtime",
                            !["command"].node = auth.node]
    <3>1. auth.node = NoDevice \/ (auth.node # NoDevice /\ ~ auth.loggedIn)
             \/ (auth.node # NoDevice /\ auth.loggedIn)
      OBVIOUS
    <3>2. QED
      BY <1>16, <3>1 DEF Identify
  <2>3. QED
    BY <1>9, <1>10, <1>12, <2>1, <2>2, RemainingValues
       DEF StartPhases, ClosePhases, Phases
<1>17. ASSUME Register
       PROVE  (\A t \in Threads : MovesOn(t)) /\ ShutdownInv'
  <2>1. /\ Command.pc = "register"
        /\ Goto("command", "login") \/ StartFails
    BY <1>17 DEF Register, Refused, At, Command
  <2>2. QED
    BY <1>9, <1>10, <2>1, RemainingValues DEF StartPhases, ClosePhases, Phases
<1>18. ASSUME Login
       PROVE  (\A t \in Threads : MovesOn(t)) /\ ShutdownInv'
  <2>1. /\ Command.pc = "login" /\ auth.node \in Nodes
        /\ \/ StartFails
           \/ op' = [op EXCEPT !["command"].pc = "runtime",
                               !["command"].node = auth.node]
    BY <1>18 DEF Login, Refused, At, Command, EngineInv, TypeOK, Snapshots
  <2>2. QED
    BY <1>10, <1>12, <2>1 DEF StartPhases
<1>19. ASSUME NEW t \in Threads, StopTakes(t)
       PROVE  (\A u \in Threads : MovesOn(u)) /\ ShutdownInv'
  <2>1. /\ op[t].pc = "take"
        /\ op' = [op EXCEPT ![t].pc = "stop", ![t].run = runtime.run]
        /\ runtime.run \in 0 .. MaxRuns
    BY <1>19 DEF StopTakes, At, EngineInv, TypeOK
  <2>2. /\ op'[t].pc = "stop" /\ op'[t].kind = op[t].kind
        /\ \A u \in Threads \ {t} : op'[u] = op[u]
    BY <1>a, <2>1, TakeFields
  <2>3. Remaining[op'[t].pc] < Remaining[op[t].pc]
    BY <2>1, <2>2, RemainingValues
  <2>4. StepsLeft(op'[t]) < StepsLeft(op[t])
    BY <1>a, <2>1, <2>2, <2>3, GoesDown DEF ClosePhases
  <2>5. QED
    BY <1>c, <2>1, <2>2, <2>4, MoveOfOne
<1>20. ASSUME NEW t \in Threads, StopRuntime(t)
       PROVE  (\A u \in Threads : MovesOn(u)) /\ ShutdownInv'
  <2>1. op[t].pc = "stop" /\ op[t].kind # "start"
    BY <1>20, <1>a, <1>b
       DEF StopRuntime, At, Command, Background, StartPhases, ClosePhases
  <2>2. PICK failed \in BOOLEAN :
           op' = [op EXCEPT ![t].pc = "close", ![t].failed = failed]
    BY <1>20 DEF StopRuntime
  <2>3. /\ op'[t].pc = "close" /\ op'[t].kind = op[t].kind
        /\ \A u \in Threads \ {t} : op'[u] = op[u]
    BY <1>a, <2>2, StoppedFields
  <2>4. StepsLeft(op'[t]) < StepsLeft(op[t])
    BY <1>a, <2>1, <2>3, GoesDown, RemainingValues DEF ClosePhases
  <2>5. QED
    BY <1>c, <2>1, <2>3, <2>4, MoveOfOne
<1>21. ASSUME Restart
       PROVE  (\A t \in Threads : MovesOn(t)) /\ ShutdownInv'
  <2>1. \A t \in Threads : op'[t] = IdleOp
    BY <1>21 DEF Restart
  <2>2. \A t \in Threads : MovesOn(t)
    BY <1>a, <2>1, StepsOf, IdleOpFields DEF MovesOn, At
  <2>3. ShutdownInv'
    BY <1>a, <2>1, IdleOpFields DEF ShutdownInv, Command
  <2>4. QED
    BY <2>2, <2>3
<1>22. ASSUME \/ SessionError \/ FrameArrives \/ UNCHANGED vars
              \/ \E n \in 1 .. MaxRuns : Consume(n) \/ ConsumerEnds(n)
       PROVE  (\A t \in Threads : MovesOn(t)) /\ ShutdownInv'
  BY <1>1, <1>22 DEF SessionError, FrameArrives, Consume, ConsumerEnds, vars
<1>23. QED
  BY <1>2, <1>3, <1>4, <1>6, <1>7, <1>8, <1>13, <1>14, <1>15, <1>16, <1>17,
     <1>18, <1>19, <1>20, <1>21, <1>22 DEF Next

\* Whatever fails, and whatever the other thread or a broken session does
\* meanwhile, each step of connect, shutdown, set_config and the background Stop
\* brings the call nearer to its end, and a call begins only where none is in
\* progress: there is no retry and no way back (engine.go:98-223,
\* client.go:108-188, 433-456, main.go:345-349).
THEOREM EngineCallsAdvance == Spec => [][\A t \in Threads : MovesOn(t)]_vars
<1>1. Init => ShutdownInv
  BY IdleOpFields DEF Init, ShutdownInv, Command, Threads
<1>2. EngineInv /\ ShutdownInv /\ [Next]_vars =>
          ShutdownInv' /\ [\A t \in Threads : MovesOn(t)]_vars
  BY StepMovesOn
<1>3. QED
  BY <1>1, <1>2, EngineInvariant, PTL DEF Spec
===============================================================================
