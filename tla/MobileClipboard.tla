---------------------------- MODULE MobileClipboard ----------------------------
(***************************************************************************)
(* The clipboard of a phone: the binding nodemobile and its Android host,  *)
(* MobileEngineChannel.                                                    *)
(*                                                                         *)
(* The engine cannot reach the system clipboard.  It writes to a manual    *)
(* clipboard of its own, from whose slot the host takes the text and sets  *)
(* the system clipboard, by polling when texts are applied automatically   *)
(* and after applyEvent when the user asked for one.  If the slot is empty *)
(* the host takes the newest text among the decisions of the engine.  In   *)
(* the other direction the host copies the system clipboard to the manual  *)
(* clipboard and has the engine read it.                                   *)
(*                                                                         *)
(* What the host does runs on the main thread, one call at a time; main is *)
(* what that thread is in the middle of.  Each engine has a consumer       *)
(* goroutine beside it.  Which messages the runtime accepts and what it    *)
(* publishes is ClipboardRuntime's: here every remote text reaches an      *)
(* engine at most once.                                                    *)
(*                                                                         *)
(* The manual clipboard cannot be watched: WatchText returns an error, and *)
(* a configuration that enables sync with auto_watch makes the runtime     *)
(* fail.  The host never sees the error as more than a failed call.        *)
(***************************************************************************)
EXTENDS Integers, Sequences, FiniteSets

CONSTANTS
    Remote,    \* texts of remote events
    UserTexts, \* texts the user copies or shares
    NoText,    \* the empty string
    Policies,  \* configurations, as far as this module reads them
    NoEngine,  \* nil
    QueueSize  \* capacity of Runtime.decisions and of Engine.decisions

\* enabled and auto_apply as one mode, and auto_watch.
Policy == [mode : {"off", "ask", "auto"}, watch : BOOLEAN]

ASSUME TextsAssumption == /\ Remote \cap UserTexts = {}
                          /\ NoText \notin Remote \cup UserTexts
ASSUME PolicyAssumption == Policies \subseteq Policy
ASSUME QueueAssumption == QueueSize \in Nat \ {0}

VARIABLES
    engine,   \* nodemobile.current with its runtime and its manualClipboard
    main,     \* the call in progress on the main thread
    policy,   \* listening and pollingAppliedText
    suppress, \* suppressNextClipboardChange
    noticed,  \* notifications of a changed clipboard are on their way
    system,   \* the system clipboard
    last      \* history: the last text taken from the engine

vars == <<engine, main, policy, suppress, noticed, system, last>>
hostVars == <<policy, suppress, noticed, system, last>>

Texts == Remote \cup UserTexts \cup {NoText}

\* The fields of an engine: whether it has a runtime, its configuration, the
\* mode of its runtime, the text and the slot of the manual clipboard, the
\* remote texts that have arrived, those that wait for the user, the text its
\* consumer has written but not yet recorded, the two queues of decisions, of
\* which only the applied texts matter (NoText stands for any other decision),
\* and two history fields: the last application recorded, and whether a full
\* queue, or a change of device, has dropped one.
Engine ==
    [running : BOOLEAN, config : Policies, mode : {"off", "ask", "auto"},
     text : Texts, slot : Remote \cup {NoText},
     arrived : SUBSET Remote, pending : SUBSET Remote,
     writing : Remote \cup {NoText},
     recorded : Seq(Remote \cup {NoText}), decisions : Seq(Remote \cup {NoText}),
     newest : Remote \cup {NoText}, lost : BOOLEAN]
NewEngine(p) ==
    [running |-> TRUE, config |-> p, mode |-> p.mode, text |-> NoText,
     slot |-> NoText, arrived |-> {}, pending |-> {}, writing |-> NoText,
     recorded |-> << >>,
     decisions |-> << >>, newest |-> NoText, lost |-> FALSE]

ASSUME EngineAssumption == NoEngine \notin Engine

Silent == [listening |-> FALSE, polling |-> FALSE]
Idle   == [pc |-> "idle", text |-> NoText]

Current    == engine # NoEngine
Running    == Current /\ engine.running
ThreadFree == main = Idle

Init ==
    /\ engine = NoEngine
    /\ main = Idle
    /\ policy = Silent
    /\ suppress = FALSE /\ noticed = FALSE
    /\ system = NoText
    /\ last = NoText
-------------------------------------------------------------------------------
(* The engine. *)

\* Runtime.emitDecisionLocked and Engine.emitDecision: a full queue drops.
Room(queue) == Len(queue) < QueueSize
Recorded(e, d) ==
    [e EXCEPT !.recorded = IF Room(@) THEN Append(@, d) ELSE @,
              !.newest   = IF d = NoText THEN @ ELSE d,
              !.lost     = @ \/ (d # NoText /\ ~ Room(e.recorded))]
Forwarded(e) ==
    [e EXCEPT !.recorded  = Tail(@),
              !.decisions = IF Room(@) THEN Append(@, Head(e.recorded)) ELSE @,
              !.lost      = @ \/ (Head(e.recorded) # NoText /\ ~ Room(e.decisions))]

\* WriteText.
Mutant_Written(e, t) == [e EXCEPT !.text = t]
Written(e, t) == [e EXCEPT !.text = t, !.slot = t]

\* HandleTopicBusMessage, up to the write or to the end.
Receive(t) ==
    /\ Running
    /\ engine.writing = NoText /\ t \notin engine.arrived
    /\ LET e == [engine EXCEPT !.arrived = @ \cup {t}]
       IN  \/ e.mode = "off"  /\ engine' = Recorded(e, NoText)
           \/ e.mode = "ask"  /\ engine' = Recorded([e EXCEPT !.pending = @ \cup {t}], NoText)
           \/ e.mode = "auto" /\ engine' = Written([e EXCEPT !.writing = t], t)
    /\ UNCHANGED <<main, hostVars>>

\* The end of HandleTopicBusMessage, after the write.
RecordApplied ==
    /\ Running /\ engine.writing # NoText
    /\ engine' = Recorded([engine EXCEPT !.writing = NoText], engine.writing)
    /\ UNCHANGED <<main, hostVars>>

\* consumeRuntime hands a decision on.
Forward ==
    /\ Running /\ engine.writing = NoText /\ engine.recorded # << >>
    /\ engine' = Forwarded(engine)
    /\ UNCHANGED <<main, hostVars>>
-------------------------------------------------------------------------------
(* start, updateConfig and stop. *)

\* WatchText of the manual clipboard fails, and the call with it.
Watches(p) == p.mode # "off" /\ p.watch

\* syncClipboardPolicy.
Mutant_SyncPolicy(p) ==
    policy' = [listening |-> Watches(p), polling |-> policy.polling]
SyncPolicy(p) == policy' = [listening |-> Watches(p), polling |-> p.mode = "auto"]

\* The new engine consumes before Start puts it in the place of the old one,
\* which goes on until then.  No call can see what the old one still does, so
\* that here it ends with the beginning of the call; its clipboard goes with
\* it.  A Start that fails changes nothing.
Start(p) ==
    /\ ThreadFree /\ ~ Watches(p)
    /\ engine' = NewEngine(p)
    /\ main' = [pc |-> "start", policy |-> p]
    /\ last' = NoText
    /\ UNCHANGED <<policy, suppress, noticed, system>>

EndStart ==
    /\ main.pc = "start"
    /\ SyncPolicy(main.policy)
    /\ main' = Idle
    /\ UNCHANGED <<engine, suppress, noticed, system, last>>

\* Runtime.UpdateConfig: disabling empties the pending queue.
Installed(e, p) ==
    [e EXCEPT !.mode = p.mode, !.pending = IF p.mode = "off" THEN {} ELSE @]

UpdateConfig(p) ==
    /\ ThreadFree /\ Running /\ ~ Watches(p)
    /\ engine' = Installed([engine EXCEPT !.config = p], p)
    /\ SyncPolicy(p)
    /\ UNCHANGED <<main, suppress, noticed, system, last>>

\* The engine takes the configuration before the runtime refuses it; only
\* disabling is done before it fails.  The host keeps its policy.
UpdateFails(p) ==
    /\ ThreadFree /\ Running
    /\ {p.mode, engine.mode} # {"off"}
    /\ LET e == [engine EXCEPT !.config = p]
       IN  engine' = IF p.mode = "off" THEN Installed(e, p) ELSE e
    /\ UNCHANGED <<main, hostVars>>

\* A configuration for another device stops the engine, and the decisions its
\* consumer has not forwarded are lost with the runtime.  Engine.Stop waits two
\* seconds for the consumer at most; the manual clipboard's write, a few
\* assignments under a mutex, ends within them.
Stopped(e) ==
    [e EXCEPT !.running = FALSE, !.mode = "off", !.pending = {},
              !.recorded = << >>,
              !.lost = @ \/ \E i \in DOMAIN e.recorded : e.recorded[i] # NoText]
ChangeDevice(p) ==
    /\ ThreadFree /\ Running
    /\ engine.writing = NoText
    /\ \/ engine' = [Stopped(engine) EXCEPT !.config = p] /\ SyncPolicy(p)
       \/ engine' = Stopped(engine) /\ UNCHANGED policy
    /\ UNCHANGED <<main, suppress, noticed, system, last>>

\* A stopped engine takes any configuration.
UpdateStopped(p) ==
    /\ ThreadFree /\ Current /\ ~ Running
    /\ engine' = [engine EXCEPT !.config = p]
    /\ SyncPolicy(p)
    /\ UNCHANGED <<main, suppress, noticed, system, last>>

Stop ==
    /\ ThreadFree
    /\ engine' = NoEngine
    /\ policy' = Silent
    /\ last' = NoText
    /\ UNCHANGED <<main, suppress, noticed, system>>
-------------------------------------------------------------------------------
(* From the system clipboard to the engine. *)

UserCopies(t) ==
    /\ system' = t
    /\ noticed' = (noticed \/ policy.listening)
    /\ UNCHANGED <<engine, main, policy, suppress, last>>

\* SetClipboardText.  A manual clipboard made while there is no engine is
\* never read and is left out.
Mutant_SetLocalText(t) == engine' = Written(engine, t)
SetLocalText(t) == engine' = [engine EXCEPT !.text = t]

\* handleIntent.
Share(t) ==
    /\ ThreadFree /\ Current
    /\ SetLocalText(t)
    /\ UNCHANGED <<main, hostVars>>

\* sendText leaves a decision.
SendText ==
    /\ ThreadFree /\ Running
    /\ engine' = Recorded(engine, NoText)
    /\ UNCHANGED <<main, hostVars>>

\* readClipboard, in two calls to the binding.
BeginRead ==
    /\ Current /\ system # NoText
    /\ SetLocalText(system)
    /\ main' = [pc |-> "read", text |-> system]

ReadClipboard ==
    /\ ThreadFree
    /\ BeginRead
    /\ UNCHANGED hostVars

\* The runtime, if there is one, is given what the manual clipboard holds by
\* then.
EndRead ==
    /\ main.pc = "read"
    /\ engine' = IF Running THEN Recorded(engine, NoText) ELSE engine
    /\ main' = Idle
    /\ UNCHANGED hostVars

\* onPrimaryClipChanged.
ClipChanged ==
    /\ ThreadFree /\ noticed
    /\ noticed' \in BOOLEAN
    /\ \/ /\ policy.listening /\ ~ suppress
          /\ BeginRead
          /\ UNCHANGED suppress
       \/ /\ policy.listening /\ suppress
          /\ suppress' = FALSE
          /\ UNCHANGED <<engine, main>>
       \/ /\ ~ policy.listening
          /\ UNCHANGED <<engine, main, suppress>>
    /\ UNCHANGED <<policy, system, last>>

\* A second after the host has set the clipboard.
SuppressionEnds ==
    /\ ThreadFree /\ suppress
    /\ suppress' = FALSE
    /\ UNCHANGED <<engine, main, policy, noticed, system, last>>
-------------------------------------------------------------------------------
(* From the engine to the system clipboard. *)

\* setSystemClipboard, with what follows it in the call.
SetSystem(t) ==
    /\ system' = t
    /\ suppress' = TRUE
    /\ noticed' = (noticed \/ policy.listening)
    /\ last' = t
    /\ main' = Idle
    /\ UNCHANGED policy

\* ApplyPending on the main thread: the write, and the record of it.
ApplyEvent(t) ==
    /\ ThreadFree /\ Running
    /\ t \in engine.pending
    /\ engine' = Written(engine, t)
    /\ main' = [pc |-> "record", text |-> t]
    /\ UNCHANGED hostVars

RecordEvent ==
    /\ main.pc = "record"
    /\ engine' = Recorded([engine EXCEPT !.pending = @ \ {main.text}], main.text)
    /\ main' = [Idle EXCEPT !.pc = "take"]
    /\ UNCHANGED hostVars

\* TakeLastAppliedText: the slot.
Mutant_TakeSlot ==
    /\ Current /\ engine.slot # NoText
    /\ UNCHANGED engine
    /\ SetSystem(engine.slot)
TakeSlot ==
    /\ Current /\ engine.slot # NoText
    /\ engine' = [engine EXCEPT !.slot = NoText]
    /\ SetSystem(engine.slot)

\* TakeLastAppliedText: the newest application among the decisions.
Applications(list) == {i \in DOMAIN list : list[i] # NoText}
Mutant_NewestOf(list) ==
    list[CHOOSE i \in Applications(list) : \A j \in Applications(list) : i <= j]
NewestOf(list) ==
    list[CHOOSE i \in Applications(list) : \A j \in Applications(list) : j <= i]

Drain ==
    /\ main.pc = "drain"
    /\ engine' = [engine EXCEPT !.decisions = << >>]
    /\ IF Applications(engine.decisions) = {}
       THEN main' = Idle /\ UNCHANGED hostVars
       ELSE SetSystem(NewestOf(engine.decisions))

\* pollAppliedText.  It stops for good when a call of the binding throws, which
\* the binding in use does not.
Poll ==
    /\ ThreadFree /\ policy.polling
    /\ \/ TakeSlot
       \/ /\ Current /\ engine.slot = NoText
          /\ main' = [Idle EXCEPT !.pc = "drain"]
          /\ UNCHANGED <<engine, hostVars>>

\* applyDecisionToSystemClipboard.  That the slot could be empty here, which
\* the host reports as an error, AppliedTextIsAvailable excludes.
TakeEvent == main.pc = "take" /\ TakeSlot
-------------------------------------------------------------------------------
Consumer ==
    \/ \E t \in Remote : Receive(t)
    \/ RecordApplied
    \/ Forward

\* What ends a call in progress.
Continue ==
    \/ EndStart
    \/ EndRead
    \/ RecordEvent
    \/ TakeEvent
    \/ Drain

Next ==
    \/ Consumer
    \/ \E p \in Policies : Start(p) \/ UpdateConfig(p) \/ UpdateFails(p)
                            \/ ChangeDevice(p) \/ UpdateStopped(p)
    \/ Stop
    \/ \E t \in UserTexts : UserCopies(t) \/ Share(t)
    \/ SendText
    \/ ReadClipboard
    \/ ClipChanged
    \/ SuppressionEnds
    \/ \E t \in Remote : ApplyEvent(t)
    \/ Poll
    \/ Continue

Spec == Init /\ [][Next]_vars

\* The main looper runs what was posted in the order of its due time, so that
\* the poller gets its turn among the other calls; calls return.
FairSpec ==
    /\ Spec
    /\ WF_vars(Continue)
    /\ SF_vars(Poll)
-------------------------------------------------------------------------------
(* Properties. *)

\* The shape of the state.  Only texts of remote events are in a slot or among
\* the decisions, whatever the user copies (nodemobile_test.go:11-37).
TypeOK ==
    /\ engine \in Engine \cup {NoEngine}
    /\ main \in [pc : {"idle", "read", "record", "take", "drain"}, text : Texts]
                \cup [pc : {"start"}, policy : Policies]
    /\ policy \in [listening : BOOLEAN, polling : BOOLEAN]
    /\ system \in Texts /\ last \in Remote \cup {NoText}
    /\ {suppress, noticed} \subseteq BOOLEAN

\* When everything the current engine has applied has been taken and no queue
\* was full, the last text the host has set is the last one the runtime
\* recorded as applied, however the slot, the two queues, the user's own
\* applies and the automatic ones interleave (nodemobile.go:181-216).
Quiet(e) ==
    /\ e.writing = NoText /\ e.slot = NoText /\ e.recorded = << >>
    /\ Applications(e.decisions) = {}
NewestAppliedReachesHost ==
    Current /\ ThreadFree /\ Quiet(engine) /\ ~ engine.lost =>
        last = engine.newest

\* After applyEvent there is a text to take: nothing between the write and the
\* take empties the slot (MobileEngineChannel.kt:212-226).
AppliedTextIsAvailable == main.pc = "take" => engine.slot # NoText

\* The host polls whenever the runtime applies texts by itself, across start,
\* stop, restart, change of device and updates that fail half way; without an
\* engine it neither listens nor polls (MobileEngineChannel.kt:62-80, 112-141).
PollsForAutoApply ==
    ThreadFree =>
    IF Current THEN engine.mode = "auto" => policy.polling ELSE policy = Silent

\* A text that waits in the slot while the host polls is taken, or replaced by
\* a newer one (MobileEngineChannel.kt:36-43, 199-210).
Waiting(t) == Current /\ policy.polling /\ engine.slot = t
AppliedTextsAreTaken == \A t \in Remote : Waiting(t) ~> ~ Waiting(t)
===============================================================================
