--------------------------- MODULE RuntimeLifecycle ---------------------------
(***************************************************************************)
(* The lifecycle of a runtime: Start, Stop, UpdateConfig and               *)
(* OnConnectivityRestored of core/runtime/runtime.go, with the failure of  *)
(* every call they make.                                                   *)
(*                                                                         *)
(* The host runs one operation at a time (stdioHost.cmdMu).  One action is *)
(* a critical section of an operation, or one of its calls: Subscribe or   *)
(* Unsubscribe of one topic, WatchText of the clipboard adapter.  Between  *)
(* the calls the connection may be lost.  A call that fails (all of them   *)
(* time out) may have taken effect at the hub or not.  The code calls the  *)
(* hub in the order of its topic list; here the order is any.              *)
(***************************************************************************)
EXTENDS FiniteSets

CONSTANTS
    Topics,         \* topic names
    Configs,        \* configurations the host may install
    InitialConfig,  \* the one the runtime is created with
    Watchers,       \* watchers the clipboard adapter may start; a bound
    NoWatcher       \* no watcher

\* A normalized Config, as far as the lifecycle reads it.
Config == [enabled : BOOLEAN, autoWatch : BOOLEAN, topics : SUBSET Topics]

ASSUME ConfigAssumption == Configs \subseteq Config /\ InitialConfig \in Configs
ASSUME WatcherAssumption == NoWatcher \notin Watchers

VARIABLES
    cfg, started, subscribed, watching,  \* the fields of Runtime
    runCtx,        \* whether runCtx is set and not cancelled
    watchCancel,   \* the watcher whose context watchCancel cancels
    live,          \* adapter watchers whose context is not cancelled
    consumed,      \* those that runClipboardWatcher reads
    op,            \* the operation in progress
    session,       \* the connection: up, down, or back after a loss
    hub,           \* topics the hub delivers to this node
    doubt,         \* history: topics whose last call failed, or was undone
                   \* by the loss of the connection
    troubled       \* history: whether anything has failed

flagVars  == <<started, subscribed, watching, runCtx, watchCancel>>
watchVars == <<live, consumed>>
hubVars   == <<session, hub, doubt>>
vars == <<cfg, flagVars, watchVars, op, hubVars, troubled>>

\* An operation: its phase, the configuration it installs, the topics it has
\* yet to call for, those it has subscribed, the watcher it has started and
\* whether an Unsubscribe failed.
Running(kind, phase, next, topics) ==
    [kind |-> kind, pc |-> phase, next |-> next, todo |-> topics,
     done |-> {}, new |-> NoWatcher, failed |-> FALSE]
IdleOp == Running("none", "idle", InitialConfig, {})

Connected == session # "down"
Idle == op.pc = "idle"
Finish == op' = IdleOp

Init ==
    /\ cfg = InitialConfig
    /\ started = FALSE /\ subscribed = FALSE /\ watching = FALSE
    /\ runCtx = FALSE /\ watchCancel = NoWatcher
    /\ live = {} /\ consumed = {}
    /\ op = IdleOp
    /\ session = "up" /\ hub = {} /\ doubt = {}
    /\ troubled = FALSE
-------------------------------------------------------------------------------
(* Pieces. *)

\* The topics a configuration wants subscribed.
Active(c) == IF c.enabled THEN c.topics ELSE {}

Mutant_OnlyNewTopics(previous, next) == Active(next) \ previous.topics
TopicsToSubscribe(previous, next) == Active(next) \ Active(previous)
TopicsToUnsubscribe(previous, next) == Active(previous) \ Active(next)

\* Cancelling a watcher's context ends the watcher and its reader: `consumed' are
\* the watchers whose reader is not cancelled.  A cancelled reader may still hand
\* over the text it has received (runtime.go:818-829), which the lifecycle does
\* not see; ClipboardRuntime has it, as a HandleLocalText that outlives the
\* configuration it started under.
Mutant_ReaderGoesOn(w) == live' = live \ {w} /\ UNCHANGED consumed
CancelWatcher(w) == live' = live \ {w} /\ consumed' = consumed \ {w}

\* Cancelling the run context ends every watcher derived from it.
Mutant_CancelCurrentOnly == runCtx' = FALSE /\ CancelWatcher(watchCancel)
CancelRun == runCtx' = FALSE /\ live' = {} /\ consumed' = {}

\* What a failure takes back: the topics the operation has subscribed.
Mutant_UndoNothing == {}
TopicsToUndo == op.done

\* What an update does with the watcher.
StopsWatcher == watching /\ ~ (op.next.enabled /\ op.next.autoWatch)
Mutant_StartsWatcher == op.next.enabled /\ op.next.autoWatch
StartsWatcher == op.next.enabled /\ op.next.autoWatch /\ ~ watching
-------------------------------------------------------------------------------
(* Calls an operation makes. *)

SubscribeSucceeds(p) ==
    /\ op.pc = "subscribe" /\ p \in op.todo
    /\ Connected
    /\ hub' = hub \cup {p}
    /\ doubt' = doubt \ {p}
    /\ op' = [op EXCEPT !.todo = @ \ {p}, !.done = @ \cup {p}]
    /\ UNCHANGED <<cfg, flagVars, watchVars, session, troubled>>

\* The first failure ends subscribeTopics; the topics it had subscribed are
\* unsubscribed again.
SubscribeFails(p) ==
    /\ op.pc = "subscribe" /\ p \in op.todo
    /\ hub' \in {hub, IF Connected THEN hub \cup {p} ELSE hub}
    /\ doubt' = doubt \cup {p}
    /\ op' = [op EXCEPT !.pc = "rollback", !.todo = TopicsToUndo]
    /\ troubled' = TRUE
    /\ UNCHANGED <<cfg, flagVars, watchVars, session>>

\* Without a connection Unsubscribe does nothing and reports success.
UnsubscribeSucceeds(p) ==
    /\ op.pc \in {"unsubscribe", "rollback"} /\ p \in op.todo
    /\ hub' = hub \ {p}
    /\ doubt' = doubt \ {p}
    /\ op' = [op EXCEPT !.todo = @ \ {p}]
    /\ UNCHANGED <<cfg, flagVars, watchVars, session, troubled>>

\* unsubscribeTopics goes on after a failure; a rollback ignores it.
UnsubscribeFails(p) ==
    /\ op.pc \in {"unsubscribe", "rollback"} /\ p \in op.todo
    /\ Connected
    /\ hub' \in {hub, hub \ {p}}
    /\ doubt' = doubt \cup {p}
    /\ op' = [op EXCEPT !.todo = @ \ {p}, !.failed = TRUE]
    /\ troubled' = TRUE
    /\ UNCHANGED <<cfg, flagVars, watchVars, session>>

\* WatchText of the adapter, under a context derived from runCtx.
WatchSucceeds(w) ==
    /\ op.pc = "watch"
    /\ w \notin live \cup {watchCancel}
    /\ live' = live \cup {w}
    /\ op' = [op EXCEPT !.new = w,
                        !.pc = IF op.kind = "start" THEN "install"
                                                    ELSE "unsubscribe",
                        !.todo = IF op.kind = "start" THEN {}
                                 ELSE TopicsToUnsubscribe(cfg, op.next)]
    /\ UNCHANGED <<cfg, flagVars, consumed, hubVars, troubled>>

WatchFails ==
    /\ op.pc = "watch"
    /\ op' = [op EXCEPT !.pc = "rollback", !.todo = TopicsToUndo]
    /\ troubled' = TRUE
    /\ UNCHANGED <<cfg, flagVars, watchVars, hubVars>>
-------------------------------------------------------------------------------
(* Start. *)

\* A disabled runtime starts without any call.
Mutant_StartDisabled ==
    /\ Idle /\ ~ started /\ ~ cfg.enabled
    /\ started' = TRUE
    /\ UNCHANGED <<cfg, runCtx, subscribed, watching, watchCancel, watchVars,
                   op, hubVars, troubled>>
StartDisabled ==
    /\ Idle /\ ~ started /\ ~ cfg.enabled
    /\ runCtx' = TRUE
    /\ started' = TRUE
    /\ UNCHANGED <<cfg, subscribed, watching, watchCancel, watchVars, op,
                   hubVars, troubled>>

BeginStart ==
    /\ Idle /\ ~ started /\ cfg.enabled
    /\ runCtx' = TRUE
    /\ op' = Running("start", "subscribe", cfg, cfg.topics)
    /\ UNCHANGED <<cfg, started, subscribed, watching, watchCancel,
                   watchVars, hubVars, troubled>>

StartSubscribed ==
    /\ op.kind = "start" /\ op.pc = "subscribe" /\ op.todo = {}
    /\ op' = [op EXCEPT !.pc = IF cfg.autoWatch THEN "watch" ELSE "install"]
    /\ UNCHANGED <<cfg, flagVars, watchVars, hubVars, troubled>>

StartInstalls ==
    /\ op.kind = "start" /\ op.pc = "install"
    /\ started' = TRUE /\ subscribed' = TRUE /\ watching' = cfg.autoWatch
    /\ watchCancel' = op.new
    /\ consumed' = consumed \cup ({op.new} \ {NoWatcher})
    /\ Finish
    /\ UNCHANGED <<cfg, runCtx, live, hubVars, troubled>>

\* After the rollback: cancel and clearStartState.
StartFails ==
    /\ op.kind = "start" /\ op.pc = "rollback" /\ op.todo = {}
    /\ CancelRun
    /\ started' = FALSE /\ subscribed' = FALSE /\ watching' = FALSE
    /\ watchCancel' = NoWatcher
    /\ Finish
    /\ UNCHANGED <<cfg, hubVars, troubled>>
-------------------------------------------------------------------------------
(* Stop. *)
BeginStop ==
    /\ Idle
    /\ CancelRun
    /\ started' = FALSE /\ subscribed' = FALSE /\ watching' = FALSE
    /\ watchCancel' = NoWatcher
    /\ IF subscribed THEN op' = Running("stop", "unsubscribe", cfg, cfg.topics)
                     ELSE UNCHANGED op
    /\ UNCHANGED <<cfg, hubVars, troubled>>
-------------------------------------------------------------------------------
(* UpdateConfig. *)
UpdateStopped(c) ==
    /\ Idle /\ ~ started
    /\ cfg' = c
    /\ UNCHANGED <<flagVars, watchVars, op, hubVars, troubled>>

\* Disabling takes effect before the topics are unsubscribed.
Mutant_DisableStillWatching(c) ==
    /\ Idle /\ started /\ cfg.enabled /\ ~ c.enabled
    /\ CancelWatcher(watchCancel)
    /\ cfg' = c
    /\ subscribed' = FALSE /\ watchCancel' = NoWatcher
    /\ op' = Running("disable", "unsubscribe", c, cfg.topics)
    /\ UNCHANGED <<started, watching, runCtx, hubVars, troubled>>
Disable(c) ==
    /\ Idle /\ started /\ cfg.enabled /\ ~ c.enabled
    /\ CancelWatcher(watchCancel)
    /\ cfg' = c
    /\ subscribed' = FALSE /\ watching' = FALSE /\ watchCancel' = NoWatcher
    /\ op' = Running("disable", "unsubscribe", c, cfg.topics)
    /\ UNCHANGED <<started, runCtx, hubVars, troubled>>

\* Any other change first subscribes the topics it adds.
BeginUpdate(c) ==
    /\ Idle /\ started /\ (cfg.enabled => c.enabled)
    /\ op' = Running("update", "subscribe", c, TopicsToSubscribe(cfg, c))
    /\ UNCHANGED <<cfg, flagVars, watchVars, hubVars, troubled>>

\* Then it cancels the watcher, if the new configuration wants none, and
\* starts one, if it wants one and there is none.
UpdateSubscribed ==
    /\ op.kind = "update" /\ op.pc = "subscribe" /\ op.todo = {}
    /\ IF StopsWatcher THEN CancelWatcher(watchCancel) ELSE UNCHANGED watchVars
    /\ op' = IF StartsWatcher
             THEN [op EXCEPT !.pc = "watch"]
             ELSE [op EXCEPT !.pc = "unsubscribe",
                             !.todo = TopicsToUnsubscribe(cfg, op.next)]
    /\ UNCHANGED <<cfg, flagVars, hubVars, troubled>>

\* Then it unsubscribes the topics it drops.  If that fails, only the topics
\* it added are taken back: nothing cancels a watcher it has started.
Mutant_UpdateRetries ==
    /\ op.kind = "update" /\ op.pc = "unsubscribe" /\ op.todo = {}
    /\ op.failed
    /\ op' = [op EXCEPT !.todo = TopicsToUnsubscribe(cfg, op.next),
                        !.failed = FALSE]
    /\ UNCHANGED <<cfg, flagVars, watchVars, hubVars, troubled>>
UpdateUndoes ==
    /\ op.kind = "update" /\ op.pc = "unsubscribe" /\ op.todo = {}
    /\ op.failed
    /\ op' = [op EXCEPT !.pc = "rollback", !.todo = TopicsToUndo]
    /\ UNCHANGED <<cfg, flagVars, watchVars, hubVars, troubled>>

UpdateFails ==
    /\ op.kind = "update" /\ op.pc = "rollback" /\ op.todo = {}
    /\ Finish
    /\ UNCHANGED <<cfg, flagVars, watchVars, hubVars, troubled>>

\* Last critical section.
Mutant_InstallsAnyway ==
    /\ op.kind = "update" /\ op.pc = "unsubscribe" /\ op.todo = {}
    /\ cfg' = op.next
    /\ subscribed' = op.next.enabled
    /\ watching' = (op.next.enabled /\ op.next.autoWatch)
    /\ watchCancel' = IF op.new # NoWatcher THEN op.new
                      ELSE IF StopsWatcher THEN NoWatcher ELSE watchCancel
    /\ consumed' = consumed \cup ({op.new} \ {NoWatcher})
    /\ Finish
    /\ UNCHANGED <<started, runCtx, live, hubVars, troubled>>
UpdateInstalls ==
    /\ op.kind = "update" /\ op.pc = "unsubscribe" /\ op.todo = {}
    /\ ~ op.failed
    /\ cfg' = op.next
    /\ subscribed' = op.next.enabled
    /\ watching' = IF op.new # NoWatcher THEN TRUE
                   ELSE IF StopsWatcher THEN FALSE ELSE watching
    /\ watchCancel' = IF op.new # NoWatcher THEN op.new
                      ELSE IF StopsWatcher THEN NoWatcher ELSE watchCancel
    /\ consumed' = consumed \cup ({op.new} \ {NoWatcher})
    /\ Finish
    /\ UNCHANGED <<started, runCtx, live, hubVars, troubled>>

\* Disable and Stop end after the last call, whether or not one failed.
UnsubscribeEnds ==
    /\ op.kind \in {"disable", "stop"} /\ op.todo = {}
    /\ Finish
    /\ UNCHANGED <<cfg, flagVars, watchVars, hubVars, troubled>>
-------------------------------------------------------------------------------
(* OnConnectivityRestored, called once the connection is back. *)
Mutant_RestoreUnlessSubscribed ==
    /\ Idle /\ started /\ cfg.enabled
    /\ session = "back"
    /\ session' = "up"
    /\ op' = Running("restore", "subscribe", cfg,
                     IF subscribed THEN {} ELSE cfg.topics)
    /\ UNCHANGED <<cfg, flagVars, watchVars, hub, doubt, troubled>>
BeginRestore ==
    /\ Idle /\ started /\ cfg.enabled
    /\ session = "back"
    /\ session' = "up"
    /\ op' = Running("restore", "subscribe", cfg, cfg.topics)
    /\ UNCHANGED <<cfg, flagVars, watchVars, hub, doubt, troubled>>

Restored ==
    /\ op.kind = "restore" /\ op.pc = "subscribe" /\ op.todo = {}
    /\ subscribed' = TRUE
    /\ Finish
    /\ UNCHANGED <<cfg, started, watching, runCtx, watchCancel, watchVars,
                   hubVars, troubled>>

RestoreFails ==
    /\ op.kind = "restore" /\ op.pc = "rollback" /\ op.todo = {}
    /\ Finish
    /\ UNCHANGED <<cfg, flagVars, watchVars, hubVars, troubled>>
-------------------------------------------------------------------------------
(* The connection.  The hub forgets the subscriptions of a lost one. *)
ConnectionLost ==
    /\ Connected
    /\ session' = "down"
    /\ hub' = {}
    /\ doubt' = doubt \cup hub
    /\ troubled' = TRUE
    /\ UNCHANGED <<cfg, flagVars, watchVars, op>>

Reconnect ==
    /\ session = "down"
    /\ session' = "back"
    /\ UNCHANGED <<cfg, flagVars, watchVars, op, hub, doubt, troubled>>
-------------------------------------------------------------------------------
Call ==
    \/ \E p \in Topics :
          \/ SubscribeSucceeds(p)
          \/ SubscribeFails(p)
          \/ UnsubscribeSucceeds(p)
          \/ UnsubscribeFails(p)
    \/ \E w \in Watchers : WatchSucceeds(w)
    \/ WatchFails

\* The next step of the operation in progress.
Continue ==
    \/ Call
    \/ StartSubscribed \/ StartInstalls \/ StartFails
    \/ UpdateSubscribed \/ UpdateUndoes \/ UpdateFails \/ UpdateInstalls
    \/ UnsubscribeEnds
    \/ Restored \/ RestoreFails

Next ==
    \/ Continue
    \/ StartDisabled \/ BeginStart \/ BeginStop \/ BeginRestore
    \/ \E c \in Configs : UpdateStopped(c) \/ Disable(c) \/ BeginUpdate(c)
    \/ ConnectionLost \/ Reconnect

\* Every call of an operation times out, so an operation goes on.
Spec == Init /\ [][Next]_vars /\ WF_vars(Continue)
-------------------------------------------------------------------------------
(* Properties. *)

Phases == {"idle", "subscribe", "rollback", "watch", "install", "unsubscribe"}
Kinds == {"none", "start", "stop", "disable", "update", "restore"}

Operations == [kind : Kinds, pc : Phases, next : Configs, todo : SUBSET Topics,
               done : SUBSET Topics, new : Watchers \cup {NoWatcher},
               failed : BOOLEAN]

\* The shape of the runtime's fields, of the operation and of the world.
TypeOK ==
    /\ cfg \in Configs
    /\ started \in BOOLEAN /\ subscribed \in BOOLEAN /\ watching \in BOOLEAN
    /\ runCtx \in BOOLEAN /\ troubled \in BOOLEAN
    /\ watchCancel \in Watchers \cup {NoWatcher}
    /\ live \subseteq Watchers /\ consumed \subseteq live
    /\ op \in Operations
    /\ session \in {"up", "down", "back"}
    /\ hub \subseteq Topics /\ doubt \subseteq Topics

\* After Stop, and after a Start that failed, no watcher runs, also none that
\* an earlier UpdateConfig abandoned (runtime.go:275-295, 229-254).
NothingRunsStopped == Idle /\ ~ started => live = {} /\ ~ runCtx /\ ~ subscribed

\* Local texts come from one watcher at most, and it is the one watchCancel
\* stops, whatever failed before (runtime.go:402-410, 440-451).
OneConsumedWatcher == consumed \subseteq {watchCancel}

\* A started runtime has a context to start watchers under: without one
\* UpdateConfig would panic (runtime.go:407).
StartedHasContext == started => runCtx

\* What the runtime believes of itself follows its configuration at every
\* moment, although the two are written in different critical sections and by
\* operations that may fail half way (runtime.go:256-263, 354-358, 428-448).
FlagsFollowConfig ==
    /\ subscribed <=> started /\ cfg.enabled
    /\ watching <=> started /\ cfg.enabled /\ cfg.autoWatch

\* The topics the configuration of a subscribed runtime asks for.
Wanted == IF subscribed THEN cfg.topics ELSE {}

\* A topic nobody asks for is delivered only if the last call about it failed:
\* every failure path takes back what it subscribed (runtime.go:231, 245,
\* 391, 413, 421, 470).
NoUnexplainedSubscription == Idle => hub \subseteq Wanted \cup doubt

\* As long as nothing fails, hub and watchers are what the configuration asks
\* for, after any sequence of operations (runtime.go:192-453, 983-1017).
FollowsConfigUntilTrouble ==
    Idle /\ ~ troubled => /\ hub = Wanted
                          /\ live = consumed
                          /\ consumed = {watchCancel} \ {NoWatcher}
                          /\ watching <=> consumed # {}

\* The operations, with all their calls, critical sections and ways to fail,
\* are all or nothing for the runtime's view of itself: a configuration is
\* installed only by an update none of whose calls failed, a failed Start,
\* UpdateConfig or OnConnectivityRestored leaves configuration and flags as it
\* found them, and Stop and disabling take effect before the calls that may
\* fail (runtime.go:192-479).
Atomic == INSTANCE AtomicLifecycle
    WITH on <- started, config <- cfg,
         request <- [kind |-> op.kind, next |-> op.next,
                     failed |-> op.failed \/ op.pc = "rollback"]
ImplementsLifecycle == Atomic!Spec

\* A failed OnConnectivityRestored leaves `subscribed' as it was, although it has
\* taken back what it subscribed.  The next one does not trust the flag: if the
\* connection stays up until it returns without an error, every topic of the
\* configuration is delivered again, whatever failed before (runtime.go:455-479,
\* docs/specs/clipboard-sync.md:343).
RestoreResubscribes ==
    [][op.kind = "restore" /\ op.pc = "subscribe" /\ op'.pc = "idle"
           /\ session = "up" => cfg.topics \subseteq hub]_vars

\* Every operation returns: whatever fails, each path makes finitely many calls
\* (runtime.go:315-453, 1027-1052; client.go:472, the timeout).
OperationsReturn == ~ Idle ~> Idle
===============================================================================
