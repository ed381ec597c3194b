------------------------ MODULE RuntimeLifecycleProofs ------------------------
(***************************************************************************)
(* Theorems about RuntimeLifecycle, for any topics, configurations and     *)
(* watchers.                                                               *)
(***************************************************************************)
EXTENDS RuntimeLifecycle, Integers, TLAPS

\* The phases each operation goes through, and what it starts from.
OperationInv ==
    /\ Idle <=> op.kind = "none"
    /\ op.kind = "start" =>
          /\ op.pc \in {"subscribe", "rollback", "watch", "install"}
          /\ ~ started /\ runCtx /\ cfg.enabled /\ op.next = cfg
          /\ op.pc = "watch" => cfg.autoWatch
          /\ op.pc = "install" => (op.new # NoWatcher <=> cfg.autoWatch)
    /\ op.kind = "update" =>
          /\ op.pc \in {"subscribe", "rollback", "watch", "unsubscribe"}
          /\ started
          /\ op.pc = "watch" => StartsWatcher
          /\ op.pc = "unsubscribe" => (op.new # NoWatcher <=> StartsWatcher)
    /\ op.kind = "restore" => /\ op.pc \in {"subscribe", "rollback"}
                              /\ started /\ cfg.enabled
    /\ op.kind = "disable" => op.pc = "unsubscribe" /\ started /\ ~ cfg.enabled
    /\ op.kind = "stop" => op.pc = "unsubscribe" /\ ~ started

\* Which watchers are live, and which one watchCancel stands for.
WatcherInv ==
    /\ started => runCtx
    /\ ~ started /\ op.kind # "start" => ~ runCtx
    /\ ~ runCtx => live = {}
    /\ ~ watching => watchCancel = NoWatcher
    /\ consumed \subseteq {watchCancel}
    /\ op.new \in live \cup {NoWatcher}
    /\ op.pc \in {"idle", "subscribe", "watch"} => op.new = NoWatcher
    /\ op.kind = "update" /\ op.pc = "unsubscribe" /\ StopsWatcher => consumed = {}

\* What TLC evaluates as one inductive invariant.
LifecycleInv == TypeOK /\ OperationInv /\ WatcherInv /\ FlagsFollowConfig
-------------------------------------------------------------------------------
\* The record of an operation that starts.
LEMMA RunningFields ==
    ASSUME NEW kind \in Kinds, NEW phase \in Phases, NEW c \in Configs,
           NEW topics \in SUBSET Topics
    PROVE  /\ Running(kind, phase, c, topics) \in Operations
           /\ Running(kind, phase, c, topics).kind = kind
           /\ Running(kind, phase, c, topics).pc = phase
           /\ Running(kind, phase, c, topics).next = c
           /\ Running(kind, phase, c, topics).todo = topics
           /\ Running(kind, phase, c, topics).done = {}
           /\ Running(kind, phase, c, topics).new = NoWatcher
BY DEF Running, Operations

LEMMA IdleOpFields ==
    /\ IdleOp \in Operations
    /\ IdleOp.kind = "none" /\ IdleOp.pc = "idle" /\ IdleOp.new = NoWatcher
BY ConfigAssumption DEF IdleOp, Running, Operations, Kinds, Phases

\* A configuration's topics are topics.
LEMMA TopicSets ==
    ASSUME NEW c \in Configs, NEW d \in Configs
    PROVE  /\ c.enabled \in BOOLEAN /\ c.autoWatch \in BOOLEAN
           /\ c.topics \subseteq Topics
           /\ Active(c) \subseteq Topics
           /\ TopicsToSubscribe(c, d) \subseteq Topics
           /\ TopicsToUnsubscribe(c, d) \subseteq Topics
BY ConfigAssumption DEF Config, Active, TopicsToSubscribe, TopicsToUnsubscribe

LEMMA LifecycleInvInitial == Init => LifecycleInv
BY ConfigAssumption, WatcherAssumption, IdleOpFields
   DEF Init, LifecycleInv, TypeOK, OperationInv, WatcherInv, FlagsFollowConfig,
       Idle, StopsWatcher, StartsWatcher, Config

LEMMA LifecycleInvPreserved == LifecycleInv /\ [Next]_vars => LifecycleInv'
<1> SUFFICES ASSUME LifecycleInv, [Next]_vars
             PROVE  LifecycleInv'
  OBVIOUS
<1> USE ConfigAssumption, WatcherAssumption
        DEF LifecycleInv, TypeOK, OperationInv, WatcherInv, FlagsFollowConfig,
            Idle, StopsWatcher, StartsWatcher, flagVars, watchVars, hubVars,
            Operations, Kinds, Phases, TopicsToUndo
<1>1. ASSUME NEW p \in Topics, SubscribeSucceeds(p)
      PROVE  LifecycleInv'
  <2>1. TypeOK'
    BY <1>1 DEF SubscribeSucceeds
  <2>2. OperationInv'
    BY <1>1 DEF SubscribeSucceeds
  <2>3. WatcherInv'
    BY <1>1 DEF SubscribeSucceeds
  <2>4. FlagsFollowConfig'
    BY <1>1 DEF SubscribeSucceeds
  <2>5. QED
    BY <2>1, <2>2, <2>3, <2>4
<1>2. ASSUME NEW p \in Topics, SubscribeFails(p)
      PROVE  LifecycleInv'
  <2>1. TypeOK'
    BY <1>2 DEF SubscribeFails
  <2>2. OperationInv'
    BY <1>2 DEF SubscribeFails
  <2>3. WatcherInv'
    BY <1>2 DEF SubscribeFails
  <2>4. FlagsFollowConfig'
    BY <1>2 DEF SubscribeFails
  <2>5. QED
    BY <2>1, <2>2, <2>3, <2>4
<1>3. ASSUME NEW p \in Topics, UnsubscribeSucceeds(p)
      PROVE  LifecycleInv'
  <2>1. TypeOK'
    BY <1>3 DEF UnsubscribeSucceeds
  <2>2. OperationInv'
    BY <1>3 DEF UnsubscribeSucceeds
  <2>3. WatcherInv'
    BY <1>3 DEF UnsubscribeSucceeds
  <2>4. FlagsFollowConfig'
    BY <1>3 DEF UnsubscribeSucceeds
  <2>5. QED
    BY <2>1, <2>2, <2>3, <2>4
<1>4. ASSUME NEW p \in Topics, UnsubscribeFails(p)
      PROVE  LifecycleInv'
  <2>1. TypeOK'
    BY <1>4 DEF UnsubscribeFails
  <2>2. OperationInv'
    BY <1>4 DEF UnsubscribeFails
  <2>3. WatcherInv'
    BY <1>4 DEF UnsubscribeFails
  <2>4. FlagsFollowConfig'
    BY <1>4 DEF UnsubscribeFails
  <2>5. QED
    BY <2>1, <2>2, <2>3, <2>4
<1>5. ASSUME NEW w \in Watchers, WatchSucceeds(w)
      PROVE  LifecycleInv'
  <2>1. op.pc = "watch" /\ op.kind \in {"start", "update"}
    BY <1>5 DEF WatchSucceeds
  <2>2. op' \in Operations /\ op'.kind = op.kind /\ op'.next = op.next
        /\ op'.new = w
    <3>1. TopicsToUnsubscribe(cfg, op.next) \in SUBSET Topics
      BY TopicSets
    <3>2. QED
      BY <1>5, <3>1 DEF WatchSucceeds
  <2>3. op'.pc = IF op.kind = "start" THEN "install" ELSE "unsubscribe"
    BY <1>5 DEF WatchSucceeds
  <2>4. TypeOK'
    BY <1>5, <2>2 DEF WatchSucceeds
  <2>5. OperationInv'
    <3>1. UNCHANGED <<cfg, flagVars>>
      BY <1>5 DEF WatchSucceeds
    <3>2. CASE op.kind = "start"
      <4>1. cfg.autoWatch
        BY <2>1, <3>2
      <4>2. QED
        BY <2>1, <2>2, <2>3, <3>1, <3>2, <4>1
    <3>3. CASE op.kind = "update"
      BY <2>1, <2>2, <2>3, <3>1, <3>3
    <3>4. QED
      BY <2>1, <3>2, <3>3
  <2>6. WatcherInv'
    BY <1>5, <2>1, <2>2, <2>3 DEF WatchSucceeds
  <2>7. FlagsFollowConfig'
    BY <1>5 DEF WatchSucceeds
  <2>8. QED
    BY <2>4, <2>5, <2>6, <2>7
<1>6. CASE WatchFails
  <2>1. TypeOK'
    BY <1>6 DEF WatchFails
  <2>2. OperationInv'
    BY <1>6 DEF WatchFails
  <2>3. WatcherInv'
    BY <1>6 DEF WatchFails
  <2>4. FlagsFollowConfig'
    BY <1>6 DEF WatchFails
  <2>5. QED
    BY <2>1, <2>2, <2>3, <2>4
<1>7. CASE StartSubscribed
  <2>1. op.kind = "start" /\ op.pc = "subscribe"
      /\ op' = [op EXCEPT !.pc = IF cfg.autoWatch THEN "watch" ELSE "install"]
    BY <1>7 DEF StartSubscribed
  <2>2. /\ op' \in Operations /\ op'.kind = "start"
       /\ (cfg.autoWatch => op'.pc = "watch")
       /\ (~ cfg.autoWatch => op'.pc = "install")
       /\ op'.new = op.new /\ op'.next = op.next
    <3>1. CASE cfg.autoWatch
      <4>1. op' = [op EXCEPT !.pc = "watch"]
        BY <2>1, <3>1
      <4>2. QED
        BY <2>1, <3>1, <4>1
    <3>2. CASE ~ cfg.autoWatch
      <4>1. op' = [op EXCEPT !.pc = "install"]
        BY <2>1, <3>2
      <4>2. QED
        BY <2>1, <3>2, <4>1
    <3>3. QED
      BY <3>1, <3>2
  <2>3. TypeOK'
    BY <1>7, <2>2 DEF StartSubscribed
  <2>4. OperationInv'
    BY <1>7, <2>2 DEF StartSubscribed
  <2>5. WatcherInv'
    BY <1>7, <2>2 DEF StartSubscribed
  <2>6. FlagsFollowConfig'
    BY <1>7, <2>2 DEF StartSubscribed
  <2>7. QED
    BY <2>3, <2>4, <2>5, <2>6
<1>8. CASE StartInstalls
  <2>1. op.kind = "start" /\ op.pc = "install" /\ op' = IdleOp
    BY <1>8 DEF StartInstalls, Finish
  <2>2. /\ op' \in Operations /\ op'.kind = "none"
       /\ op'.pc = "idle" /\ op'.new = NoWatcher
    BY <2>1, IdleOpFields
  <2>3. TypeOK'
    BY <1>8, <2>2 DEF StartInstalls, Config
  <2>4. OperationInv'
    BY <1>8, <2>2 DEF StartInstalls, Config
  <2>5. WatcherInv'
    BY <1>8, <2>2 DEF StartInstalls, Config
  <2>6. FlagsFollowConfig'
    BY <1>8, <2>2 DEF StartInstalls, Config
  <2>7. QED
    BY <2>3, <2>4, <2>5, <2>6
<1>9. CASE StartFails
  <2>1. TypeOK'
    BY <1>9, IdleOpFields DEF StartFails, Finish, CancelRun
  <2>2. OperationInv'
    BY <1>9, IdleOpFields DEF StartFails, Finish, CancelRun
  <2>3. WatcherInv'
    BY <1>9, IdleOpFields DEF StartFails, Finish, CancelRun
  <2>4. FlagsFollowConfig'
    BY <1>9, IdleOpFields DEF StartFails, Finish, CancelRun
  <2>5. QED
    BY <2>1, <2>2, <2>3, <2>4
<1>10. CASE UpdateSubscribed
  <2>1. /\ op.kind = "update" /\ op.pc = "subscribe"
       /\ op' = IF StartsWatcher
                THEN [op EXCEPT !.pc = "watch"]
                ELSE [op EXCEPT !.pc = "unsubscribe",
                                !.todo = TopicsToUnsubscribe(cfg, op.next)]
    BY <1>10 DEF UpdateSubscribed
  <2>2. /\ op' \in Operations /\ op'.kind = "update"
       /\ (StartsWatcher => op'.pc = "watch")
       /\ (~ StartsWatcher => op'.pc = "unsubscribe")
       /\ op'.new = NoWatcher /\ op'.next = op.next
    <3>1. CASE StartsWatcher
      <4>1. op' = [op EXCEPT !.pc = "watch"]
        BY <2>1, <3>1
      <4>2. QED
        BY <2>1, <3>1, <4>1
    <3>2. CASE ~ StartsWatcher
      <4>1. op' = [op EXCEPT !.pc = "unsubscribe",
                             !.todo = TopicsToUnsubscribe(cfg, op.next)]
        BY <2>1, <3>2
      <4>2. TopicsToUnsubscribe(cfg, op.next) \in SUBSET Topics
        BY TopicSets
      <4>3. QED
        BY <2>1, <3>2, <4>1, <4>2
    <3>3. QED
      BY <3>1, <3>2
  <2>3. TypeOK'
    BY <1>10, <2>2 DEF UpdateSubscribed, CancelWatcher
  <2>4. OperationInv'
    BY <1>10, <2>2 DEF UpdateSubscribed, CancelWatcher
  <2>5. WatcherInv'
    BY <1>10, <2>2 DEF UpdateSubscribed, CancelWatcher
  <2>6. FlagsFollowConfig'
    BY <1>10, <2>2 DEF UpdateSubscribed, CancelWatcher
  <2>7. QED
    BY <2>3, <2>4, <2>5, <2>6
<1>11. CASE UpdateUndoes
  <2>1. /\ op.kind = "update" /\ op.pc = "unsubscribe"
       /\ op' = [op EXCEPT !.pc = "rollback", !.todo = op.done]
    BY <1>11 DEF UpdateUndoes
  <2>2. /\ op' \in Operations /\ op'.kind = "update"
       /\ op'.pc = "rollback" /\ op'.new = op.new
    BY <2>1
  <2>3. TypeOK'
    BY <1>11, <2>2 DEF UpdateUndoes
  <2>4. OperationInv'
    BY <1>11, <2>2 DEF UpdateUndoes
  <2>5. WatcherInv'
    BY <1>11, <2>2 DEF UpdateUndoes
  <2>6. FlagsFollowConfig'
    BY <1>11, <2>2 DEF UpdateUndoes
  <2>7. QED
    BY <2>3, <2>4, <2>5, <2>6
<1>12. CASE UpdateFails
  <2>1. TypeOK'
    BY <1>12, IdleOpFields DEF UpdateFails, Finish
  <2>2. OperationInv'
    BY <1>12, IdleOpFields DEF UpdateFails, Finish
  <2>3. WatcherInv'
    BY <1>12, IdleOpFields DEF UpdateFails, Finish
  <2>4. FlagsFollowConfig'
    BY <1>12, IdleOpFields DEF UpdateFails, Finish
  <2>5. QED
    BY <2>1, <2>2, <2>3, <2>4
<1>13. CASE UpdateInstalls
  <2>1. op.kind = "update" /\ op.pc = "unsubscribe" /\ op' = IdleOp
    BY <1>13 DEF UpdateInstalls, Finish
  <2>2. /\ op' \in Operations /\ op'.kind = "none"
       /\ op'.pc = "idle" /\ op'.new = NoWatcher
    BY <2>1, IdleOpFields
  <2>3. TypeOK'
    BY <1>13, <2>2 DEF UpdateInstalls, Config
  <2>4. OperationInv'
    BY <1>13, <2>2 DEF UpdateInstalls, Config
  <2>5. WatcherInv'
    BY <1>13, <2>2 DEF UpdateInstalls, Config
  <2>6. FlagsFollowConfig'
    BY <1>13, <2>2 DEF UpdateInstalls, Config
  <2>7. QED
    BY <2>3, <2>4, <2>5, <2>6
<1>14. CASE UnsubscribeEnds
  <2>1. TypeOK'
    BY <1>14, IdleOpFields DEF UnsubscribeEnds, Finish
  <2>2. OperationInv'
    BY <1>14, IdleOpFields DEF UnsubscribeEnds, Finish
  <2>3. WatcherInv'
    BY <1>14, IdleOpFields DEF UnsubscribeEnds, Finish
  <2>4. FlagsFollowConfig'
    BY <1>14, IdleOpFields DEF UnsubscribeEnds, Finish
  <2>5. QED
    BY <2>1, <2>2, <2>3, <2>4
<1>15. CASE Restored
  <2>1. TypeOK'
    BY <1>15, IdleOpFields DEF Restored, Finish
  <2>2. OperationInv'
    BY <1>15, IdleOpFields DEF Restored, Finish
  <2>3. WatcherInv'
    BY <1>15, IdleOpFields DEF Restored, Finish
  <2>4. FlagsFollowConfig'
    BY <1>15, IdleOpFields DEF Restored, Finish
  <2>5. QED
    BY <2>1, <2>2, <2>3, <2>4
<1>16. CASE RestoreFails
  <2>1. TypeOK'
    BY <1>16, IdleOpFields DEF RestoreFails, Finish
  <2>2. OperationInv'
    BY <1>16, IdleOpFields DEF RestoreFails, Finish
  <2>3. WatcherInv'
    BY <1>16, IdleOpFields DEF RestoreFails, Finish
  <2>4. FlagsFollowConfig'
    BY <1>16, IdleOpFields DEF RestoreFails, Finish
  <2>5. QED
    BY <2>1, <2>2, <2>3, <2>4
<1>17. CASE StartDisabled
  <2>1. TypeOK'
    BY <1>17 DEF StartDisabled
  <2>2. OperationInv'
    BY <1>17 DEF StartDisabled
  <2>3. WatcherInv'
    BY <1>17 DEF StartDisabled
  <2>4. FlagsFollowConfig'
    BY <1>17 DEF StartDisabled
  <2>5. QED
    BY <2>1, <2>2, <2>3, <2>4
<1>18. CASE BeginStart
  <2>1. op' = Running("start", "subscribe", cfg, cfg.topics)
    BY <1>18 DEF BeginStart
  <2>2. /\ op' \in Operations /\ op'.kind = "start" /\ op'.next = cfg
       /\ op'.pc = "subscribe" /\ op'.new = NoWatcher
    BY <2>1, RunningFields, TopicSets
  <2>3. TypeOK'
    BY <1>18, <2>2 DEF BeginStart
  <2>4. OperationInv'
    BY <1>18, <2>2 DEF BeginStart
  <2>5. WatcherInv'
    BY <1>18, <2>2 DEF BeginStart
  <2>6. FlagsFollowConfig'
    BY <1>18, <2>2 DEF BeginStart
  <2>7. QED
    BY <2>3, <2>4, <2>5, <2>6
<1>19. CASE BeginStop
  <2>1. /\ op' \in Operations /\ op'.new = NoWatcher
        /\ \/ op'.kind = "none" /\ op'.pc = "idle"
           \/ op'.kind = "stop" /\ op'.pc = "unsubscribe"
    <3>1. CASE subscribed
      <4>1. op' = Running("stop", "unsubscribe", cfg, cfg.topics)
        BY <1>19, <3>1 DEF BeginStop
      <4>2. QED
        BY <4>1, RunningFields, TopicSets
    <3>2. CASE ~ subscribed
      <4>1. op' = op /\ op.kind = "none" /\ op.pc = "idle"
        BY <1>19, <3>2 DEF BeginStop
      <4>2. QED
        BY <4>1
    <3>3. QED
      BY <3>1, <3>2
  <2>2. TypeOK'
    BY <1>19, <2>1 DEF BeginStop, CancelRun
  <2>3. OperationInv'
    BY <1>19, <2>1 DEF BeginStop, CancelRun
  <2>4. WatcherInv'
    BY <1>19, <2>1 DEF BeginStop, CancelRun
  <2>5. FlagsFollowConfig'
    BY <1>19, <2>1 DEF BeginStop, CancelRun
  <2>6. QED
    BY <2>2, <2>3, <2>4, <2>5
<1>20. CASE BeginRestore
  <2>1. op' = Running("restore", "subscribe", cfg, cfg.topics)
    BY <1>20 DEF BeginRestore
  <2>2. /\ op' \in Operations /\ op'.kind = "restore"
       /\ op'.pc = "subscribe" /\ op'.new = NoWatcher
    BY <2>1, RunningFields, TopicSets
  <2>3. TypeOK'
    BY <1>20, <2>2 DEF BeginRestore
  <2>4. OperationInv'
    BY <1>20, <2>2 DEF BeginRestore
  <2>5. WatcherInv'
    BY <1>20, <2>2 DEF BeginRestore
  <2>6. FlagsFollowConfig'
    BY <1>20, <2>2 DEF BeginRestore
  <2>7. QED
    BY <2>3, <2>4, <2>5, <2>6
<1>21. ASSUME NEW c \in Configs, UpdateStopped(c)
      PROVE  LifecycleInv'
  <2>1. TypeOK'
    BY <1>21 DEF UpdateStopped
  <2>2. OperationInv'
    BY <1>21 DEF UpdateStopped
  <2>3. WatcherInv'
    BY <1>21 DEF UpdateStopped
  <2>4. FlagsFollowConfig'
    BY <1>21 DEF UpdateStopped
  <2>5. QED
    BY <2>1, <2>2, <2>3, <2>4
<1>22. ASSUME NEW c \in Configs, Disable(c)
      PROVE  LifecycleInv'
  <2>1. op' = Running("disable", "unsubscribe", c, cfg.topics)
    BY <1>22 DEF Disable
  <2>2. /\ op' \in Operations /\ op'.kind = "disable"
       /\ op'.pc = "unsubscribe" /\ op'.new = NoWatcher
    BY <2>1, RunningFields, TopicSets
  <2>3. TypeOK'
    BY <1>22, <2>2 DEF Disable, CancelWatcher, Config
  <2>4. OperationInv'
    BY <1>22, <2>2 DEF Disable, CancelWatcher, Config
  <2>5. WatcherInv'
    BY <1>22, <2>2 DEF Disable, CancelWatcher, Config
  <2>6. FlagsFollowConfig'
    BY <1>22, <2>2 DEF Disable, CancelWatcher, Config
  <2>7. QED
    BY <2>3, <2>4, <2>5, <2>6
<1>23. ASSUME NEW c \in Configs, BeginUpdate(c)
      PROVE  LifecycleInv'
  <2>1. op' = Running("update", "subscribe", c, TopicsToSubscribe(cfg, c))
    BY <1>23 DEF BeginUpdate
  <2>2. /\ op' \in Operations /\ op'.kind = "update"
       /\ op'.pc = "subscribe" /\ op'.new = NoWatcher
    BY <2>1, RunningFields, TopicSets
  <2>3. TypeOK'
    BY <1>23, <2>2 DEF BeginUpdate
  <2>4. OperationInv'
    BY <1>23, <2>2 DEF BeginUpdate
  <2>5. WatcherInv'
    BY <1>23, <2>2 DEF BeginUpdate
  <2>6. FlagsFollowConfig'
    BY <1>23, <2>2 DEF BeginUpdate
  <2>7. QED
    BY <2>3, <2>4, <2>5, <2>6
<1>24. CASE ConnectionLost
  <2>1. TypeOK'
    BY <1>24 DEF ConnectionLost, Connected
  <2>2. OperationInv'
    BY <1>24 DEF ConnectionLost, Connected
  <2>3. WatcherInv'
    BY <1>24 DEF ConnectionLost, Connected
  <2>4. FlagsFollowConfig'
    BY <1>24 DEF ConnectionLost, Connected
  <2>5. QED
    BY <2>1, <2>2, <2>3, <2>4
<1>25. CASE Reconnect
  <2>1. TypeOK'
    BY <1>25 DEF Reconnect
  <2>2. OperationInv'
    BY <1>25 DEF Reconnect
  <2>3. WatcherInv'
    BY <1>25 DEF Reconnect
  <2>4. FlagsFollowConfig'
    BY <1>25 DEF Reconnect
  <2>5. QED
    BY <2>1, <2>2, <2>3, <2>4
<1>26. CASE UNCHANGED vars
  BY <1>26 DEF vars
<1>27. QED
  BY <1>1, <1>2, <1>3, <1>4, <1>5, <1>6, <1>7, <1>8, <1>9, <1>10, <1>11,
     <1>12, <1>13, <1>14, <1>15, <1>16, <1>17, <1>18, <1>19, <1>20,
     <1>21, <1>22, <1>23, <1>24, <1>25, <1>26
     DEF Next, Continue, Call
-------------------------------------------------------------------------------
(* The hub. *)

\* Where a topic the hub delivers may come from in each phase: it is wanted, or
\* in doubt, or the operation has subscribed it, or is about to unsubscribe it.
HubInv ==
    /\ op.kind = "none" => hub \subseteq Wanted \cup doubt
    /\ op.kind \in {"stop", "disable"} \/ op.pc = "rollback" =>
          hub \subseteq Wanted \cup doubt \cup op.todo
    /\ op.kind \in {"start", "restore"} /\ op.pc # "rollback" =>
          /\ hub \subseteq Wanted \cup doubt \cup op.done
          /\ op.todo \cup op.done \subseteq cfg.topics
    /\ op.kind = "update" /\ op.pc # "rollback" =>
          /\ hub \subseteq Wanted \cup doubt \cup op.done
          /\ op.done \subseteq Active(op.next)
    /\ op.kind = "update" /\ op.pc = "subscribe" =>
          op.todo \subseteq Active(op.next)
    /\ op.kind = "update" /\ op.pc = "unsubscribe" =>
          hub \subseteq Active(op.next) \cup op.todo \cup doubt

LEMMA HubInvInitial == Init => HubInv
BY IdleOpFields DEF Init, HubInv

LEMMA HubInvPreserved == LifecycleInv /\ HubInv /\ [Next]_vars => HubInv'
<1> SUFFICES ASSUME LifecycleInv, HubInv, [Next]_vars
             PROVE  HubInv'
  OBVIOUS
<1> USE ConfigAssumption
        DEF LifecycleInv, TypeOK, OperationInv, FlagsFollowConfig, HubInv,
            Idle, Wanted, Operations, Kinds, Phases, TopicsToUndo, flagVars,
            watchVars, hubVars
<1>1. ASSUME NEW p \in Topics, SubscribeSucceeds(p)
      PROVE  HubInv'
  BY <1>1 DEF SubscribeSucceeds
<1>2. ASSUME NEW p \in Topics, SubscribeFails(p)
      PROVE  HubInv'
  BY <1>2 DEF SubscribeFails
<1>3. ASSUME NEW p \in Topics, UnsubscribeSucceeds(p)
      PROVE  HubInv'
  BY <1>3 DEF UnsubscribeSucceeds
<1>4. ASSUME NEW p \in Topics, UnsubscribeFails(p)
      PROVE  HubInv'
  BY <1>4 DEF UnsubscribeFails
<1>5. ASSUME NEW w \in Watchers, WatchSucceeds(w)
      PROVE  HubInv'
  BY <1>5 DEF WatchSucceeds, Active, TopicsToUnsubscribe
<1>6. CASE WatchFails
  BY <1>6 DEF WatchFails
<1>7. CASE StartSubscribed
  BY <1>7 DEF StartSubscribed
<1>8. CASE StartInstalls
  BY <1>8, IdleOpFields DEF StartInstalls, Finish
<1>9. CASE StartFails
  BY <1>9, IdleOpFields DEF StartFails, Finish
<1>10. CASE UpdateSubscribed
  BY <1>10 DEF UpdateSubscribed, Active, TopicsToUnsubscribe
<1>11. CASE UpdateUndoes
  BY <1>11 DEF UpdateUndoes
<1>12. CASE UpdateFails
  BY <1>12, IdleOpFields DEF UpdateFails, Finish
<1>13. CASE UpdateInstalls
  BY <1>13, IdleOpFields DEF UpdateInstalls, Finish, Active
<1>14. CASE UnsubscribeEnds
  BY <1>14, IdleOpFields DEF UnsubscribeEnds, Finish
<1>15. CASE Restored
  BY <1>15, IdleOpFields DEF Restored, Finish
<1>16. CASE RestoreFails
  BY <1>16, IdleOpFields DEF RestoreFails, Finish
<1>17. CASE StartDisabled
  BY <1>17 DEF StartDisabled
<1>18. CASE BeginStart
  BY <1>18, RunningFields, TopicSets DEF BeginStart
<1>19. CASE BeginStop
  BY <1>19, RunningFields, TopicSets DEF BeginStop
<1>20. CASE BeginRestore
  BY <1>20, RunningFields, TopicSets DEF BeginRestore
<1>21. ASSUME NEW c \in Configs, UpdateStopped(c)
      PROVE  HubInv'
  BY <1>21 DEF UpdateStopped
<1>22. ASSUME NEW c \in Configs, Disable(c)
      PROVE  HubInv'
  BY <1>22, RunningFields, TopicSets DEF Disable
<1>23. ASSUME NEW c \in Configs, BeginUpdate(c)
      PROVE  HubInv'
  BY <1>23, RunningFields, TopicSets DEF BeginUpdate, Active, TopicsToSubscribe
<1>24. CASE ConnectionLost
  BY <1>24 DEF ConnectionLost
<1>25. CASE Reconnect
  BY <1>25 DEF Reconnect
<1>26. CASE UNCHANGED vars
  BY <1>26 DEF vars
<1>27. QED
  BY <1>1, <1>2, <1>3, <1>4, <1>5, <1>6, <1>7, <1>8, <1>9, <1>10, <1>11,
     <1>12, <1>13, <1>14, <1>15, <1>16, <1>17, <1>18, <1>19, <1>20,
     <1>21, <1>22, <1>23, <1>24, <1>25, <1>26
     DEF Next, Continue, Call
-------------------------------------------------------------------------------
LEMMA LifecycleInvariants == Spec => [](LifecycleInv /\ HubInv)
<1>1. Init => LifecycleInv /\ HubInv
  BY LifecycleInvInitial, HubInvInitial
<1>2. LifecycleInv /\ HubInv /\ [Next]_vars => (LifecycleInv /\ HubInv)'
  BY LifecycleInvPreserved, HubInvPreserved
<1>3. QED
  BY <1>1, <1>2, PTL DEF Spec

\* The fields of the runtime and of the operation in progress keep their types
\* (core/runtime/runtime.go:109-134).
THEOREM LifecycleTypeCorrect == Spec => []TypeOK
<1>1. LifecycleInv => TypeOK
  BY DEF LifecycleInv
<1>2. QED
  BY <1>1, LifecycleInvariants, PTL

\* After Stop or a failed Start no watcher has a context left, also none that
\* a failed UpdateConfig had abandoned (runtime.go:275-295, 834-846).
THEOREM StoppedRuntimeRunsNothing == Spec => []NothingRunsStopped
<1>1. LifecycleInv => NothingRunsStopped
  BY DEF LifecycleInv, OperationInv, WatcherInv, FlagsFollowConfig,
         NothingRunsStopped, Idle
<1>2. QED
  BY <1>1, LifecycleInvariants, PTL

\* runClipboardWatcher reads one watcher at most, the one watchCancel stops
\* (runtime.go:402-410, 440-451).
THEOREM WatcherIsUnique == Spec => []OneConsumedWatcher
<1>1. LifecycleInv => OneConsumedWatcher
  BY DEF LifecycleInv, WatcherInv, OneConsumedWatcher
<1>2. QED
  BY <1>1, LifecycleInvariants, PTL

\* UpdateConfig of a started runtime finds a context for a new watcher
\* (runtime.go:407).
THEOREM UpdateFindsContext == Spec => []StartedHasContext
<1>1. LifecycleInv => StartedHasContext
  BY DEF LifecycleInv, WatcherInv, StartedHasContext
<1>2. QED
  BY <1>1, LifecycleInvariants, PTL

\* subscribed and watching say what the configuration says (runtime.go:256-263,
\* 354-358, 428-448).
THEOREM FlagsAreTrue == Spec => []FlagsFollowConfig
<1>1. LifecycleInv => FlagsFollowConfig
  BY DEF LifecycleInv
<1>2. QED
  BY <1>1, LifecycleInvariants, PTL

\* An unwanted subscription is left behind only by a call that failed
\* (runtime.go:231, 245, 391, 413, 421, 470).
THEOREM SubscriptionsAreExplained == Spec => []NoUnexplainedSubscription
<1>1. LifecycleInv /\ HubInv => NoUnexplainedSubscription
  BY DEF LifecycleInv, OperationInv, HubInv, NoUnexplainedSubscription, Idle
<1>2. QED
  BY <1>1, LifecycleInvariants, PTL
-------------------------------------------------------------------------------
(* As long as nothing fails. *)

\* Nothing that only a failure leads to, and the connection is the first one.
\* One watcher is live: the one that is read, or the one the operation has
\* started.
QuietInv ==
    ~ troubled =>
    /\ op.pc # "rollback" /\ op.kind # "restore" /\ ~ op.failed
    /\ session = "up"
    /\ op.kind \in {"stop", "disable"} => op.new = NoWatcher
    /\ live = consumed \cup ({op.new} \ {NoWatcher})
    /\ watching <=> watchCancel # NoWatcher
    /\ \/ consumed = {watchCancel} \ {NoWatcher}
       \/ op.kind = "update" /\ op.pc = "unsubscribe" /\ StopsWatcher

\* The hub delivers exactly what is wanted, with what the operation has
\* subscribed already and without what it has unsubscribed.
ExactInv ==
    ~ troubled =>
    /\ op.kind = "none" => hub = Wanted
    /\ op.kind = "start" => /\ hub = op.done
                            /\ op.done \cup op.todo = cfg.topics
                            /\ op.pc # "subscribe" => op.todo = {}
    /\ op.kind = "update" /\ op.pc \in {"subscribe", "watch"} =>
          /\ hub = Active(cfg) \cup op.done
          /\ op.done \cup op.todo = TopicsToSubscribe(cfg, op.next)
          /\ op.pc = "watch" => op.todo = {}
    /\ op.kind = "update" /\ op.pc = "unsubscribe" =>
          /\ hub = Active(op.next) \cup op.todo
          /\ op.todo \cap Active(op.next) = {}
    /\ op.kind \in {"stop", "disable"} => hub = op.todo

LEMMA QuietInvPreserved == LifecycleInv /\ QuietInv /\ [Next]_vars => QuietInv'
<1> SUFFICES ASSUME LifecycleInv, QuietInv, [Next]_vars
             PROVE  QuietInv'
  OBVIOUS
<1> USE ConfigAssumption, WatcherAssumption
        DEF LifecycleInv, TypeOK, OperationInv, WatcherInv, FlagsFollowConfig,
            QuietInv, Idle, StopsWatcher, StartsWatcher, Operations, Kinds,
            Phases, flagVars, watchVars, hubVars
<1>1. ASSUME NEW p \in Topics, SubscribeSucceeds(p)
      PROVE  QuietInv'
  BY <1>1 DEF SubscribeSucceeds
<1>2. ASSUME NEW p \in Topics, SubscribeFails(p)
      PROVE  QuietInv'
  BY <1>2 DEF SubscribeFails
<1>3. ASSUME NEW p \in Topics, UnsubscribeSucceeds(p)
      PROVE  QuietInv'
  BY <1>3 DEF UnsubscribeSucceeds
<1>4. ASSUME NEW p \in Topics, UnsubscribeFails(p)
      PROVE  QuietInv'
  BY <1>4 DEF UnsubscribeFails
<1>5. ASSUME NEW w \in Watchers, WatchSucceeds(w)
      PROVE  QuietInv'
  BY <1>5 DEF WatchSucceeds
<1>6. CASE WatchFails
  BY <1>6 DEF WatchFails
<1>7. CASE StartSubscribed
  BY <1>7 DEF StartSubscribed
<1>8. CASE StartInstalls
  <2>1. op' = IdleOp /\ op.kind = "start" /\ op.pc = "install"
    BY <1>8 DEF StartInstalls, Finish
  <2>2. /\ op'.kind = "none" /\ op'.pc = "idle"
        /\ op'.new = NoWatcher /\ op'.failed = FALSE
    BY <2>1 DEF IdleOp, Running
  <2>3. QED
    BY <1>8, <2>1, <2>2 DEF StartInstalls
<1>9. CASE StartFails
  BY <1>9 DEF StartFails
<1>10. CASE UpdateSubscribed
  BY <1>10 DEF UpdateSubscribed, CancelWatcher
<1>11. CASE UpdateUndoes
  BY <1>11 DEF UpdateUndoes
<1>12. CASE UpdateFails
  BY <1>12 DEF UpdateFails
<1>13. CASE UpdateInstalls
  <2>1. op' = IdleOp /\ op.kind = "update" /\ op.pc = "unsubscribe"
    BY <1>13 DEF UpdateInstalls, Finish
  <2>2. /\ op'.kind = "none" /\ op'.pc = "idle"
        /\ op'.new = NoWatcher /\ op'.failed = FALSE
    BY <2>1 DEF IdleOp, Running
  <2>3. QED
    BY <1>13, <2>1, <2>2 DEF UpdateInstalls
<1>14. CASE UnsubscribeEnds
  <2>1. op' = IdleOp
    BY <1>14 DEF UnsubscribeEnds, Finish
  <2>2. /\ op'.kind = "none" /\ op'.pc = "idle"
        /\ op'.new = NoWatcher /\ op'.failed = FALSE
    BY <2>1 DEF IdleOp, Running
  <2>3. QED
    BY <1>14, <2>2 DEF UnsubscribeEnds
<1>15. CASE Restored
  BY <1>15 DEF Restored
<1>16. CASE RestoreFails
  BY <1>16 DEF RestoreFails
<1>17. CASE StartDisabled
  BY <1>17 DEF StartDisabled
<1>18. CASE BeginStart
  <2>1. op' = Running("start", "subscribe", cfg, cfg.topics)
    BY <1>18 DEF BeginStart
  <2>2. /\ op'.kind = "start" /\ op'.pc = "subscribe" /\ op'.next = cfg
        /\ op'.todo = cfg.topics /\ op'.done = {}
        /\ op'.new = NoWatcher /\ op'.failed = FALSE
    BY <2>1 DEF Running
  <2>3. QED
    BY <1>18, <2>2 DEF BeginStart
<1>19. CASE BeginStop
  <2>1. CASE subscribed
    <3>1. op' = Running("stop", "unsubscribe", cfg, cfg.topics)
      BY <1>19, <2>1 DEF BeginStop
    <3>2. /\ op'.kind = "stop" /\ op'.pc = "unsubscribe" /\ op'.todo = cfg.topics
          /\ op'.new = NoWatcher /\ op'.failed = FALSE
      BY <3>1 DEF Running
    <3>3. QED
      BY <1>19, <2>1, <3>2 DEF BeginStop, CancelRun
  <2>2. CASE ~ subscribed
    <3>1. op' = op
      BY <1>19, <2>2 DEF BeginStop
    <3>2. QED
      BY <1>19, <2>2, <3>1 DEF BeginStop, CancelRun
  <2>3. QED
    BY <2>1, <2>2
<1>20. CASE BeginRestore
  BY <1>20 DEF BeginRestore
<1>21. ASSUME NEW c \in Configs, UpdateStopped(c)
      PROVE  QuietInv'
  BY <1>21 DEF UpdateStopped
<1>22. ASSUME NEW c \in Configs, Disable(c)
      PROVE  QuietInv'
  <2>1. op' = Running("disable", "unsubscribe", c, cfg.topics)
    BY <1>22 DEF Disable
  <2>2. /\ op'.kind = "disable" /\ op'.pc = "unsubscribe" /\ op'.next = c
        /\ op'.todo = cfg.topics /\ op'.done = {}
        /\ op'.new = NoWatcher /\ op'.failed = FALSE
    BY <2>1 DEF Running
  <2>3. QED
    BY <1>22, <2>2 DEF Disable, CancelWatcher
<1>23. ASSUME NEW c \in Configs, BeginUpdate(c)
      PROVE  QuietInv'
  <2>1. op' = Running("update", "subscribe", c, TopicsToSubscribe(cfg, c))
    BY <1>23 DEF BeginUpdate
  <2>2. /\ op'.kind = "update" /\ op'.pc = "subscribe" /\ op'.next = c
        /\ op'.todo = TopicsToSubscribe(cfg, c) /\ op'.done = {}
        /\ op'.new = NoWatcher /\ op'.failed = FALSE
    BY <2>1 DEF Running
  <2>3. QED
    BY <1>23, <2>2 DEF BeginUpdate
<1>24. CASE ConnectionLost
  BY <1>24 DEF ConnectionLost
<1>25. CASE Reconnect
  BY <1>25 DEF Reconnect
<1>26. CASE UNCHANGED vars
  BY <1>26 DEF vars
<1>27. QED
  BY <1>1, <1>2, <1>3, <1>4, <1>5, <1>6, <1>7, <1>8, <1>9, <1>10, <1>11,
     <1>12, <1>13, <1>14, <1>15, <1>16, <1>17, <1>18, <1>19, <1>20,
     <1>21, <1>22, <1>23, <1>24, <1>25, <1>26
     DEF Next, Continue, Call

LEMMA ExactInvPreserved == LifecycleInv /\ QuietInv /\ ExactInv /\ [Next]_vars => ExactInv'
<1> SUFFICES ASSUME LifecycleInv, QuietInv, ExactInv, [Next]_vars
             PROVE  ExactInv'
  OBVIOUS
<1> USE ConfigAssumption
        DEF LifecycleInv, TypeOK, OperationInv, FlagsFollowConfig, QuietInv,
            ExactInv, Idle, Wanted, Operations, Kinds, Phases, Active,
            TopicsToSubscribe, TopicsToUnsubscribe, flagVars, watchVars, hubVars
<1>1. ASSUME NEW p \in Topics, SubscribeSucceeds(p)
      PROVE  ExactInv'
  BY <1>1 DEF SubscribeSucceeds
<1>2. ASSUME NEW p \in Topics, SubscribeFails(p)
      PROVE  ExactInv'
  BY <1>2 DEF SubscribeFails
<1>3. ASSUME NEW p \in Topics, UnsubscribeSucceeds(p)
      PROVE  ExactInv'
  BY <1>3 DEF UnsubscribeSucceeds
<1>4. ASSUME NEW p \in Topics, UnsubscribeFails(p)
      PROVE  ExactInv'
  BY <1>4 DEF UnsubscribeFails
<1>5. ASSUME NEW w \in Watchers, WatchSucceeds(w)
      PROVE  ExactInv'
  BY <1>5 DEF WatchSucceeds
<1>6. CASE WatchFails
  BY <1>6 DEF WatchFails
<1>7. CASE StartSubscribed
  BY <1>7 DEF StartSubscribed
<1>8. CASE StartInstalls
  <2>1. op' = IdleOp /\ op.kind = "start" /\ op.pc = "install"
    BY <1>8 DEF StartInstalls, Finish
  <2>2. /\ op'.kind = "none" /\ op'.pc = "idle"
        /\ op'.new = NoWatcher /\ op'.failed = FALSE
    BY <2>1 DEF IdleOp, Running
  <2>3. QED
    BY <1>8, <2>1, <2>2 DEF StartInstalls
<1>9. CASE StartFails
  BY <1>9 DEF StartFails
<1>10. CASE UpdateSubscribed
  BY <1>10 DEF UpdateSubscribed, CancelWatcher
<1>11. CASE UpdateUndoes
  BY <1>11 DEF UpdateUndoes
<1>12. CASE UpdateFails
  BY <1>12 DEF UpdateFails
<1>13. CASE UpdateInstalls
  <2>1. op' = IdleOp /\ op.kind = "update" /\ op.pc = "unsubscribe"
    BY <1>13 DEF UpdateInstalls, Finish
  <2>2. /\ op'.kind = "none" /\ op'.pc = "idle"
        /\ op'.new = NoWatcher /\ op'.failed = FALSE
    BY <2>1 DEF IdleOp, Running
  <2>3. QED
    BY <1>13, <2>1, <2>2 DEF UpdateInstalls
<1>14. CASE UnsubscribeEnds
  <2>1. op' = IdleOp
    BY <1>14 DEF UnsubscribeEnds, Finish
  <2>2. /\ op'.kind = "none" /\ op'.pc = "idle"
        /\ op'.new = NoWatcher /\ op'.failed = FALSE
    BY <2>1 DEF IdleOp, Running
  <2>3. QED
    BY <1>14, <2>2 DEF UnsubscribeEnds
<1>15. CASE Restored
  BY <1>15 DEF Restored
<1>16. CASE RestoreFails
  BY <1>16 DEF RestoreFails
<1>17. CASE StartDisabled
  BY <1>17 DEF StartDisabled
<1>18. CASE BeginStart
  <2>1. op' = Running("start", "subscribe", cfg, cfg.topics)
    BY <1>18 DEF BeginStart
  <2>2. /\ op'.kind = "start" /\ op'.pc = "subscribe" /\ op'.next = cfg
        /\ op'.todo = cfg.topics /\ op'.done = {}
        /\ op'.new = NoWatcher /\ op'.failed = FALSE
    BY <2>1 DEF Running
  <2>3. QED
    BY <1>18, <2>2 DEF BeginStart
<1>19. CASE BeginStop
  <2>1. CASE subscribed
    <3>1. op' = Running("stop", "unsubscribe", cfg, cfg.topics)
      BY <1>19, <2>1 DEF BeginStop
    <3>2. /\ op'.kind = "stop" /\ op'.pc = "unsubscribe" /\ op'.todo = cfg.topics
          /\ op'.new = NoWatcher /\ op'.failed = FALSE
      BY <3>1 DEF Running
    <3>3. QED
      BY <1>19, <2>1, <3>2 DEF BeginStop, CancelRun
  <2>2. CASE ~ subscribed
    <3>1. op' = op
      BY <1>19, <2>2 DEF BeginStop
    <3>2. QED
      BY <1>19, <2>2, <3>1 DEF BeginStop, CancelRun
  <2>3. QED
    BY <2>1, <2>2
<1>20. CASE BeginRestore
  BY <1>20 DEF BeginRestore
<1>21. ASSUME NEW c \in Configs, UpdateStopped(c)
      PROVE  ExactInv'
  BY <1>21 DEF UpdateStopped
<1>22. ASSUME NEW c \in Configs, Disable(c)
      PROVE  ExactInv'
  <2>1. op' = Running("disable", "unsubscribe", c, cfg.topics)
    BY <1>22 DEF Disable
  <2>2. /\ op'.kind = "disable" /\ op'.pc = "unsubscribe" /\ op'.next = c
        /\ op'.todo = cfg.topics /\ op'.done = {}
        /\ op'.new = NoWatcher /\ op'.failed = FALSE
    BY <2>1 DEF Running
  <2>3. QED
    BY <1>22, <2>2 DEF Disable, CancelWatcher
<1>23. ASSUME NEW c \in Configs, BeginUpdate(c)
      PROVE  ExactInv'
  <2>1. op' = Running("update", "subscribe", c, TopicsToSubscribe(cfg, c))
    BY <1>23 DEF BeginUpdate
  <2>2. /\ op'.kind = "update" /\ op'.pc = "subscribe" /\ op'.next = c
        /\ op'.todo = TopicsToSubscribe(cfg, c) /\ op'.done = {}
        /\ op'.new = NoWatcher /\ op'.failed = FALSE
    BY <2>1 DEF Running
  <2>3. QED
    BY <1>23, <2>2 DEF BeginUpdate
<1>24. CASE ConnectionLost
  BY <1>24 DEF ConnectionLost
<1>25. CASE Reconnect
  BY <1>25 DEF Reconnect
<1>26. CASE UNCHANGED vars
  BY <1>26 DEF vars
<1>27. QED
  BY <1>1, <1>2, <1>3, <1>4, <1>5, <1>6, <1>7, <1>8, <1>9, <1>10, <1>11,
     <1>12, <1>13, <1>14, <1>15, <1>16, <1>17, <1>18, <1>19, <1>20,
     <1>21, <1>22, <1>23, <1>24, <1>25, <1>26
     DEF Next, Continue, Call

\* Until the first failure the hub delivers what the configuration asks for,
\* and its watcher is the only one, between any two operations
\* (runtime.go:192-453, 983-1017).
THEOREM ConfigIsFollowed == Spec => []FollowsConfigUntilTrouble
<1>1. Init => QuietInv /\ ExactInv
  BY IdleOpFields, WatcherAssumption
     DEF Init, QuietInv, ExactInv, Wanted, IdleOp, Running
<1>2. LifecycleInv /\ QuietInv /\ ExactInv /\ [Next]_vars => (QuietInv /\ ExactInv)'
  BY QuietInvPreserved, ExactInvPreserved
<1>3. LifecycleInv /\ QuietInv /\ ExactInv => FollowsConfigUntilTrouble
  BY DEF LifecycleInv, OperationInv, WatcherInv, QuietInv, ExactInv, Idle,
         FollowsConfigUntilTrouble
<1>4. QED
  BY <1>1, <1>2, <1>3, LifecycleInvariants, PTL DEF Spec
-------------------------------------------------------------------------------
(* The operations are all or nothing. *)

\* What the operation in progress means to the host.
RequestInv ==
    /\ op.failed => op.pc \in {"unsubscribe", "rollback"}
    /\ op.kind = "restore" => op.next = cfg
    /\ op.kind = "none" => op = IdleOp

LEMMA RequestInvPreserved ==
    LifecycleInv /\ RequestInv /\ [Next]_vars => RequestInv'
<1> SUFFICES ASSUME LifecycleInv, RequestInv, [Next]_vars
             PROVE  RequestInv'
  OBVIOUS
<1> USE DEF LifecycleInv, TypeOK, OperationInv, RequestInv, Idle, Operations,
            Kinds, Phases, TopicsToUndo, flagVars, watchVars, hubVars
<1>1. ASSUME NEW p \in Topics, SubscribeSucceeds(p)
      PROVE  RequestInv'
  BY <1>1 DEF SubscribeSucceeds
<1>2. ASSUME NEW p \in Topics, SubscribeFails(p)
      PROVE  RequestInv'
  BY <1>2 DEF SubscribeFails
<1>3. ASSUME NEW p \in Topics, UnsubscribeSucceeds(p)
      PROVE  RequestInv'
  BY <1>3 DEF UnsubscribeSucceeds
<1>4. ASSUME NEW p \in Topics, UnsubscribeFails(p)
      PROVE  RequestInv'
  BY <1>4 DEF UnsubscribeFails
<1>5. ASSUME NEW w \in Watchers, WatchSucceeds(w)
      PROVE  RequestInv'
  BY <1>5 DEF WatchSucceeds
<1>6. CASE WatchFails
  BY <1>6 DEF WatchFails
<1>7. CASE StartSubscribed
  BY <1>7 DEF StartSubscribed
<1>8. CASE UpdateSubscribed
  BY <1>8 DEF UpdateSubscribed
<1>9. CASE UpdateUndoes
  BY <1>9 DEF UpdateUndoes
<1>10. CASE \/ StartInstalls \/ StartFails \/ UpdateInstalls \/ UpdateFails
            \/ UnsubscribeEnds \/ Restored \/ RestoreFails
  <2>1. op' = IdleOp
    BY <1>10 DEF StartInstalls, StartFails, UpdateInstalls, UpdateFails,
                 UnsubscribeEnds, Restored, RestoreFails, Finish
  <2>2. QED
    BY <2>1 DEF IdleOp, Running
<1>11. CASE BeginStart
  BY <1>11 DEF BeginStart, Running
<1>12. CASE BeginRestore
  BY <1>12 DEF BeginRestore, Running
<1>13. CASE BeginStop
  BY <1>13 DEF BeginStop, Running
<1>14. ASSUME NEW c \in Configs, UpdateStopped(c)
       PROVE  RequestInv'
  BY <1>14 DEF UpdateStopped
<1>15. ASSUME NEW c \in Configs, Disable(c) \/ BeginUpdate(c)
       PROVE  RequestInv'
  BY <1>15 DEF Disable, BeginUpdate, Running
<1>16. CASE StartDisabled \/ ConnectionLost \/ Reconnect \/ UNCHANGED vars
  BY <1>16 DEF StartDisabled, ConnectionLost, Reconnect, vars
<1>17. QED
  BY <1>1, <1>2, <1>3, <1>4, <1>5, <1>6, <1>7, <1>8, <1>9, <1>10, <1>11,
     <1>12, <1>13, <1>14, <1>15, <1>16
     DEF Next, Continue, Call

\* The operation in progress as a request of AtomicLifecycle.
AsRequest(o) == [kind |-> o.kind, next |-> o.next,
                 failed |-> o.failed \/ o.pc = "rollback"]

\* An operation starts as a request nothing has gone wrong with, and none is
\* no request.
LEMMA RequestOfRunning ==
    ASSUME NEW kind, NEW phase, phase # "rollback", NEW c, NEW topics
    PROVE  AsRequest(Running(kind, phase, c, topics)) = Atomic!Request(kind, c)
BY DEF AsRequest, Running, Atomic!Request

LEMMA RequestOfIdle == AsRequest(IdleOp) = Atomic!NoRequest
BY RequestOfRunning DEF IdleOp, Atomic!NoRequest

\* A request that only differs in having failed.
LEMMA FailedRequest ==
    ASSUME NEW K, NEW C, NEW r \in [kind : K, next : C, failed : BOOLEAN],
           NEW s \in [kind : K, next : C, failed : BOOLEAN],
           s.kind = r.kind, s.next = r.next, s.failed
    PROVE  s = [r EXCEPT !.failed = TRUE]
OBVIOUS

\* Every step of the lifecycle is a step of AtomicLifecycle or none at all.
LEMMA StepIsAtomic ==
    LifecycleInv /\ RequestInv /\ [Next]_vars => [Atomic!Next]_(Atomic!vars)
<1> SUFFICES ASSUME LifecycleInv, RequestInv, [Next]_vars
             PROVE  [Atomic!Next]_(Atomic!vars)
  OBVIOUS
<1> DEFINE request == AsRequest(op)
           fields == <<started, cfg, subscribed, watching>>
<1>a. /\ op \in Operations /\ cfg \in Configs
      /\ cfg.enabled \in BOOLEAN /\ cfg.autoWatch \in BOOLEAN
      /\ op.next.enabled \in BOOLEAN /\ op.next.autoWatch \in BOOLEAN
  BY TopicSets DEF LifecycleInv, TypeOK, Operations
<1>b. Idle => request = Atomic!NoRequest
  BY RequestOfIdle DEF LifecycleInv, OperationInv, RequestInv, Idle
<1>c. /\ request.kind = op.kind /\ request.next = op.next
      /\ request.failed = (op.failed \/ op.pc = "rollback")
  BY DEF AsRequest
<1>d. Atomic!vars = <<started, cfg, subscribed, watching, request>>
  BY DEF Atomic!vars, AsRequest
<1>e. UNCHANGED fields /\ request' = request => UNCHANGED Atomic!vars
  BY DEF Atomic!vars, AsRequest
<1>g. /\ subscribed \in BOOLEAN /\ watching \in BOOLEAN
      /\ subscribed <=> started /\ cfg.enabled
      /\ watching <=> started /\ cfg.enabled /\ cfg.autoWatch
  BY DEF LifecycleInv, TypeOK, FlagsFollowConfig
\* Something goes wrong with the operation.
<1>w. ASSUME UNCHANGED fields, op.kind # "none", op'.kind = op.kind,
             op'.next = op.next, op'.failed \/ op'.pc = "rollback"
      PROVE  Atomic!GoWrong
  <2> DEFINE Requests == [kind : Kinds, next : Configs, failed : BOOLEAN]
  <2>1. /\ request \in Requests /\ request' \in Requests
        /\ request'.kind = request.kind /\ request'.next = request.next
        /\ request'.failed
    BY <1>a, <1>w DEF AsRequest, Operations
  <2>2. request' = [request EXCEPT !.failed = TRUE]
    BY <2>1, FailedRequest
  <2>3. request # Atomic!NoRequest
    BY <1>w DEF AsRequest, Atomic!NoRequest, Atomic!Request
  <2>4. QED
    BY <1>w, <2>2, <2>3 DEF Atomic!GoWrong, Atomic!Nothing, Atomic!Stays, AsRequest
\* The operation goes on as before.
<1>s. ASSUME UNCHANGED fields, op'.kind = op.kind, op'.next = op.next,
             op'.failed = op.failed, op'.pc # "rollback", op.pc # "rollback"
      PROVE  UNCHANGED Atomic!vars
  BY <1>s, <1>e DEF AsRequest
\* The operation fails, having changed nothing.
<1>f. ASSUME UNCHANGED fields, op.kind \in {"start", "update", "restore"},
             op.pc = "rollback", op' = IdleOp
      PROVE  Atomic!Refuse
  <2>1. request' = Atomic!NoRequest
    BY <1>f, RequestOfIdle
  <2>2. QED
    BY <1>f, <1>c, <2>1
       DEF Atomic!Refuse, Atomic!Pending, Atomic!Stays, AsRequest
\* The operation succeeds.
<1>i. ASSUME op.kind \in {"start", "update", "restore"}, op.pc # "rollback",
             ~ op.failed, op' = IdleOp, started' = TRUE, cfg' = op.next,
             subscribed' = op.next.enabled,
             watching' = (op.next.enabled /\ op.next.autoWatch)
      PROVE  Atomic!Grant
  <2>1. request' = Atomic!NoRequest
    BY <1>i, RequestOfIdle
  <2>2. QED
    BY <1>i, <1>c, <2>1 DEF Atomic!Grant, Atomic!Pending, Atomic!Runs, AsRequest
<1>1. ASSUME NEW p \in Topics, SubscribeSucceeds(p)
      PROVE  UNCHANGED Atomic!vars
  BY <1>1, <1>a, <1>s DEF SubscribeSucceeds, Operations, flagVars
<1>2. ASSUME NEW p \in Topics, SubscribeFails(p)
      PROVE  Atomic!GoWrong
  BY <1>2, <1>a, <1>w
     DEF SubscribeFails, Operations, flagVars, LifecycleInv, OperationInv, Idle
<1>3. ASSUME NEW p \in Topics, UnsubscribeSucceeds(p)
      PROVE  UNCHANGED Atomic!vars
  <2>1. /\ UNCHANGED fields
        /\ op'.kind = op.kind /\ op'.next = op.next /\ op'.pc = op.pc
        /\ op'.failed = op.failed
    BY <1>3, <1>a DEF UnsubscribeSucceeds, Operations, flagVars
  <2>2. QED
    BY <2>1, <1>e DEF AsRequest
<1>4. ASSUME NEW p \in Topics, UnsubscribeFails(p)
      PROVE  Atomic!GoWrong
  BY <1>4, <1>a, <1>w
     DEF UnsubscribeFails, Operations, flagVars, LifecycleInv, OperationInv, Idle
<1>5. ASSUME NEW w \in Watchers, WatchSucceeds(w)
      PROVE  UNCHANGED Atomic!vars
  <2>1. /\ UNCHANGED fields /\ op.pc = "watch"
        /\ op'.kind = op.kind /\ op'.next = op.next /\ op'.failed = op.failed
        /\ op'.pc \in {"install", "unsubscribe"}
    BY <1>5, <1>a DEF WatchSucceeds, Operations, flagVars
  <2>2. QED
    BY <2>1, <1>s
<1>6. ASSUME WatchFails
      PROVE  Atomic!GoWrong
  BY <1>6, <1>a, <1>w
     DEF WatchFails, Operations, flagVars, LifecycleInv, OperationInv, Idle
<1>7. ASSUME StartSubscribed
      PROVE  UNCHANGED Atomic!vars
  <2>1. /\ UNCHANGED fields /\ op.pc = "subscribe"
        /\ op'.kind = op.kind /\ op'.next = op.next /\ op'.failed = op.failed
        /\ op'.pc \in {"install", "watch"}
    BY <1>7, <1>a DEF StartSubscribed, Operations, flagVars
  <2>2. QED
    BY <2>1, <1>s
<1>8. ASSUME UpdateSubscribed
      PROVE  UNCHANGED Atomic!vars
  <2>1. /\ UNCHANGED fields /\ op.pc = "subscribe"
        /\ op'.kind = op.kind /\ op'.next = op.next /\ op'.failed = op.failed
        /\ op'.pc \in {"watch", "unsubscribe"}
    BY <1>8, <1>a DEF UpdateSubscribed, Operations, flagVars
  <2>2. QED
    BY <2>1, <1>s
<1>9. ASSUME UpdateUndoes
      PROVE  Atomic!GoWrong
  BY <1>9, <1>a, <1>w DEF UpdateUndoes, Operations, flagVars
<1>10. ASSUME StartInstalls
       PROVE  Atomic!Grant
  <2>1. op.next = cfg /\ cfg.enabled /\ ~ op.failed
    BY <1>10 DEF StartInstalls, LifecycleInv, OperationInv, RequestInv
  <2>2. QED
    BY <1>10, <1>a, <1>i, <2>1 DEF StartInstalls, Finish
<1>11. ASSUME UpdateInstalls
       PROVE  Atomic!Grant
  <2>1. started /\ (op.new # NoWatcher <=> StartsWatcher)
    BY <1>11 DEF UpdateInstalls, LifecycleInv, OperationInv
  <2>2. watching' = (op.next.enabled /\ op.next.autoWatch)
    BY <1>11, <1>a, <1>g, <2>1 DEF UpdateInstalls, StartsWatcher, StopsWatcher
  <2>3. started' = TRUE
    BY <1>11, <2>1 DEF UpdateInstalls, LifecycleInv, TypeOK
  <2>4. QED
    BY <1>11, <1>i, <2>2, <2>3 DEF UpdateInstalls, Finish
<1>12. ASSUME Restored
       PROVE  Atomic!Grant
  <2>1. started /\ cfg.enabled /\ op.next = cfg /\ ~ op.failed
    BY <1>12 DEF Restored, LifecycleInv, OperationInv, RequestInv
  <2>2. started' = TRUE /\ watching' = (cfg.enabled /\ cfg.autoWatch)
    BY <1>12, <1>a, <1>g, <2>1 DEF Restored, LifecycleInv, TypeOK
  <2>3. QED
    BY <1>12, <1>a, <1>i, <2>1, <2>2 DEF Restored, Finish
<1>13. ASSUME StartFails
       PROVE  Atomic!Refuse
  <2>1. ~ started
    BY <1>13 DEF StartFails, LifecycleInv, OperationInv
  <2>2. UNCHANGED fields
    BY <1>13, <1>g, <2>1 DEF StartFails, LifecycleInv, TypeOK
  <2>3. QED
    BY <1>13, <1>f, <2>2 DEF StartFails, Finish
<1>14. ASSUME UpdateFails \/ RestoreFails
       PROVE  Atomic!Refuse
  BY <1>14, <1>f DEF UpdateFails, RestoreFails, Finish, flagVars
<1>15. ASSUME UnsubscribeEnds
       PROVE  Atomic!CleanedUp
  <2>1. request' = Atomic!NoRequest
    BY <1>15, RequestOfIdle DEF UnsubscribeEnds, Finish
  <2>2. QED
    BY <1>15, <1>c, <2>1
       DEF UnsubscribeEnds, flagVars, Atomic!CleanedUp, Atomic!Stays, AsRequest
<1>16. ASSUME StartDisabled
       PROVE  Atomic!StartDisabled
  <2>1. request' = request
    BY <1>16
       DEF StartDisabled, AsRequest
  <2>2. subscribed' = cfg.enabled /\ watching' = (cfg.enabled /\ cfg.autoWatch)
    BY <1>16, <1>a, <1>g DEF StartDisabled
  <2>3. QED
    BY <1>16, <1>b, <2>1, <2>2
       DEF StartDisabled, Atomic!StartDisabled, Atomic!Nothing, Atomic!Runs, AsRequest
<1>17. ASSUME BeginStart
       PROVE  Atomic!AskStart
  <2>1. request' = Atomic!Request("start", cfg)
    BY <1>17, RequestOfRunning DEF BeginStart
  <2>2. QED
    BY <1>17, <1>b, <2>1
       DEF BeginStart, Atomic!AskStart, Atomic!Nothing, Atomic!Stays, AsRequest
<1>18. ASSUME BeginStop
       PROVE  Atomic!Stop
  <2>1. request' \in {Atomic!NoRequest, Atomic!Request("stop", cfg)}
    BY <1>18, <1>b, RequestOfRunning DEF BeginStop
  <2>2. QED
    BY <1>18, <1>b, <2>1
       DEF BeginStop, Atomic!Stop, Atomic!Nothing, Atomic!Halts, AsRequest
<1>19. ASSUME BeginRestore
       PROVE  Atomic!AskRestore
  <2>1. request' = Atomic!Request("restore", cfg)
    BY <1>19, RequestOfRunning DEF BeginRestore
  <2>2. QED
    BY <1>19, <1>b, <2>1
       DEF BeginRestore, flagVars, Atomic!AskRestore, Atomic!Nothing,
           Atomic!Stays, AsRequest
<1>20. ASSUME NEW c \in Configs, UpdateStopped(c)
       PROVE  Atomic!Configure(c)
  <2>1. /\ request' = request
        /\ started' = FALSE /\ subscribed' = FALSE /\ watching' = FALSE
    BY <1>20, <1>g DEF UpdateStopped, flagVars, LifecycleInv, TypeOK, AsRequest
  <2>2. QED
    BY <1>20, <1>b, <2>1
       DEF UpdateStopped, Atomic!Configure, Atomic!Nothing, Atomic!Halts, AsRequest
<1>21. ASSUME NEW c \in Configs, Disable(c)
       PROVE  Atomic!Disable(c)
  <2>1. request' = Atomic!Request("disable", c)
    BY <1>21, RequestOfRunning DEF Disable
  <2>2. /\ started' = TRUE /\ cfg' = c /\ subscribed' = c.enabled
        /\ watching' = (c.enabled /\ c.autoWatch)
    BY <1>21, TopicSets DEF Disable, LifecycleInv, TypeOK
  <2>3. QED
    BY <1>21, <1>b, <2>1, <2>2
       DEF Disable, Atomic!Disable, Atomic!Nothing, Atomic!Runs, AsRequest
<1>22. ASSUME NEW c \in Configs, BeginUpdate(c)
       PROVE  Atomic!AskUpdate(c)
  <2>1. request' = Atomic!Request("update", c)
    BY <1>22, RequestOfRunning DEF BeginUpdate
  <2>2. QED
    BY <1>22, <1>b, <2>1
       DEF BeginUpdate, flagVars, Atomic!AskUpdate, Atomic!Nothing, Atomic!Stays,
           AsRequest
<1>23. ASSUME ConnectionLost \/ Reconnect \/ UNCHANGED vars
       PROVE  UNCHANGED Atomic!vars
  <2>1. UNCHANGED fields /\ request' = request
    BY <1>23 DEF ConnectionLost, Reconnect, vars, flagVars, AsRequest
  <2>2. QED
    BY <2>1, <1>e
<1>24. QED
  BY <1>1, <1>2, <1>3, <1>4, <1>5, <1>6, <1>7, <1>8, <1>9, <1>10, <1>11,
     <1>12, <1>13, <1>14, <1>15, <1>16, <1>17, <1>18, <1>19, <1>20,
     <1>21, <1>22, <1>23
     DEF Next, Continue, Call, Atomic!Next

\* Start, Stop, UpdateConfig and OnConnectivityRestored are all or nothing for
\* the runtime's configuration and flags, wherever one of their calls fails and
\* whenever the connection is lost (runtime.go:192-479).
THEOREM OperationsAreAtomic == Spec => ImplementsLifecycle
<1>1. Init => Atomic!Init /\ RequestInv
  BY RequestOfIdle DEF Init, Atomic!Init, RequestInv, AsRequest, IdleOp, Running
<1>2. LifecycleInv /\ RequestInv /\ [Next]_vars => RequestInv'
  BY RequestInvPreserved
<1>3. LifecycleInv /\ RequestInv /\ [Next]_vars => [Atomic!Next]_(Atomic!vars)
  BY StepIsAtomic
<1>4. QED
  BY <1>1, <1>2, <1>3, LifecycleInvariants, PTL DEF Spec, ImplementsLifecycle, Atomic!Spec
-------------------------------------------------------------------------------
(* A restore subscribes every topic. *)

\* While the connection that a restore has found stays up, each topic of the
\* configuration is subscribed again or still to be.
RestoreInv ==
    op.kind = "restore" /\ op.pc = "subscribe" /\ session = "up"
        => cfg.topics \subseteq op.todo \cup hub

LEMMA RestoreInvPreserved == LifecycleInv /\ RestoreInv /\ [Next]_vars => RestoreInv'
<1> SUFFICES ASSUME LifecycleInv, RestoreInv, [Next]_vars
             PROVE  RestoreInv'
  OBVIOUS
<1> USE DEF LifecycleInv, TypeOK, Operations
<1>1. ASSUME NEW p \in Topics, SubscribeSucceeds(p)
      PROVE  RestoreInv'
  <2>1. /\ op'.kind = op.kind /\ op'.pc = op.pc /\ op.pc = "subscribe"
        /\ op'.todo = op.todo \ {p} /\ hub' = hub \cup {p}
        /\ UNCHANGED <<cfg, session>>
    BY <1>1 DEF SubscribeSucceeds
  <2>2. QED
    BY <2>1 DEF RestoreInv
<1>2. ASSUME BeginRestore
      PROVE  RestoreInv'
  <2>1. op'.todo = cfg.topics /\ UNCHANGED cfg
    BY <1>2 DEF BeginRestore, Running
  <2>2. QED
    BY <2>1 DEF RestoreInv
<1>3. ASSUME op'.pc # "subscribe" \/ op'.kind # "restore" \/ session' # "up"
      PROVE  RestoreInv'
  BY <1>3 DEF RestoreInv
<1>4. ASSUME \/ \E p \in Topics : SubscribeFails(p) \/ UnsubscribeSucceeds(p)
                                  \/ UnsubscribeFails(p)
             \/ \E w \in Watchers : WatchSucceeds(w)
             \/ WatchFails
      PROVE  op'.pc # "subscribe"
  BY <1>4 DEF SubscribeFails, UnsubscribeSucceeds, UnsubscribeFails,
              WatchSucceeds, WatchFails
<1>5. ASSUME \/ StartSubscribed \/ UpdateSubscribed \/ UpdateUndoes
      PROVE  op'.pc # "subscribe"
  <2>1. \E phase \in {"watch", "install", "unsubscribe", "rollback"} : op'.pc = phase
    BY <1>5 DEF StartSubscribed, UpdateSubscribed, UpdateUndoes
  <2>2. QED
    BY <2>1
<1>6. ASSUME \/ StartInstalls \/ StartFails \/ UpdateInstalls \/ UpdateFails
             \/ UnsubscribeEnds \/ Restored \/ RestoreFails
      PROVE  op'.pc # "subscribe"
  BY <1>6, IdleOpFields
     DEF StartInstalls, StartFails, UpdateInstalls, UpdateFails,
         UnsubscribeEnds, Restored, RestoreFails, Finish
<1>7. ASSUME \/ StartDisabled \/ BeginStart \/ BeginStop
             \/ \E c \in Configs : UpdateStopped(c) \/ Disable(c) \/ BeginUpdate(c)
      PROVE  op'.pc # "subscribe" \/ op'.kind # "restore"
  <2>1. CASE StartDisabled \/ BeginStart \/ BeginStop
    BY <2>1 DEF StartDisabled, BeginStart, BeginStop, Running, Idle
  <2>2. ASSUME NEW c \in Configs, UpdateStopped(c) \/ Disable(c) \/ BeginUpdate(c)
        PROVE  op'.pc # "subscribe" \/ op'.kind # "restore"
    BY <2>2 DEF UpdateStopped, Disable, BeginUpdate, Running, Idle
  <2>3. QED
    BY <1>7, <2>1, <2>2
<1>8. ASSUME ConnectionLost \/ Reconnect
      PROVE  session' # "up"
  BY <1>8 DEF ConnectionLost, Reconnect
<1>9. CASE UNCHANGED vars
  BY <1>9 DEF vars, hubVars, RestoreInv
<1>10. QED
  BY <1>1, <1>2, <1>3, <1>4, <1>5, <1>6, <1>7, <1>8, <1>9
     DEF Next, Continue, Call

\* If the connection lasts, an OnConnectivityRestored that returns without an
\* error has every topic delivered again, also when an earlier one failed and
\* left the flag `subscribed' standing (runtime.go:455-479).
THEOREM RestoreSubscribesAll == Spec => RestoreResubscribes
<1>1. Init => RestoreInv
  BY IdleOpFields DEF Init, RestoreInv
<1>2. LifecycleInv /\ RestoreInv /\ [Next]_vars =>
          [op.kind = "restore" /\ op.pc = "subscribe" /\ op'.pc = "idle"
               /\ session = "up" => cfg.topics \subseteq hub]_vars
  <2> SUFFICES ASSUME LifecycleInv, RestoreInv, Next,
                      op.kind = "restore", op.pc = "subscribe", op'.pc = "idle",
                      session = "up"
               PROVE  cfg.topics \subseteq hub
    OBVIOUS
  <2> USE DEF LifecycleInv, TypeOK, Operations, Idle
  <2>1. CASE op.todo = {}
    BY <2>1 DEF RestoreInv
  <2>2. CASE op.todo # {}
    <3>1. ASSUME Continue PROVE FALSE
      <4>1. ASSUME NEW p \in Topics, \/ SubscribeSucceeds(p) \/ SubscribeFails(p)
            PROVE  FALSE
        BY <4>1 DEF SubscribeSucceeds, SubscribeFails
      <4>2. QED
        BY <2>2, <3>1, <4>1
           DEF Continue, Call, UnsubscribeSucceeds, UnsubscribeFails,
               WatchSucceeds, WatchFails, StartSubscribed, StartInstalls,
               StartFails, UpdateSubscribed, UpdateUndoes, UpdateFails,
               UpdateInstalls, UnsubscribeEnds, Restored, RestoreFails
    <3>2. UNCHANGED op
      BY <3>1
         DEF Next, StartDisabled, BeginStart, BeginStop, BeginRestore,
             UpdateStopped, Disable, BeginUpdate, ConnectionLost, Reconnect
    <3>3. QED
      BY <3>2
  <2>3. QED
    BY <2>1, <2>2
<1>3. QED
  BY <1>1, <1>2, LifecycleInvariants, RestoreInvPreserved, PTL
     DEF Spec, RestoreResubscribes
-------------------------------------------------------------------------------
(* Every step of an operation brings it nearer to its end. *)

\* How many phases an operation may still enter.
Stage == [pc \in Phases |->
            CASE pc = "subscribe" -> 4
              [] pc = "watch" -> 3
              [] pc \in {"install", "unsubscribe"} -> 2
              [] pc = "rollback" -> 1
              [] pc = "idle" -> 0]

\* A later phase, or the same one with fewer topics left.
Advances ==
    \/ Stage[op'.pc] < Stage[op.pc]
    \/ op'.pc = op.pc /\ op'.todo \subseteq op.todo /\ op'.todo # op.todo

LEMMA StageOrder ==
    /\ Stage["subscribe"] = 4 /\ Stage["watch"] = 3 /\ Stage["install"] = 2
    /\ Stage["unsubscribe"] = 2 /\ Stage["rollback"] = 1 /\ Stage["idle"] = 0
<1>1. \A pc \in Phases : Stage[pc] = CASE pc = "subscribe" -> 4
                                       [] pc = "watch" -> 3
                                       [] pc \in {"install", "unsubscribe"} -> 2
                                       [] pc = "rollback" -> 1
                                       [] pc = "idle" -> 0
  BY DEF Stage
<1>2. QED
  BY <1>1 DEF Phases

LEMMA ContinueAdvances ==
    ASSUME LifecycleInv, Continue
    PROVE  Advances
<1> USE StageOrder
        DEF LifecycleInv, TypeOK, OperationInv, Operations, Advances, Idle
<1>1. ASSUME NEW p \in Topics, SubscribeSucceeds(p)
      PROVE  Advances
  BY <1>1 DEF SubscribeSucceeds
<1>2. ASSUME NEW p \in Topics, SubscribeFails(p)
      PROVE  Advances
  BY <1>2 DEF SubscribeFails
<1>3. ASSUME NEW p \in Topics, UnsubscribeSucceeds(p)
      PROVE  Advances
  BY <1>3 DEF UnsubscribeSucceeds
<1>4. ASSUME NEW p \in Topics, UnsubscribeFails(p)
      PROVE  Advances
  BY <1>4 DEF UnsubscribeFails
<1>5. ASSUME NEW w \in Watchers, WatchSucceeds(w)
      PROVE  Advances
  BY <1>5 DEF WatchSucceeds
<1>6. CASE WatchFails
  BY <1>6 DEF WatchFails
<1>7. CASE StartSubscribed
  BY <1>7 DEF StartSubscribed
<1>8. CASE UpdateSubscribed
  BY <1>8 DEF UpdateSubscribed
<1>9. CASE UpdateUndoes
  BY <1>9 DEF UpdateUndoes
<1>10. CASE \/ StartInstalls \/ StartFails \/ UpdateInstalls \/ UpdateFails
            \/ UnsubscribeEnds \/ Restored \/ RestoreFails
  <2>1. op'.pc = "idle"
    BY <1>10, IdleOpFields
       DEF StartInstalls, StartFails, UpdateInstalls, UpdateFails,
           UnsubscribeEnds, Restored, RestoreFails, Finish
  <2>2. Stage[op.pc] \in {1, 2, 4}
    BY <1>10 DEF StartInstalls, StartFails, UpdateInstalls, UpdateFails,
                 UnsubscribeEnds, Restored, RestoreFails
  <2>3. QED
    BY <2>1, <2>2
<1>11. QED
  BY <1>1, <1>2, <1>3, <1>4, <1>5, <1>6, <1>7, <1>8, <1>9, <1>10
     DEF Continue, Call

\* Each step of an operation, also of one that fails half way, brings it to a
\* later phase or leaves it fewer calls to make, and nothing else touches it:
\* as a configuration has finitely many topics, an operation makes finitely
\* many calls (runtime.go:192-453, 983-1052).
THEOREM OperationsAdvance ==
    Spec => [][IF Continue THEN Advances ELSE Idle \/ UNCHANGED op]_vars
<1>1. ASSUME LifecycleInv, Next
      PROVE  IF Continue THEN Advances ELSE Idle \/ UNCHANGED op
  <2>1. CASE Continue
    BY <1>1, <2>1, ContinueAdvances
  <2>2. CASE ~ Continue
    BY <1>1, <2>2
       DEF Next, StartDisabled, BeginStart, BeginStop, BeginRestore,
           UpdateStopped, Disable, BeginUpdate, ConnectionLost, Reconnect
  <2>3. QED
    BY <2>1, <2>2
<1>2. LifecycleInv /\ [Next]_vars =>
          [IF Continue THEN Advances ELSE Idle \/ UNCHANGED op]_vars
  BY <1>1
<1>3. QED
  BY <1>2, LifecycleInvariants, PTL DEF Spec
===============================================================================
