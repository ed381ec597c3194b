--------------------------- MODULE ClipboardRuntime ---------------------------
(***************************************************************************)
(* The data path of one node: core/runtime/runtime.go between the system   *)
(* clipboard and the topic bus.                                            *)
(*                                                                         *)
(* Three threads call the runtime concurrently.  "consumer" is the         *)
(* goroutine of Engine.consumeRuntime, which hands over the messages of    *)
(* the bus one at a time (HandleTopicBusMessage).  "watcher" is            *)
(* runClipboardWatcher, which hands over the texts the platform adapter    *)
(* observes (HandleLocalText).  "command" runs what the user asks for,     *)
(* one request at a time: send a text (HandleLocalText), apply a pending   *)
(* event (ApplyPending), change the configuration (UpdateConfig).          *)
(*                                                                         *)
(* Operators named Mutant_... are not part of the model: each is a         *)
(* plausible bug in the definition that follows it, which the runs must    *)
(* detect when it takes that definition's place.                           *)
(*                                                                         *)
(* The runtime's mutex is released around every call of the clipboard and  *)
(* of the bus.  One action is one critical section, or one such call; the  *)
(* threads interleave between them.  Hashes are collision free, so a text  *)
(* stands for its hash; texts that no validation accepts are InvalidTexts. *)
(***************************************************************************)
EXTENDS BoundedStringSet

CONSTANTS
    Texts,          \* clipboard texts
    InvalidTexts,   \* those InspectTextContent rejects
    UserTexts,      \* those the user copies or sends
    RemoteIds,      \* ids of the events other nodes publish
    Manifests,      \* those that announce a transfer and carry no text
    RemoteText,     \* the text of each remote event
    OwnIds,         \* event ids this node can draw (RandomEventID); a bound
    Topics,         \* topic names
    Configs,        \* configurations UpdateConfig may install
    InitialConfig,  \* the one the runtime is created with
    RecentLimit,    \* capacity of recentEvents and of the pending queue
    SuppressLimit,  \* capacity of suppressHashes
    NoText,         \* no text yet
    NoEvent         \* no event id

Ids == RemoteIds \cup OwnIds
TextIds == RemoteIds \ Manifests

\* A normalized Config, as far as the data path reads it: `inline' holds the
\* texts within MaxInlineBytes, `syncTo' the topics with SyncToLocal,
\* `publishTo' those with SyncFromLocal in their order, `transfer' whether a
\* transfer provider and reference are set.
Config == [enabled : BOOLEAN, autoWatch : BOOLEAN, autoApply : BOOLEAN,
           inline : SUBSET Texts, syncTo : SUBSET Topics,
           publishTo : Seq(Topics), transfer : BOOLEAN]

ASSUME IdsAssumption ==
    /\ RemoteIds \cap OwnIds = {}
    /\ Manifests \subseteq RemoteIds
    /\ NoEvent \notin Ids
ASSUME TextsAssumption ==
    /\ InvalidTexts \subseteq Texts /\ UserTexts \subseteq Texts
    /\ RemoteText \in [RemoteIds -> Texts]
    /\ NoText \notin Texts
ASSUME ConfigAssumption == Configs \subseteq Config /\ InitialConfig \in Configs
ASSUME LimitAssumption ==
    RecentLimit \in Nat \ {0} /\ SuppressLimit \in Nat \ {0}

VARIABLES
    cfg,             \* Runtime.cfg
    recentEvents,    \* ids handled, a BoundedStringSet
    suppressHashes,  \* texts written by the node itself, a BoundedStringSet
    lastLocalHash,   \* the last text published, or NoText
    pendingRemote,   \* ids waiting for the user
    pendingOrder,    \* the same in order of arrival
    statusPending,   \* Status.PendingEventID
    clipboard,       \* system clipboard: its text and who put it there
    watch,           \* adapter's watcher: its last text and what it holds
    local,           \* HandleLocalText of the watcher and of the command
    applier,         \* ApplyPending of the command
    consumer,        \* HandleTopicBusMessage of the consumer
    bus,             \* messages of this node the bus has accepted
    usedIds,         \* own ids drawn so far
    applied,         \* history: remote ids written to the clipboard
    reapplied,       \* history: those written more than once
    forgotten,       \* history: ids evicted from recentEvents
    overflowed,      \* history: ids evicted from the pending queue
    wanted           \* history: for each own id, the topics its event is for

runtimeVars == <<cfg, recentEvents, suppressHashes, lastLocalHash,
                 pendingRemote, pendingOrder, statusPending>>
threadVars  == <<local, applier, consumer>>
outsideVars == <<clipboard, watch, bus, usedIds, wanted>>
historyVars == <<applied, reapplied, forgotten, overflowed>>
vars == <<runtimeVars, threadVars, outsideVars, historyVars>>

LocalThreads == {"watcher", "command"}

IdleLocal == [pc |-> "idle", text |-> NoText, by |-> "nobody",
              todo |-> << >>, id |-> NoEvent]
IdleApplier == [pc |-> "idle", id |-> NoEvent]
IdleConsumer == [pc |-> "idle", id |-> NoEvent, auto |-> FALSE]

CommandIdle == local["command"].pc = "idle" /\ applier.pc = "idle"

Init ==
    /\ cfg = InitialConfig
    /\ recentEvents = EmptyBoundedSet
    /\ suppressHashes = EmptyBoundedSet
    /\ lastLocalHash = NoText
    /\ pendingRemote = {}
    /\ pendingOrder = << >>
    /\ statusPending = NoEvent
    /\ clipboard = [text |-> NoText, by |-> "nobody"]
    /\ watch = [last |-> NoText, held |-> NoText, by |-> "nobody"]
    /\ local = [t \in LocalThreads |-> IdleLocal]
    /\ applier = IdleApplier
    /\ consumer = IdleConsumer
    /\ bus = {}
    /\ usedIds = {}
    /\ wanted = [id \in OwnIds |-> << >>]
    /\ applied = {}
    /\ reapplied = {}
    /\ forgotten = {}
    /\ overflowed = {}
-------------------------------------------------------------------------------
(* Pieces shared by the handlers. *)

\* recordDecisionLocked: the status shows the newest pending event.
RecordDecision(order) ==
    statusPending' = IF order = << >> THEN NoEvent ELSE order[Len(order)]

\* recentEvents.Add(id).
Remember(id) ==
    /\ recentEvents' = Add(recentEvents, id, RecentLimit)
    /\ forgotten' = forgotten \cup
                      (recentEvents.set \ Add(recentEvents, id, RecentLimit).set)

\* An order without the first entry for id.
WithoutFirst(order, id) ==
    IF id \notin Entries(order) THEN order
    ELSE LET i == CHOOSE i \in DOMAIN order :
                     /\ order[i] = id
                     /\ \A j \in 1 .. (i - 1) : order[j] # id
         IN  SubSeq(order, 1, i - 1) \o SubSeq(order, i + 1, Len(order))

Mutant_RefuseNewest(id) ==
    /\ IF Cardinality(pendingRemote) < RecentLimit
       THEN /\ pendingRemote' = pendingRemote \cup {id}
            /\ pendingOrder' = Append(pendingOrder, id)
            /\ UNCHANGED <<recentEvents, forgotten, overflowed>>
       ELSE /\ Remember(id)
            /\ overflowed' = overflowed \cup {id}
            /\ UNCHANGED <<pendingRemote, pendingOrder>>

\* addPendingLocked, for an id that is not pending.  The map grew by one, so
\* its loop evicts at most one event, and it marks that event as handled; the
\* order is then no longer than the limit, so it is never compacted.
AddPending(id) ==
    LET queue == Append(pendingOrder, id)
        all   == pendingRemote \cup {id}
    IN  IF Cardinality(all) <= RecentLimit
        THEN /\ pendingRemote' = all
             /\ pendingOrder' = queue
             /\ UNCHANGED <<recentEvents, forgotten, overflowed>>
        ELSE /\ pendingRemote' = all \ {Head(queue)}
             /\ pendingOrder' = Tail(queue)
             /\ Remember(Head(queue))
             /\ overflowed' = overflowed \cup {Head(queue)}

\* deletePendingLocked.
Mutant_DeleteOnlyEntry(id) ==
    pendingRemote' = pendingRemote \ {id} /\ UNCHANGED pendingOrder
Mutant_DeleteNothing(id) == UNCHANGED <<pendingRemote, pendingOrder>>
DeletePending(id) ==
    /\ pendingRemote' = pendingRemote \ {id}
    /\ pendingOrder' = WithoutFirst(pendingOrder, id)

\* A successful WriteText of the text of a remote event.
WriteClipboard(id) ==
    /\ clipboard' = [text |-> RemoteText[id], by |-> "remote"]
    /\ applied' = applied \cup {id}
    /\ reapplied' = IF id \in applied THEN reapplied \cup {id} ELSE reapplied
-------------------------------------------------------------------------------
(* The world around the runtime. *)

\* The user copies a text in some application.
UserCopies(t) ==
    /\ clipboard' = [text |-> t, by |-> "user"]
    /\ UNCHANGED <<runtimeVars, threadVars, historyVars, watch, bus, usedIds, wanted>>

Watching == cfg.enabled /\ cfg.autoWatch

\* A poll of the adapter's watcher: the first text it reads is its baseline,
\* afterwards every different text is an event.
WatchPoll ==
    /\ Watching
    /\ watch.held = NoText
    /\ clipboard.text \notin {NoText, watch.last}
    /\ watch' = IF watch.last = NoText
                THEN [watch EXCEPT !.last = clipboard.text]
                ELSE [last |-> clipboard.text, held |-> clipboard.text,
                      by |-> clipboard.by]
    /\ UNCHANGED <<runtimeVars, threadVars, historyVars, clipboard, bus, usedIds,
                   wanted>>

\* A cancelled watcher gives up the event it holds, if it sees the
\* cancellation first.
WatchGivesUp ==
    /\ ~ Watching
    /\ watch.held # NoText
    /\ watch' = [watch EXCEPT !.held = NoText, !.by = "nobody"]
    /\ UNCHANGED <<runtimeVars, threadVars, historyVars, clipboard, bus, usedIds,
                   wanted>>
-------------------------------------------------------------------------------
(* HandleLocalText, on behalf of the watcher or of a SendText command. *)

\* First critical section and inspection: a disabled runtime and an invalid
\* text end the call, an oversize text takes the manifest path.
BeginLocal(t, text, by) ==
    /\ local[t].pc = "idle"
    /\ IF ~ cfg.enabled \/ text \in InvalidTexts
       THEN RecordDecision(pendingOrder) /\ UNCHANGED local
       ELSE /\ local' = [local EXCEPT ![t] =
                  [pc   |-> IF text \in cfg.inline THEN "check" ELSE "manifest",
                   text |-> text, by |-> by, todo |-> cfg.publishTo,
                   id   |-> NoEvent]]
            /\ UNCHANGED statusPending
    /\ UNCHANGED <<cfg, recentEvents, suppressHashes, lastLocalHash,
                   pendingRemote, pendingOrder, applier, consumer, clipboard,
                   bus, usedIds, wanted, historyVars>>

\* runClipboardWatcher receives the text its adapter holds.
WatcherReceives ==
    /\ watch.held # NoText
    /\ BeginLocal("watcher", watch.held, watch.by)
    /\ watch' = [watch EXCEPT !.held = NoText, !.by = "nobody"]

\* A SendText command.
SendText(text) ==
    /\ CommandIdle
    /\ BeginLocal("command", text, "user")
    /\ UNCHANGED watch

\* A call of HandleLocalText ends with a decision.
EndLocal(t) ==
    /\ local' = [local EXCEPT ![t] = IdleLocal]
    /\ RecordDecision(pendingOrder)

\* Draw an event id and go on to publish to the topics of the configuration
\* the call has read.
StartPublish(t, targets) ==
    \E id \in OwnIds \ usedIds :
        /\ usedIds' = usedIds \cup {id}
        /\ wanted' = [wanted EXCEPT ![id] = targets]
        /\ local' = [local EXCEPT ![t].pc = "publish", ![t].id = id,
                                  ![t].todo = targets]
        /\ UNCHANGED statusPending

\* Second critical section: the text is an echo of a remote apply, or was
\* just published, or no topic wants it; otherwise an event is built.
CheckLocal(t) ==
    /\ local[t].pc = "check"
    /\ \/ /\ Holds(suppressHashes, local[t].text)
          /\ suppressHashes' = Consume(suppressHashes, local[t].text)
          /\ EndLocal(t)
          /\ UNCHANGED <<usedIds, wanted>>
       \/ /\ ~ Holds(suppressHashes, local[t].text)
          /\ UNCHANGED suppressHashes
          /\ IF local[t].text = lastLocalHash \/ local[t].todo = << >>
             THEN EndLocal(t) /\ UNCHANGED <<usedIds, wanted>>
             ELSE StartPublish(t, local[t].todo)
    /\ UNCHANGED <<cfg, recentEvents, lastLocalHash, pendingRemote,
                   pendingOrder, applier, consumer, clipboard, watch, bus,
                   historyVars>>

\* publishTransferManifest reads the configuration again.  It looks neither
\* at suppressHashes nor at lastLocalHash.
CheckManifest(t) ==
    /\ local[t].pc = "manifest"
    /\ IF ~ cfg.transfer \/ cfg.publishTo = << >>
       THEN EndLocal(t) /\ UNCHANGED <<usedIds, wanted>>
       ELSE StartPublish(t, cfg.publishTo)
    /\ UNCHANGED <<cfg, recentEvents, suppressHashes, lastLocalHash,
                   pendingRemote, pendingOrder, applier, consumer, clipboard,
                   watch, bus, historyVars>>

MessageTo(t) == [topic |-> Head(local[t].todo), id |-> local[t].id,
                 text |-> local[t].text]

\* The bus accepts the event on the next topic.
PublishSucceeds(t) ==
    /\ local[t].pc = "publish"
    /\ local[t].todo # << >>
    /\ bus' = bus \cup {MessageTo(t)}
    /\ local' = [local EXCEPT ![t].todo = Tail(@)]
    /\ UNCHANGED <<runtimeVars, applier, consumer, clipboard, watch, usedIds,
                   wanted, historyVars>>

\* Publishing fails and ends the call.  A timed-out Publish reports an error
\* although its send may still go through.
PublishFails(t) ==
    /\ local[t].pc = "publish"
    /\ local[t].todo # << >>
    /\ \/ UNCHANGED bus
       \/ bus' = bus \cup {MessageTo(t)}
    /\ EndLocal(t)
    /\ UNCHANGED <<cfg, recentEvents, suppressHashes, lastLocalHash,
                   pendingRemote, pendingOrder, applier, consumer, clipboard,
                   watch, usedIds, wanted, historyVars>>

Mutant_RecordAfterFirstTopic(t) ==
    /\ local[t].pc = "publish"
    /\ \E m \in bus : m.id = local[t].id
    /\ lastLocalHash' = local[t].text
    /\ Remember(local[t].id)
    /\ EndLocal(t)
    /\ UNCHANGED <<cfg, suppressHashes, pendingRemote, pendingOrder, applier,
                   consumer, outsideVars, applied, reapplied, overflowed>>

\* Last critical section, once every topic has accepted the event.
RecordPublished(t) ==
    /\ local[t].pc = "publish"
    /\ local[t].todo = << >>
    /\ lastLocalHash' = local[t].text
    /\ Remember(local[t].id)
    /\ EndLocal(t)
    /\ UNCHANGED <<cfg, suppressHashes, pendingRemote, pendingOrder, applier,
                   consumer, outsideVars, applied, reapplied, overflowed>>
-------------------------------------------------------------------------------
(* HandleTopicBusMessage. *)

\* What may arrive: any remote event on any topic, any number of times and in
\* any order, and whatever this node published.
Messages == {[topic |-> p, id |-> e] : p \in Topics, e \in RemoteIds} \cup
            {[topic |-> m.topic, id |-> m.id] : m \in bus}

\* The route admits the message and the payload parses under the
\* configuration read at that moment.
Mutant_AdmitsDisabled(m) ==
    /\ m.topic \in cfg.syncTo
    /\ m.id \in TextIds => RemoteText[m.id] \in cfg.inline \ InvalidTexts
Admits(m) ==
    /\ cfg.enabled
    /\ m.topic \in cfg.syncTo
    /\ m.id \in TextIds => RemoteText[m.id] \in cfg.inline \ InvalidTexts

\* First critical section and parsing.
ReceiveMessage(m) ==
    /\ consumer.pc = "idle"
    /\ IF Admits(m)
       THEN /\ consumer' = [pc |-> "decide", id |-> m.id, auto |-> cfg.autoApply]
            /\ UNCHANGED statusPending
       ELSE RecordDecision(pendingOrder) /\ UNCHANGED consumer
    /\ UNCHANGED <<cfg, recentEvents, suppressHashes, lastLocalHash,
                   pendingRemote, pendingOrder, local, applier, outsideVars,
                   historyVars>>

IsLocalOrigin(id) == id \in OwnIds

\* The name of a message tells a text event from a transfer manifest.
Mutant_CarriesText(id) == TRUE
CarriesText(id) == id \notin Manifests

\* handleTransferManifest does not look at the pending queue.
Mutant_OnlyWindow(id) == Holds(recentEvents, id)
AlreadyHandled(id) ==
    \/ Holds(recentEvents, id)
    \/ CarriesText(id) /\ id \in pendingRemote

\* Second critical section: own events and duplicates are dropped, a manifest
\* is noted, a text waits for the user or goes on to the clipboard as `auto'
\* said.
DecideMessage ==
    LET id == consumer.id IN
    /\ consumer.pc = "decide"
    /\ \/ /\ IsLocalOrigin(id) \/ AlreadyHandled(id)
          /\ consumer' = IdleConsumer
          /\ RecordDecision(pendingOrder)
          /\ UNCHANGED <<recentEvents, pendingRemote, pendingOrder, forgotten,
                         overflowed>>
       \/ /\ ~ IsLocalOrigin(id) /\ ~ AlreadyHandled(id)
          /\ ~ CarriesText(id)
          /\ Remember(id)
          /\ consumer' = IdleConsumer
          /\ RecordDecision(pendingOrder)
          /\ UNCHANGED <<pendingRemote, pendingOrder, overflowed>>
       \/ /\ ~ IsLocalOrigin(id) /\ ~ AlreadyHandled(id)
          /\ CarriesText(id)
          /\ ~ consumer.auto
          /\ AddPending(id)
          /\ consumer' = IdleConsumer
          /\ RecordDecision(pendingOrder')
       \/ /\ ~ IsLocalOrigin(id) /\ ~ AlreadyHandled(id)
          /\ CarriesText(id)
          /\ consumer.auto
          /\ consumer' = [consumer EXCEPT !.pc = "write"]
          /\ UNCHANGED <<recentEvents, pendingRemote, pendingOrder,
                         statusPending, forgotten, overflowed>>
    /\ UNCHANGED <<cfg, suppressHashes, lastLocalHash, local, applier,
                   outsideVars, applied, reapplied>>

\* WriteText returns without an error.
ConsumerWrites ==
    /\ consumer.pc = "write"
    /\ WriteClipboard(consumer.id)
    /\ consumer' = [consumer EXCEPT !.pc = "record"]
    /\ UNCHANGED <<runtimeVars, local, applier, watch, bus, usedIds, wanted,
                   forgotten, overflowed>>

Mutant_FailedWriteMarks ==
    /\ consumer.pc = "write"
    /\ consumer' = IdleConsumer
    /\ RecordDecision(pendingOrder)
    /\ Remember(consumer.id)
    /\ UNCHANGED <<cfg, suppressHashes, lastLocalHash, pendingRemote,
                   pendingOrder, local, applier, outsideVars, applied,
                   reapplied, overflowed>>
Mutant_FailedWriteSuppresses ==
    /\ consumer.pc = "write"
    /\ consumer' = IdleConsumer
    /\ RecordDecision(pendingOrder)
    /\ suppressHashes' = Add(suppressHashes, RemoteText[consumer.id], SuppressLimit)
    /\ UNCHANGED <<cfg, recentEvents, lastLocalHash, pendingRemote,
                   pendingOrder, local, applier, outsideVars, historyVars>>

\* WriteText fails: the event is not marked as handled.
ConsumerWriteFails ==
    /\ consumer.pc = "write"
    /\ consumer' = IdleConsumer
    /\ RecordDecision(pendingOrder)
    /\ UNCHANGED <<cfg, recentEvents, suppressHashes, lastLocalHash,
                   pendingRemote, pendingOrder, local, applier, outsideVars,
                   historyVars>>

\* Last critical section.
ConsumerRecords ==
    /\ consumer.pc = "record"
    /\ Remember(consumer.id)
    /\ suppressHashes' = Add(suppressHashes, RemoteText[consumer.id], SuppressLimit)
    /\ consumer' = IdleConsumer
    /\ RecordDecision(pendingOrder)
    /\ UNCHANGED <<cfg, lastLocalHash, pendingRemote, pendingOrder, local,
                   applier, outsideVars, applied, reapplied, overflowed>>
-------------------------------------------------------------------------------
(* ApplyPending. *)

\* First critical section: the event is looked up and stays in the queue.
LookUpPending(id) ==
    /\ CommandIdle
    /\ id \in pendingRemote
    /\ applier' = [pc |-> "write", id |-> id]
    /\ UNCHANGED <<runtimeVars, local, consumer, outsideVars, historyVars>>

ApplierWrites ==
    /\ applier.pc = "write"
    /\ WriteClipboard(applier.id)
    /\ applier' = [applier EXCEPT !.pc = "record"]
    /\ UNCHANGED <<runtimeVars, local, consumer, watch, bus, usedIds, wanted,
                   forgotten, overflowed>>

ApplierWriteFails ==
    /\ applier.pc = "write"
    /\ applier' = IdleApplier
    /\ RecordDecision(pendingOrder)
    /\ UNCHANGED <<cfg, recentEvents, suppressHashes, lastLocalHash,
                   pendingRemote, pendingOrder, local, consumer, outsideVars,
                   historyVars>>

Mutant_RecordBeforeDelete ==
    /\ applier.pc = "record"
    /\ DeletePending(applier.id)
    /\ Remember(applier.id)
    /\ suppressHashes' = Add(suppressHashes, RemoteText[applier.id], SuppressLimit)
    /\ applier' = IdleApplier
    /\ RecordDecision(pendingOrder)
    /\ UNCHANGED <<cfg, lastLocalHash, local, consumer, outsideVars, applied,
                   reapplied, overflowed>>
ApplierRecords ==
    /\ applier.pc = "record"
    /\ DeletePending(applier.id)
    /\ Remember(applier.id)
    /\ suppressHashes' = Add(suppressHashes, RemoteText[applier.id], SuppressLimit)
    /\ applier' = IdleApplier
    /\ RecordDecision(pendingOrder')
    /\ UNCHANGED <<cfg, lastLocalHash, local, consumer, outsideVars, applied,
                   reapplied, overflowed>>
-------------------------------------------------------------------------------
(* UpdateConfig, its critical section: subscriptions, watcher start-up and   *)
(* their failures leave the data path alone.  Disabling drops the pending    *)
(* events but does not refresh the status; a new watcher has no baseline.    *)
UpdateConfig(c) ==
    /\ CommandIdle
    /\ cfg' = c
    /\ IF cfg.enabled /\ ~ c.enabled
       THEN pendingRemote' = {} /\ pendingOrder' = << >>
       ELSE UNCHANGED <<pendingRemote, pendingOrder>>
    /\ watch' = IF c.enabled /\ c.autoWatch /\ ~ Watching
                THEN [watch EXCEPT !.last = NoText] ELSE watch
    /\ UNCHANGED <<recentEvents, suppressHashes, lastLocalHash, statusPending,
                   threadVars, clipboard, bus, usedIds, wanted, historyVars>>
-------------------------------------------------------------------------------
Next ==
    \/ \E t \in UserTexts : UserCopies(t)
    \/ WatchPoll
    \/ WatchGivesUp
    \/ WatcherReceives
    \/ \E t \in UserTexts : SendText(t)
    \/ \E t \in LocalThreads :
          \/ CheckLocal(t)
          \/ CheckManifest(t)
          \/ PublishSucceeds(t)
          \/ PublishFails(t)
          \/ RecordPublished(t)
    \/ \E m \in Messages : ReceiveMessage(m)
    \/ DecideMessage
    \/ ConsumerWrites
    \/ ConsumerWriteFails
    \/ ConsumerRecords
    \/ \E id \in Ids : LookUpPending(id)
    \/ ApplierWrites
    \/ ApplierWriteFails
    \/ ApplierRecords
    \/ \E c \in Configs : UpdateConfig(c)

Spec == Init /\ [][Next]_vars
-------------------------------------------------------------------------------
(* Properties. *)

Writers == {"nobody", "user", "remote"}
LocalCalls == [pc : {"idle", "check", "manifest", "publish"},
               text : Texts \cup {NoText}, by : Writers, todo : Seq(Topics),
               id : OwnIds \cup {NoEvent}]

\* The shape of the runtime's fields and of the calls in progress.
TypeOK ==
    /\ cfg \in Configs
    /\ recentEvents \in [set : SUBSET Ids, order : Seq(Ids)]
    /\ suppressHashes.set \subseteq Texts
    /\ lastLocalHash \in Texts \cup {NoText}
    /\ pendingRemote \subseteq TextIds
    /\ pendingOrder \in Seq(TextIds)
    /\ statusPending \in TextIds \cup {NoEvent}
    /\ clipboard \in [text : Texts \cup {NoText}, by : Writers]
    /\ watch \in [last : Texts \cup {NoText}, held : Texts \cup {NoText},
                  by : Writers]
    /\ local \in [LocalThreads -> LocalCalls]
    /\ applier \in [pc : {"idle", "write", "record"}, id : TextIds \cup {NoEvent}]
    /\ consumer \in [pc : {"idle", "decide", "write", "record"},
                     id : Ids \cup {NoEvent}, auto : BOOLEAN]
    /\ bus \subseteq [topic : Topics, id : OwnIds, text : Texts]
    /\ usedIds \subseteq OwnIds /\ wanted \in [OwnIds -> Seq(Topics)]
    /\ applied \subseteq TextIds /\ reapplied \subseteq TextIds
    /\ forgotten \subseteq Ids /\ overflowed \subseteq TextIds

\* However often an event is delivered and whichever of the consumer and the
\* user applies it, its text is written to the clipboard a second time only
\* after the bounded window has forgotten the event (runtime.go:662-716 and
\* 572-606, which both write outside the lock).
AppliedOnceWhileRemembered == reapplied \subseteq forgotten

\* Map and order of the pending queue stay in step and within pendingLimit,
\* under arrivals, evictions, applies of any entry and disabling
\* (runtime.go:897-934).
PendingQueueConsistent ==
    /\ pendingRemote = Entries(pendingOrder)
    /\ \A i, j \in DOMAIN pendingOrder :
          pendingOrder[i] = pendingOrder[j] => i = j
    /\ Len(pendingOrder) <= RecentLimit

\* The user is never offered an event the node has already settled, even when
\* ApplyPending and an eviction overlap (runtime.go:599-601, 908-910).
PendingIsUnsettled == pendingRemote \cap recentEvents.set = {}

\* An event is dropped as a duplicate only if its text reached the clipboard
\* or its place in the queue was given up: a failed write leaves it unmarked
\* (runtime.go:704-711, docs/specs/clipboard-sync.md:347).
DuplicateMeansSettled == recentEvents.set \cap TextIds \subseteq applied \cup overflowed

\* Disabling empties the queue, but the consumer does not look again at a
\* configuration it has read.  Of all events on their way at most the one it was
\* deciding can still queue up in a disabled runtime, and it finds the queue
\* empty (runtime.go:369-370, 627-634, 670-696).
DisabledKeepsOneAtMost ==
    ~ cfg.enabled =>
        Len(pendingOrder) <= IF consumer.pc = "decide" THEN 0 ELSE 1

\* Only a text that a remote event really put on the clipboard can later be
\* ignored as an echo (runtime.go:602, 713).
OnlyWrittenTextsSuppressed ==
    suppressHashes.set \subseteq {RemoteText[id] : id \in applied}

\* A text is ignored as unchanged only if the bus accepted one event with it on
\* every topic of the configuration that event's call had read.  A publication
\* that failed half way does not count, whatever was published beside it and
\* however the configuration changed meanwhile (runtime.go:483-496, 555-565).
UnchangedTextWasPublished ==
    lastLocalHash # NoText =>
        \E id \in usedIds :
            /\ wanted[id] # << >>
            /\ \A p \in Entries(wanted[id]) :
                  [topic |-> p, id |-> id, text |-> lastLocalHash] \in bus

\* Whatever is received, evicted, applied or refused, and in whichever order the
\* threads finish, the status offers the newest event of a queue that is not
\* empty.  Disabling empties the queue and leaves the status as it was
\* (runtime.go:367-370, 873-889).
StatusShowsNewest ==
    pendingOrder # << >> => statusPending = pendingOrder[Len(pendingOrder)]

\* To an observer of the queue, the window and the clipboard each critical
\* section and each write is a step of Inbox, which has no threads: in spite of
\* what the calls hold between their critical sections every event is offered,
\* shown, settled and given up as Inbox allows, and a full queue gives up its
\* oldest event.  Showing a text and settling it stay two steps, as the writes
\* are not under the lock (runtime.go:572-606, 662-716, 897-934).
Atomic == INSTANCE Inbox
    WITH TextEvents <- TextIds, OtherEvents <- Ids \ TextIds,
         Capacity <- RecentLimit, waiting <- pendingOrder,
         settled <- recentEvents.order, shown <- applied, again <- reapplied
ImplementsInbox == Atomic!Spec
-------------------------------------------------------------------------------
(* A statement of the documentation that the code does not keep. *)

\* docs/requirements/clipboard-sync.md:65: "Device B's write to the system
\* clipboard must not trigger an event loop back to device A".
NoEcho == \A t \in LocalThreads :
              local[t].by = "remote" => local[t].pc \notin {"publish"}
===============================================================================
