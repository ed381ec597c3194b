# A TLA+ model of ClipboardNode

ClipboardNode keeps the text clipboards of several devices in step over the
TopicBus of a MyFlowHub hub. This directory holds TLA+ modules that model the
Go code under `src/`, the TLC configurations that check them, and theorems
about them checked by TLAPS.

## The system

| part | code | state | operations | talks to |
|---|---|---|---|---|
| bounded string set | `core/runtime/dedupe.go` | map, insertion order, limit | Add, Contains, Consume, trim | used twice by the runtime |
| runtime, data path | `core/runtime/runtime.go`, `event.go` | cfg, recentEvents, suppressHashes, lastLocalHash, pendingRemote/pendingOrder, status | HandleLocalText, HandleTopicBusMessage, ApplyPending, UpdateConfig | clipboard adapter, bus client (outside its lock) |
| runtime, lifecycle | `core/runtime/runtime.go` | started, subscribed, watching, runCtx, watchCancel | Start, Stop, UpdateConfig, OnConnectivityRestored, runClipboardWatcher | hub subscriptions, adapter watchers |
| configuration | `core/runtime/config.go` | none | NormalizeConfig, NormalizeTopicRoutes | every layer |
| event codec | `core/runtime/event.go` | none | InspectText, Parse/Marshal, IsLocalOrigin | runtime |
| clipboard adapters | `platform/`, `windows/`, `nodemobile` | system clipboard, last text or sequence number of the watcher | ReadText, WriteText, WatchText | operating system |
| engine | `core/engine/engine.go` | cfg, runtime, cancel/done of the consumer, last error | Start, Stop, UpdateConfig, SendText, ApplyPending | client, runtime, decisions channel |
| client | `core/myflowhub/client.go` | connection, login snapshot, event channel of 64 | Connect, Register, Login, Subscribe, Publish, Close | hub |
| keys, config store | `core/auth/keys.go`, `core/configstore/store.go` | files | Ensure, SignLogin, Load, Save | disk |
| bridge process | `cmd/clipboardnode-bridge/main.go` | cfg, history, event bus | one command at a time, decision forwarder | UI over stdio or HTTP |
| body history | `cmd/clipboardnode-bridge/history_store.go` | entries, settings, file | AppendActivity, Promote, ApplySettings, Clear | disk |
| mobile | `nodemobile/nodemobile.go`, `MobileEngineChannel.kt` | engine singleton, manual clipboard | Start, Stop, SetClipboardText, TakeLastAppliedText | Android clipboard |
| UI bridges | `app/lib/core/bridge/*.dart` | pending requests, view state | connect, send, receive | bridge process |

### Threads

* **consumer**: the goroutine of `Engine.consumeRuntime`; it takes messages
  from the client's channel and calls `HandleTopicBusMessage` one at a time.
* **watcher**: `runClipboardWatcher`; it takes the texts the adapter observes
  and calls `HandleLocalText` one at a time.
* **command**: the bridge's command loop (or the Android main thread); it
  calls `SendText`, `ApplyPending` and `UpdateConfig` one at a time.

The hosts add threads of their own. Beside its commands the bridge process runs
`forwardDecisions`, which records what the engine did in the body history. On a
phone everything the host does runs on the Android main thread, beside the
consumer of each engine.

Consumer, watcher and command share the runtime, whose mutex is released around
each call of the clipboard and of the bus. That is where the hard behaviour
lies: state read in one critical section is used in the next one, after the
other threads have moved. The bus may deliver an event several times (once per
topic, or again), in any order, and hands a node's own events back to it;
clipboard writes and publications may fail, and a publication reported as timed
out may still happen.

### What makes each part correct

* *Bounded set*: never above its limit, no eviction while there is room, every
  member evictable, a value just added is a member.
* *Data path*: an event is applied at most once while it is remembered; a
  failed write leaves it deliverable; the pending queue is bounded and agrees
  with its order and with the window; a text is unchanged only if all of it was
  published; only texts that were written are suppressed; disabling ends all
  but what is being decided.
* *Lifecycle*: subscriptions follow the configuration, again after a restore,
  one live watcher at most, nothing runs after Stop.
* *Engine and client*: no message of an earlier session, a failed step leaves
  a state from which the next command recovers.
* *Keys and files*: a crash between two writes is repaired at the next start.
* *History*: bounded, newest first, empty on disk once retention is off.
* *Mobile*: the newest applied text reaches the system clipboard and none waits
  for ever, the host polls whenever the runtime applies by itself.

## Modules

| module | what it is |
|---|---|
| `Subsequences` | the loop that trim and the history share, keeping the entries of a slice that pass a test, without recursion so that it can be proved about; `MCDedupeSet` compares it with `SelectSeq`. |
| `BoundedStringSet` | the operators of `dedupe.go`: a set is a record of the map and the order; `Add` includes the trailing `trim`. |
| `DedupeSet`, `MCDedupeSet` | one set under any sequence of the runtime's calls; `field` says which field of `Runtime` it is: Add and Consume on `suppressHashes`, Add alone on `recentEvents`. |
| `RecencyWindow` | the abstract window: the `Limit` latest distinct values, first in first out. |
| `ClipboardRuntime`, `MCClipboardRuntime` | the data path with its three threads, the clipboard, the adapter's watcher and the bus. |
| `Inbox` | the abstract data path: the events that wait, the window of settled ones and what was shown, without threads; showing a text and settling it are two steps, every other call is one. |
| `RuntimeLifecycle`, `MCRuntimeLifecycle` | Start, Stop, UpdateConfig and OnConnectivityRestored, call by call, with the hub's subscriptions and the adapter's watchers. |
| `AtomicLifecycle` | the abstract lifecycle: operations on the runtime's configuration and flags that are granted or refused as a whole. |
| `EngineClient`, `MCEngineClient` | the engine and the client below it under the bridge's commands: connecting, identity, login, stopping, with broken sessions, a Stop in the background and crashes. |
| `HistoryLists` | the list operations of `history_store.go`: entering a text, dropping repetitions, trimming. |
| `RecentList` | the abstract history: a list of recent texts, any old ones dropped, of which a crash leaves what was saved. |
| `HistoryBridge`, `MCHistoryBridge` | the body history of the bridge process: set_config, clear_recent and restore_history beside the decision forwarder, with both files, failing writes and crashes. |
| `MobileClipboard`, `MCMobileClipboard` | the phone: the binding `nodemobile`, its manual clipboard and queues of decisions, and the Android host with its listener and poller. |
| `SubsequencesProofs`, `BoundedStringSetProofs`, `DedupeSetProofs`, `ClipboardRuntimeProofs`, `RuntimeLifecycleProofs`, `EngineClientProofs`, `HistoryBridgeProofs`, `MobileClipboardProofs` | theorems. |

`ClipboardRuntime` and `RuntimeLifecycle` are two views of one `Runtime`: the
data path sees of a configuration change only its critical section, the
lifecycle sees nothing of the events. `EngineClient` is the layer above, in
which Start, Stop and UpdateConfig of the runtime are single calls that succeed
or fail. `HistoryBridge` and `MobileClipboard` are two hosts of the engine, the
desktop's bridge process and the Android application; both see of the engine
only its decisions and, on the phone, what it writes. `DedupeSet` and
`ClipboardRuntime` are both built from the operators of `BoundedStringSet`,
`HistoryBridge` and `RecentList` from those of `HistoryLists`, and all of these
from `Subsequences`.

Four components are shown to implement an abstract specification:

| detailed | abstract | property | what the abstract one says |
|---|---|---|---|
| `DedupeSet` (`recentEvents`) | `RecencyWindow` | `ImplementsWindow` | the set remembers the latest distinct values |
| `ClipboardRuntime` | `Inbox` | `ImplementsInbox` | three threads and their writes outside the lock change queue, window and clipboard only by steps of an inbox without threads, in which a text may still be given up between being shown and being settled |
| `RuntimeLifecycle` | `AtomicLifecycle` | `ImplementsLifecycle` | an operation changes configuration and flags all at once, and only if none of its calls failed |
| `HistoryBridge` | `RecentList` | `ImplementsRecentList` | the history is a list of recent texts, of which a crash leaves what was saved |

`Inbox` maps `waiting` to `pendingOrder`, `settled` to the order of
`recentEvents` and `shown` to the texts written to the clipboard; it has no
threads. `AtomicLifecycle` maps its request to the kind and target of `op`,
which has failed once a call has failed or a rollback is under way; it has
neither topics nor watchers. That is its limit too: what an operation that
fails half way leaves at the hub or of a watcher is not all or nothing (see the
points below), and is the subject of the invariants of `RuntimeLifecycle`.

Operators named `Mutant_...` are not used by any specification: each is a
plausible bug in the definition after it, kept beside it to show that the
properties notice.

### ClipboardRuntime and the code

The state variables carry the names of the fields of `Runtime`. One action is
one critical section, or one call of the clipboard or of the bus:

| code | actions |
|---|---|
| `HandleLocalText` 482-512 | `BeginLocal` (called by `WatcherReceives` and `SendText`): configuration read, inspection |
| 514-554 | `CheckLocal`: echo, unchanged, no target, or an event is built |
| 555-561, `Client.Publish` | `PublishSucceeds`, `PublishFails`, one per topic |
| 563-570 | `RecordPublished` |
| `publishTransferManifest` | `CheckManifest`, then the same publish actions |
| `HandleTopicBusMessage` 627-669 | `ReceiveMessage`: route, policy, parsing |
| 670-696, `handleTransferManifest` | `DecideMessage` |
| 698-717 | `ConsumerWrites`, `ConsumerWriteFails`, `ConsumerRecords` |
| `ApplyPending` | `LookUpPending`, `ApplierWrites`, `ApplierWriteFails`, `ApplierRecords` |
| `UpdateConfig` | `UpdateConfig`: the configuration, the disable branch and the watcher's baseline |
| `WatchText` of the Unix adapter | `WatchPoll`, `WatchGivesUp` |

Every handler ends with `recordDecisionLocked`; its effect on the pending part
of the status is `RecordDecision`, inside the same action. Status fields that
nothing else reads, decisions, sizes and texts of errors are left out. A text
stands for its hash, so hashes do not collide. Remote nodes and the bus are
`Messages`: any remote event on any topic, at any time, any number of times,
and every event this node has published. The runtime is one that has been
started and has a clipboard and a bus. History variables (`applied`,
`reapplied`, `forgotten`, `overflowed`, and `wanted`, the topics that an own
event was meant for when it was made) record what happened for the properties;
no guard reads them.

### RuntimeLifecycle and the code

The host runs one operation at a time (`stdioHost.cmdMu`), so `op` is the one
operation in progress: its phase, the topics still to be called for (`todo`),
those it has subscribed (`done`) and the watcher it has started (`new`). The
runtime's mutex is released around the calls, and the connection may be lost
between any two of them.

| code | actions |
|---|---|
| `Start` 192-266 | `StartDisabled`, or `BeginStart`, `StartSubscribed`, `StartInstalls`, `StartFails` |
| `Stop` 275-312 | `BeginStop`, `UnsubscribeEnds` |
| `UpdateConfig`, not started 331-342 | `UpdateStopped` |
| `UpdateConfig`, disabling 350-386 | `Disable`, `UnsubscribeEnds` |
| `UpdateConfig` 388-453 | `BeginUpdate`, `UpdateSubscribed`, `UpdateUndoes`, `UpdateFails`, `UpdateInstalls` |
| `OnConnectivityRestored` 455-479 | `BeginRestore`, `Restored`, `RestoreFails` |
| `Subscribe`, `Unsubscribe` of `client.go` | `SubscribeSucceeds`, `SubscribeFails`, `UnsubscribeSucceeds`, `UnsubscribeFails`: a failed call may have taken effect at the hub |
| `WatchText` 408 | `WatchSucceeds`, `WatchFails` |
| `Client.onClientError`, `Connect` | `ConnectionLost`, `Reconnect`: the hub forgets the subscriptions of a lost connection |

`live` are the watchers whose context is not cancelled, `consumed` those that a
`runClipboardWatcher` goroutine reads; an update that fails after `WatchText`
leaves a watcher that is live and not consumed. Cancelling a watcher ends its
reader in the same step; in the code the reader may still hand one text over,
which is a call of `HandleLocalText` beside the operation and part of
`ClipboardRuntime`. `doubt` and `troubled` are
history variables: the topics whose last call failed, and whether anything
failed at all. The fields of `Status` that copy the flags are left out.

### EngineClient and the code

Two threads run calls (`op`): the commands, one at a time under
`stdioHost.cmdMu`, and the Stop that the web bridge starts in the background
after a shutdown (main.go:345-349). An action is one critical section of the
engine or the client, one exchange with the hub, or one write of the snapshot.

| code | actions |
|---|---|
| `Engine.Start` 98-112, `Client.Connect` 111-124 | `BeginStart`: answered at once when started; another endpoint goes through Close first |
| `Client.Connect` 125-147 | `Dial`, `ConnectSucceeds`, `ConnectFails`, `ConnectMarks` |
| `EnsureIdentity`, `Register`, `Login` | `Identify`, `Register`, `Login` with `Granted` and `Refused` |
| `Engine.Start` 114-153 | `StartFails` (the deferred Close), `RuntimeStarts`, `RuntimeFails`, `Install` |
| `consumeRuntime` | `Consume`, `ConsumerEnds` |
| `Engine.Stop`, the shutdown command | `BeginShutdown`, `StopTakes`, `StopRuntime`, then Close |
| `Client.Close` | `CloseSession`, `CloseMarks`, `CloseSaves` |
| `Engine.UpdateConfig`, the set_config command | `BeginUpdate`, then Stop, then `ClearIdentity` |
| `onClientError`, `onUnmatchedFrame` | `SessionError`, `FrameArrives` |
| `loadAuthSnapshot`, the start of the process | `Restart`, at any point |

`stored` and `disk` are the two files, the configuration and
`auth_snapshot.json`; only they survive `Restart`. Every write of the snapshot
may fail, and one that a crash interrupts may leave nothing readable. A node id
is written as the device the hub issued it for, so that the properties can tell
whose it is. `setAuthSnapshot` and the `saveAuthSnapshot` after it are one
step, as are `ClearAuth`'s two halves: only a background Close could come
between, and it writes the same credentials. `session` and `bound` belong to
the hub: the connection and the node id bound to it. `runs`, `since`, `answer`,
`lost`, `raced` and `stale` are history variables; `runs` is also read to
number the runtimes and to bound them, and `since` to let messages come in only
where a runtime has subscribed. The last error, the hub id, the display name
and the rest of `AuthState` are left out.

External are the SDK's client (a Connect that Close overtakes fails, and one
that failed may be repeated) and the hub (one node id for a device).

### HistoryBridge and the code

Two threads: the commands (`cmd`), one at a time under `cmdMu`, and
`forwardDecisions` (`fwd`). Every method of the history store holds the store's
mutex until its file is written, so that it is one action; between two of
them, and between reading `h.cfg` and using it, the other thread may move.

| code | actions |
|---|---|
| `run`, `newHistoryStore`, `Store.Load` | `StartUp`: repetitions dropped, old configurations migrated, the history brought in line; `Crash` at any point |
| set_config, main.go 150-163 | `ApplySettings`, `SaveConfig`, `UpdateEngine`, `AssignConfig`, in this order; the first three may fail and end it |
| clear_recent, restore_history | `ClearRecent`, `RestoreHistory` |
| `emitHistory` 468-490 | `ShowCmd`, `EmitCmd`, and for the forwarder `ReadConfig`, `ListEntries`, `EmitFwd`: the view is taken before the lock that orders what the UI receives |
| `forwardDecisions`, `emitActivity` 419-433, `AppendActivity` | `TakeDecision` and `CopyConfig`, which copy `h.cfg` one after the other and each test whether bodies are kept, and `AppendText` |
| `Engine.emitDecision` | `Decide`: a full queue drops |
| `saveLocked` | `SaveSucceeds`, `SaveFails`: the file is replaced by renaming |

The forwarder copies `h.cfg`, a struct, without a lock, while `AssignConfig`
is assigning it: `Readable` are the mixtures of the two values it may get.
An entry stands for its text, by which the store tells entries apart; the
activity events and their order are left out. `unsaved`, `late`, `halfway`,
`overtaken` and `blurred` are history variables, each naming one way in which
memory, files and view may differ for a while: the last write of the history
failed, a text was recorded under another configuration, a `set_config` failed
after it had saved, a view was overtaken by another. `late` says which
configuration the recorded text is at odds with, the one in force or the one
being installed, and forgets it when the history is trimmed or cleared by a
`set_config`, `clear_recent`, a restored text or another text recorded under the
configuration in force.
In web mode a view goes through `eventBus.broadcast`, which drops it for a
subscriber whose queue is full; `shown` is the stdio host's output.

### MobileClipboard and the code

`main` is the call in progress on the Android main thread, `engine` the
singleton of the binding with its runtime and the manual clipboard.

| code | actions |
|---|---|
| `Start`, `Stop`, `UpdateConfig` of `nodemobile.go` with `syncClipboardPolicy` | `Start`, `EndStart`, `Stop`, `UpdateConfig`, `UpdateFails`, `ChangeDevice`, `UpdateStopped` |
| `HandleTopicBusMessage`, seen from the clipboard | `Receive`, `RecordApplied` |
| `consumeRuntime` | `Forward`: from `Runtime.decisions` to `Engine.decisions`; either may drop |
| `pollAppliedText`, `TakeLastAppliedText` | `Poll` and `TakeSlot`, or `Poll` and `Drain`: the slot first, then the newest application among the decisions |
| `applyEvent`, `applyDecisionToSystemClipboard` | `ApplyEvent`, `RecordEvent`, `TakeEvent` |
| `handleIntent`, `sendText` | `Share`, `SendText` |
| `readClipboard`, `onPrimaryClipChanged` | `ReadClipboard`, `ClipChanged`, `EndRead` |
| `setSystemClipboard` | `SetSystem`, `SuppressionEnds` after its second |

`Poll` goes on as long as the host polls: `pollAppliedText` also stops for good
when the binding throws (MobileEngineChannel.kt:202-205), which `nodemobile`
does not. `ChangeDevice` waits for a write in progress, as `Engine.Stop` waits
for the consumer; it would give up after two seconds (engine.go:172-176), but
the write of the manual clipboard assigns two fields under a mutex.

External is `UserCopies`, any application that sets the system clipboard. Each
remote text reaches an engine at most once, which is `ClipboardRuntime`'s
business; decisions other than applications count only for the room they take.
`last`, and the engine's `newest` and `lost`, are history.

## Runs

| run | question | result |
|---|---|---|
| `dedupe` | limit and evictability under Add and Consume; is a set that is only added to a recency window? | holds |
| `runtime_receive` | at most once, queue against window and status, failures of writes, overflow, disabling; do the threads together implement an inbox? | holds |
| `runtime_send` | what counts as published and what is suppressed, with all threads moving and the configuration changing | holds |
| `runtime_echo` | is the echo of an apply never published? | **violated** |
| `lifecycle` | nothing outlives Stop, one watcher is read, flags and subscriptions follow the configuration, a restore subscribes again, every operation returns and is all or nothing | holds |
| `engine` | whose identity a runtime uses, what a stopped engine leaves open, what a started one may rely on | holds |
| `engine_reconnect` | is an enabled node connected when connect answers ok? | **violated** |
| `engine_stale` | does a runtime see only messages of its own session? | **violated** |
| `history` | history against its file, the configuration and the UI, through failed writes and crashes; is it a list of recent texts? | holds |
| `history_off` | are the bodies gone from the disk once retention is off? | **violated** |
| `history_limit` | does the file hold no more texts than the limit? | **violated** |
| `mobile` | does the newest applied text reach the system clipboard, does the host poll when it must, is every text taken? | holds |

The violated runs quote the document they check against and show a behaviour
of the code that contradicts it; `PROJECT.json` lists them under `findings`
with the lines.

More points are visible in the models and have no run of their own:

* a value that was consumed and is added again can be evicted at once through
  its stale entry in the order (dedupe.go:46), so that a set that is consumed is
  not a recency window;
* a suppression hash waits for the next local text without expiring, and may
  drop a genuine copy of the same text long after the echo (runtime.go:515);
* a watcher that an `UpdateConfig` started before it failed is neither read nor
  stopped when sync is disabled, until the runtime stops (runtime.go:418-423);
* a Start that overlaps a background Stop may install a runtime on a client
  that has been closed meanwhile; `StartedIsBound` excludes it by `raced`, while
  `RuntimeIsConfiguredDevice` and `OfflineWhenStopped` hold regardless;
* the insertion order of `suppressHashes` is bounded by nothing when Add and
  Consume alternate, because `trim` keeps every entry whose value is a member
  (dedupe.go:50); `DedupeSet` needs its bound `MaxOrder` for that reason;
* on Windows the watcher reads the sequence number of the clipboard before its
  text, and a write counts twice (emptying, setting): a text set in between is
  reported a second time at the next poll, when its suppression hash has been
  consumed, and is published back (clipboard_windows.go:179-188). The models
  have the watcher of the Unix adapter, which compares texts;
* a remote apply leaves `lastLocalHash` alone, so that copying the previously
  published text again after it is dropped as unchanged (runtime.go:521), where
  docs/specs/clipboard-sync.md:141 says "Runtime ignores unchanged text using
  last local/remote hash state": no state of the last remote text is kept.
  `UnchangedTextWasPublished` says that what is dropped was published, and
  nothing about whether it is still what the other devices have;
* disabling empties the pending queue and leaves the event it held in the
  status until the next decision (runtime.go:367), which is why
  `StatusShowsNewest` speaks of a queue that is not empty;
* an `UpdateConfig` that fails while unsubscribing does not subscribe again to
  the topics it has already given up (runtime.go:418-423);
* a failed `OnConnectivityRestored` unsubscribes what it had restored and
  leaves `subscribed` true (runtime.go:468-473), where
  docs/specs/clipboard-sync.md:343 says "TopicBus subscribe failure: keep
  disabled subscription state and retry on reconnect or explicit enable."
  `FlagsFollowConfig` and `AtomicLifecycle` speak of the flag, which follows the
  configuration, and accept this. Another restore does subscribe again
  (`RestoreResubscribes`); setting the same enabled configuration again calls
  for no topic, because of the flag;
* the handlers go on with the configuration they read at their start: an event
  admitted before sync was disabled may be applied or queued after it
  (runtime.go:483, 626-704), where docs/requirements/clipboard-sync.md:70 says
  that a node whose sync is disabled "stops applying remote events", and :89
  "must unsubscribe or stop applying remote events when disabled". One event can
  do so for each disabling, the one the consumer has in hand; of those that
  queue up `DisabledKeepsOneAtMost` says the same;
* an `UpdateConfig` that fails after it has cancelled the old watcher leaves
  `watching` true with no watcher (runtime.go:404);
* a text that is recorded while set_config runs may stay against the new
  configuration, until the history is next trimmed or cleared: by a text
  recorded or restored under that configuration, a set_config, a clear_recent or
  a start (main.go:423-424). With bodies turned off no text is recorded any more;
* a crash while a file is being saved leaves `.clipboardnode-history-*.tmp`,
  with the bodies in it, beside the file (history_store.go:192);
* any error of reading or parsing the key file makes new keys over the old
  ones; the hub then refuses the login of the registered node (keys.go:129);
* on a phone an automatically applied text is handed out twice, from the slot
  and, at a later poll, from the decisions: in between the user's own copy may
  be overwritten by it (nodemobile.go:186-191);
* a configuration with auto_watch makes the runtime call `WatchText` of the
  manual clipboard, which always returns ErrUnsupported (nodemobile.go:67-69,
  runtime.go:241, 408). `bridge.start` and `bridge.updateConfig` throw before
  `syncClipboardPolicy` runs (MobileEngineChannel.kt:67-68, 73-74), so that the
  host never listens while a runtime runs, where docs/specs/clipboard-sync.md:98
  says "Android `auto_watch` is a foreground app policy. When enabled through
  the live mobile bridge, Kotlin registers an Android `ClipboardManager`
  primary-clip listener while ClipboardNode is started";
* when a full queue has dropped a decision, the poll after the slot was taken
  may return an older text than the last (nodemobile.go:201-216), which is why
  `NewestAppliedReachesHost` speaks of engines that have lost none;
* `readClipboard` hands the text over and has it read in two calls; a remote
  text that is written in between is published in its place
  (MobileEngineChannel.kt:86-88);
* the flag that suppresses the host's own change may outlive it and swallow a
  copy of the user within its second (MobileEngineChannel.kt:228-232);
* `Stop` and `Start` discard a text that has not been taken, and turning
  auto_apply on later can deliver what an earlier applied decision still holds;
* while `Start` replaces an engine, the old one runs beside the new
  (nodemobile.go:75-110); a disabling that fails half way leaves the host
  polling, which `PollsForAutoApply` allows.

### Bounds

* `dedupe`: four values and a limit of two, so that the map overflows, a
  consumed value is added again and the order passes twice the limit, where it
  is compacted. The code does not bound the order; the guard of `AddValue`
  stops at `MaxOrder` = 7.
* `runtime_receive`: two texts, three text events of which two carry the same
  text, one manifest, a queue and window of two (so both overflow), one
  suppressed hash (so that set evicts), and three configurations (off, manual,
  auto-apply).
* `runtime_send`: one inline and one oversize text, one remote event, two own
  event ids, two topics, windows of one: the smallest window forgets soonest.
  The own ids are interchangeable. Four configurations: disabled, publishing to
  both topics, to the second alone, and to none, so that the configuration may
  change under a call that publishes to topics the new one lacks.
* `OwnIds` bounds the events a node publishes in a behaviour: with none left,
  `StartPublish` is not enabled. `RandomEventID` never repeats an id.

* `lifecycle`: five configurations (disabled; watching or not; with topics
  that are equal, overlap or are disjoint), three topics, and two watchers that
  may be live at once, which is enough for one that is read and one that a
  failed update abandoned. A third needs a second failed update; the theorems
  hold for any number. An operation that would need a watcher beyond the bound
  can still take `WatchFails`.

* `engine`: three configurations (two devices on one endpoint, one of them also
  with sync off on a second endpoint), two sessions and two runtimes, so that
  each can be left behind and another follow, an event channel of one, and one
  background Stop at a time: `BeginShutdown` waits for the last one. Sessions
  and runtimes are not counted down by a restart. The theorems hold for any
  numbers.

* `history`: three interchangeable texts, so that the history overflows both
  limits; configurations with bodies kept (limits one and two) and with metadata
  only, which the store treats like none; a queue of one; and at the first start
  one of two configuration files, one of them from before `history_limit`
  existed, and a history file that is empty or holds a repetition and more than
  the limit. `history_off` and `history_limit` have the same instance. No counter is bounded: the state space is finite.
* `mobile`: two remote texts, so that one can overtake the other, one text of
  the user, four policies (off, ask, apply automatically with and without
  auto_watch) and queues of two, which may be full. Each remote text arrives
  once for each engine; restarts are not counted.

All runs check deadlock. `RuntimeLifecycle` assumes weak fairness of
`Continue`, the next step of the operation in progress: every call to the hub
has a deadline (client.go:472) and `WatchText` only starts a goroutine, so a
call returns, with or without an error. Nothing is assumed of the host's
commands, the connection or the outcome of a call. `MobileClipboard` assumes
in `FairSpec` weak fairness of `Continue`, as a call on the main thread returns,
and strong fairness of `Poll`: the main looper runs what is posted in the order
of its due time, so that the poller, which posts itself again while the host
polls, gets its turn among the other calls, although each of them disables it
for a while (MobileEngineChannel.kt:36-43). Nothing is assumed of the consumer,
the user or the remote nodes. The other specifications state no fairness: the
code promises no delivery (the bus has no replay and queues drop).

## Proofs

`SubsequencesProofs` proves what the loop that keeps some entries of a slice
returns for slices of any length. Induction over the slice is not available, so
the argument is by rank: counting the chosen indices up to each of them is a
bijection to the places of the result, found with the cardinality theorems of
the library. What follows is that each kept entry is in the result, nothing
else is, and no entry is repeated that was not.

`BoundedStringSetProofs` proves two sets of lemmas. For a set that is never
consumed (`AddKeepsWindow`): the map stays equal to the entries of the order,
each once, within the limit; nothing is popped while there is room, and the
oldest when there is none; the value added is a member. The lemma is false for
`suppressHashes`, on which the runtime calls `Consume`: a consumed value leaves
its entry in the order, and added again it may be the oldest entry at once. For
any set (`AddKeepsEvictable`, `ConsumeKeepsEvictable`): the map is within the
limit and every member has an entry in the order. That is why popping reaches
the limit before the order is exhausted (`EvictionEnds`), and compaction keeps
it, as it drops only entries of values that are not members.

`DedupeSetProofs` concludes, for every capacity, that any set stays bounded and
evictable (`SetsStayBoundedAndEvictable`) and loses no value while it has room
(`NothingIsEvictedWithoutNeed`), and that `recentEvents` implements
`RecencyWindow`.

`ClipboardRuntimeProofs` proves nine invariants of `ClipboardRuntime`, and two
refinements, for all constants that satisfy its four assumptions (finite or not: the sets of texts,
ids, topics and configurations are arbitrary). Three inductive invariants carry
them:

* `RuntimeInv`: types, `recentEvents` is a window, `pendingRemote` and
  `pendingOrder` agree without repetitions within the limit, and what a call
  in progress holds has the right kind.
* `HistoryInv`: at-most-once is not inductive alone. The consumer holds only
  events that are not queued, since it is the only thread that queues, and
  that are not remembered unless they were forgotten before. The event the
  command is applying stays queued, remembered or forgotten: it leaves the
  queue only by an eviction, which remembers it, and disabling, which empties
  the queue, is a command itself and cannot overlap. So the two threads never
  write the same event unless the window has forgotten it.
* `PublishInv`: a call of `HandleLocalText` that is publishing has, for every
  topic its event was made for (`wanted`), either published it there or still to
  do so. Nothing is taken back from the bus, an id is drawn once, and a call goes
  on with the topics it has read whatever the configuration has become, so that
  a text is recorded as published only when every one of its topics has it.

`HistoryInv` is where the proof depends on the command thread being one
thread: with a concurrent disable the event being applied would be neither
queued nor remembered.

`HandlersAreAtomic`, that the runtime implements `Inbox`, rests on `RuntimeInv`
and `HistoryInv`. Each critical section is one call of the inbox or none:
deciding a message offers its text or notes a manifest, a write shows the text,
the record after it settles it, and disabling withdraws what waits. What needs
an argument is the show: the consumer and the command decided to write in an
earlier critical section, and only `HistoryInv` says that the event has not
been shown since, unless forgotten. `RuntimeKeepsRecencyWindow` is the same for
the window alone: `recentEvents`, as the three threads use it, implements
`RecencyWindow`, which `DedupeSet` shows of calls made one after the other.

`StatusShowsNewest` needs none of them: every step leaves queue and status
alone, shows the queue it leaves behind or empties it (`StatusFollowsQueue`).
`DisabledKeepsOneAtMost` needs only the types: the guard of `Admits` reads the
configuration in the same critical section that admits, disabling empties the
queue, and a queue that is empty while the one consumer decides has one event
after it.

`RuntimeLifecycleProofs` proves seven invariants, a refinement and two action
properties of `RuntimeLifecycle` for any sets of topics, configurations and
watchers. They rest on four inductive invariants, which TLC also confirmed on
the instance above:

* `LifecycleInv`: types, the flags, what each phase of an operation implies
  (`OperationInv`: an update only runs on a started runtime, a start on one
  that is not started but has a context, a restore on an enabled one), and
  where the watchers are (`WatcherInv`: a watcher is read only if `watchCancel`
  stops it, a watcher an operation has started is live, and none is live
  without a run context).
* `HubInv`: `NoUnexplainedSubscription` speaks of the time between operations.
  Within one, what the hub delivers is wanted, in doubt, or in the hands of the
  operation: subscribed by it (`done`) or still to be unsubscribed (`todo`).
  The last step of every path, failing or not, finds that set empty or makes it
  the wanted one.
* `QuietInv` and `ExactInv`, for a runtime nothing has happened to yet: the
  live watchers are the one that is read and the one the operation has just
  started, and what the hub delivers is, at each phase, what is wanted with the
  part of the change already made.

`OperationsAreAtomic`, that the lifecycle implements `AtomicLifecycle`, adds
`RequestInv` (only an update that is unsubscribing, or an operation that is
rolling back or cleaning up, has seen an Unsubscribe fail; a restore is for the
configuration in use; between operations nothing of the last one is left). The
steps with content are the last ones of each path: that the flags
`UpdateInstalls` computes from the old flag and the new watcher are those of
the new configuration needs `FlagsFollowConfig` and `OperationInv`, and so does
that `StartFails`, which clears the flags, changes none of them.

`RestoreSubscribesAll` rests on `RestoreInv`: while a restore subscribes and the
connection is up, each topic of the configuration is delivered already or still
in `todo`, whatever the hub had delivered before.

`OperationsAdvance` is the part of termination that a prover can have: a step
of an operation lowers its `Stage` or, within a stage, takes a topic from
`todo`, and no step of anything else touches the operation. A configuration has
finitely many topics, so no operation, however it fails, makes calls for ever.
That the next step is taken is fairness, and with TLC.

`EngineClientProofs` proves the four properties of `EngineClient` for any
devices, endpoints, configurations and bounds. None is inductive alone;
`EngineInv` adds

* `PhaseInv`: the phases of each operation, and in which of them the engine is
  stopped (a Start runs on a stopped engine with the engine's configuration, a
  shutdown or change of device has stopped it once it is past `take`);
* `IdentityInv`: every snapshot, in memory, on disk or about to be written,
  holds a node id of its own device, and from the login on a Start holds that
  of the configuration it started with;
* `OfflineInv`: what a stopped engine still has open is being taken away, by
  the Start in progress or by a background Stop that has not passed the point
  where it closes it;
* `BoundInv`: how far an undisturbed Start has got, session included, and that
  no background Stop is left when an engine that was not raced is started.

`EngineCallsAdvance` says of the commands and of the background Stop what
`OperationsAdvance` says of the runtime's operations: each step lowers
`StepsLeft`, through every failure, whatever the other thread and the session
do. A Start passes Close twice at most, before it dials and after it has failed;
hence the test of `failed` in `StepsLeft`. `ShutdownInv`, that a shutdown runs
with no background Stop beside it, is why the Stop it leaves behind replaces
none that is in progress; that one is the bound on background Stops stated
above, not a property of the code.

`HistoryBridgeProofs` first concludes from `SubsequencesProofs` what the list
operations return for lists of any length: entering a text keeps a list without
repetitions, and dropping repetitions twice is dropping them once. It proves
the six invariants of `HistoryBridge` for any texts, limits, configurations and
contents of the files, and that it implements `RecentList` (`StoreIsRecentList`:
every write enters a text, drops old ones or saves). In this order:

* `Types`: the state, with what each place of a thread says of its fields;
* `StoreInv`: history and file hold no repetition, other than what was found at
  the first start, and agree unless the last write failed;
* `SettingsInv`: the history obeys the configuration in use unless `late` names
  it, and from `ApplySettings` on also the one being installed unless `late`
  names that one. Two marks are needed because a text recorded in between is at
  odds with one of the two, and `AssignConfig` makes the next one the current;
* `ConfigInv`: `config.json` holds the configuration in use, or after
  `SaveConfig` the one being installed;
* `ViewInv`: unless a thread is still going to take a fresh view, a view that is
  on its way and was not overtaken is the current one.

`MobileClipboardProofs` proves the four invariants of `MobileClipboard` for any
texts, policies and queue sizes, assuming that the absent engine is not an
engine. `Inv` is the conjunction of

* `Shape`: types, and that the slot is full from the write of `applyEvent` to
  the take, since only the main thread empties it;
* `PollInv`: the host polls if the runtime applies by itself, or `Start` is
  about to tell it so;
* `NewestInv`: if no application was lost, the last one recorded is the newest
  in the queue of the runtime or, if that holds none, in that of the engine. If
  both hold none, it waits in the slot or the host has taken it, unless a later
  text is being written. Only a user's apply comes between the write and the
  record of another text, and it leaves an application in the queues, which are
  drained only after the slot was found empty.

Every invariant, action property and refinement that a passing run checks is
proved. What stays with TLC is liveness (`OperationsReturn`,
`AppliedTextsAreTaken`), which needs fairness and ENABLED, and the agreement of
`Picked` with `SelectSeq`, a recursive definition, which `MCDedupeSet` evaluates
for all short lists.

## Plan

The bounded set, the runtime's data path and lifecycle, the engine with its
client, the body history and the mobile clipboard are done. What could follow,
the most important behaviour first:

1. `ClipboardNetwork`: several `ClipboardRuntime` nodes and a bus; loops and
   convergence after a quiet period (liveness, TLC only).
2. Correlation of requests and answers in the live UI bridge, and the
   subscribers of the web bridge's event bus.
3. An abstract connection (offline, or online as one device) that `EngineClient`
   implements while no background Stop runs, and an abstract slot for
   `MobileClipboard`.
4. A variant like `OperationsAdvance` for the calls of `MobileClipboard`.

## Not modelled

* Keys and configuration store as files: the key file is written once and read
  at each login, and the configuration is replaced by renaming; what matters of
  both is in `EngineClient` (`stored`, `disk`) and `HistoryBridge` (`stored`).
* The Flutter user interface, platform hosts, build and release scripts, the
  command line tool and the JSON contract hold no state that a property could
  be about.
* The HTTP handlers of the web bridge apart from the background Stop, and the
  transfer and status events: they map calls and decisions to JSON.
* Signatures, the SDK's client and the hub are external.
