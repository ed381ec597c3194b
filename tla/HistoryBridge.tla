----------------------------- MODULE HistoryBridge -----------------------------
(***************************************************************************)
(* The body history of the bridge process, cmd/clipboardnode-bridge: the   *)
(* history store and its file, the configuration and its file, the         *)
(* commands that change them and the goroutine that records decisions.     *)
(*                                                                         *)
(* Commands run one at a time (cmdMu).  forwardDecisions runs beside them: *)
(* it takes the decisions of the engine from a queue, appends their texts  *)
(* to the history and shows the history to the UI.  It takes neither cmdMu *)
(* nor any other lock to read h.cfg, which set_config assigns; the store's *)
(* mutex makes each of its methods, saving included, one step.             *)
(*                                                                         *)
(* Files are replaced by renaming, so that a crash leaves the old or the   *)
(* new content.  Every write may fail.  The process may crash at any step  *)
(* and start again.                                                        *)
(***************************************************************************)
EXTENDS HistoryLists

CONSTANTS
    Texts,         \* texts that can enter the history
    Configs,       \* normalized configurations
    StoredBefore,  \* contents of config.json at the first start
    SavedBefore,   \* contents of history.json at the first start
    Absent,        \* history_limit is not in config.json
    DefaultLimit,  \* DefaultHistoryLimit
    QueueSize,     \* capacity of Engine.decisions
    NoText         \* no text

Retentions == {"none", "metadata", "body"}

\* What the history reads of a Config, and what config.json holds of it.
Config       == [retention : Retentions, limit : Nat \ {0}]
StoredConfig == [retention : Retentions, limit : (Nat \ {0}) \cup {Absent}]

ASSUME ConfigAssumption ==
    /\ Absent \notin Nat
    /\ Configs \subseteq Config
    /\ StoredBefore \subseteq StoredConfig
    /\ DefaultLimit \in Nat \ {0}
ASSUME TextsAssumption == SavedBefore \subseteq Seq(Texts) /\ NoText \notin Texts
ASSUME QueueAssumption == QueueSize \in Nat \ {0}

VARIABLES
    up,         \* the process runs
    entries,    \* historyStore.entries
    saved,      \* history.json
    stored,     \* config.json
    cfg,        \* stdioHost.cfg
    decisions,  \* Engine.decisions
    cmd,        \* the command in progress
    fwd,        \* forwardDecisions
    shown,      \* the history the UI has last received
    unsaved,    \* history: the last write of history.json failed
    late,       \* history: whether a text was recorded under another
                \* configuration than the one in force ("current") or being
                \* installed ("next"), and nothing has been trimmed since
    halfway,    \* history: a set_config failed after it saved config.json
    overtaken,  \* history: the threads that hold a view taken before the
                \* other thread showed its own, or failed
    blurred     \* history: the last change was not shown, or the last view
                \* shown was an overtaken one

files    == <<saved, stored>>
views    == <<shown, overtaken, blurred>>
troubles == <<unsaved, late, halfway>>
vars == <<up, entries, files, cfg, decisions, cmd, fwd, views, troubles>>

NoConfig == [retention |-> "none", limit |-> 0]
IdleCmd == [pc |-> "idle", cfg |-> NoConfig, view |-> << >>]
IdleFwd == [pc |-> "idle", text |-> NoText, cfg |-> NoConfig, view |-> << >>]

KeepsBodies(c) == c.retention = "body"

Init ==
    /\ up = FALSE
    /\ entries = << >>
    /\ saved \in SavedBefore
    /\ stored \in StoredBefore
    /\ cfg = NoConfig
    /\ decisions = << >>
    /\ cmd = IdleCmd
    /\ fwd = IdleFwd
    /\ shown = << >>
    /\ unsaved = FALSE /\ late = {} /\ halfway = FALSE
    /\ overtaken = {} /\ blurred = FALSE
-------------------------------------------------------------------------------
(* The stores. *)

\* Entries: what the UI may see under a configuration.
Visible(list, c) == IF KeepsBodies(c) THEN Newest(list, c.limit) ELSE << >>

\* ApplySettings: what remains of a history under a configuration.
Mutant_Kept(list, c) ==
    IF c.retention # "none" THEN Newest(list, c.limit) ELSE << >>
Kept(list, c) == IF KeepsBodies(c) THEN Newest(list, c.limit) ELSE << >>

\* saveLocked.
SaveSucceeds == saved' = entries' /\ unsaved' = FALSE
SaveFails    == UNCHANGED saved /\ unsaved' = TRUE

\* migrateLegacyHistoryDefaults and NormalizeConfig, as Load applies them.
Mutant_Loaded(s) ==
    [retention |-> IF s.retention = "metadata" THEN "body" ELSE s.retention,
     limit     |-> IF s.limit = Absent THEN DefaultLimit ELSE s.limit]
Loaded(s) ==
    [retention |-> IF s.retention = "metadata" /\ s.limit = Absent
                   THEN "body" ELSE s.retention,
     limit     |-> IF s.limit = Absent THEN DefaultLimit ELSE s.limit]

ASSUME LoadedAssumption == \A s \in StoredBefore : Loaded(s) \in Configs
-------------------------------------------------------------------------------
(* The life of the process. *)

\* run and serve: the history is brought in line with the configuration
\* before anything else happens; if that cannot be saved, the process exits.
StartUp ==
    /\ ~ up
    /\ up' = TRUE
    /\ cfg' = Loaded(stored)
    /\ entries' = Kept(Distinct(saved), cfg')
    /\ saved' = IF entries' = Distinct(saved) THEN saved ELSE entries'
    /\ unsaved' = FALSE /\ late' = {} /\ halfway' = FALSE
    /\ shown' = Visible(entries', cfg')
    /\ overtaken' = {} /\ blurred' = FALSE
    /\ UNCHANGED <<stored, decisions, cmd, fwd>>

\* A crash, or the end of the process: only the files remain.
Crash ==
    /\ up
    /\ up' = FALSE
    /\ entries' = << >>
    /\ cfg' = NoConfig
    /\ decisions' = << >>
    /\ cmd' = IdleCmd
    /\ fwd' = IdleFwd
    /\ shown' = << >>
    /\ UNCHANGED <<files, overtaken, blurred, troubles>>

\* The engine reports what it did with a text; a full queue drops it.
Mutant_Decide(d) ==
    /\ up
    /\ decisions' = Append(decisions, d)
    /\ UNCHANGED <<up, entries, files, cfg, cmd, fwd, views, troubles>>
Decide(d) ==
    /\ up
    /\ Len(decisions) < QueueSize
    /\ decisions' = Append(decisions, d)
    /\ UNCHANGED <<up, entries, files, cfg, cmd, fwd, views, troubles>>
-------------------------------------------------------------------------------
(* set_config: history, file, engine, h.cfg, in this order; each of the      *)
(* first three may fail and ends the command with an error.                  *)

GoTo(pc) == cmd' = [cmd EXCEPT !.pc = pc]
Show     == cmd' = [IdleCmd EXCEPT !.pc = "show"]

\* The threads that hold a view, or the configuration for one.
Holding == (IF cmd.pc = "emit" THEN {"cmd"} ELSE {}) \cup
           (IF fwd.pc \in {"list", "emit"} THEN {"fwd"} ELSE {})

\* An error is reported instead of the history.
NotShown(thread) ==
    /\ overtaken' = Holding \ {thread}
    /\ blurred' = TRUE
    /\ UNCHANGED shown

FailCmd == cmd' = IdleCmd /\ NotShown("cmd")

\* ApplySettings writes nothing when nothing changes.
ApplySettings(c) ==
    /\ up /\ cmd.pc = "idle"
    /\ entries' = Kept(entries, c)
    /\ late' = IF c = cfg THEN {} ELSE late \ {"next"}
    /\ \/ /\ IF entries' = entries THEN UNCHANGED <<saved, unsaved>>
             ELSE SaveSucceeds
          /\ cmd' = [pc |-> "save", cfg |-> c, view |-> << >>]
          /\ UNCHANGED views
       \/ entries' # entries /\ SaveFails /\ FailCmd
    /\ UNCHANGED <<up, stored, cfg, decisions, fwd, halfway>>

\* Store.Save.
SaveConfig ==
    /\ cmd.pc = "save"
    /\ \/ stored' = cmd.cfg /\ GoTo("engine") /\ UNCHANGED views
       \/ UNCHANGED stored /\ FailCmd
    /\ UNCHANGED <<up, entries, saved, cfg, decisions, fwd, troubles>>

\* Engine.UpdateConfig.
UpdateEngine ==
    /\ cmd.pc = "engine"
    /\ \/ GoTo("assign") /\ UNCHANGED <<halfway, views>>
       \/ FailCmd /\ halfway' = TRUE
    /\ UNCHANGED <<up, entries, files, cfg, decisions, fwd, unsaved, late>>

\* The end of h.cfg = cfg.
Mutant_AssignConfig ==
    /\ cmd.pc = "assign"
    /\ cfg' = cmd.cfg
    /\ halfway' = FALSE
    /\ late' = IF "next" \in late THEN {"current"} ELSE {}
    /\ cmd' = IdleCmd
    /\ UNCHANGED <<up, entries, files, decisions, fwd, views, unsaved>>
AssignConfig ==
    /\ cmd.pc = "assign"
    /\ cfg' = cmd.cfg
    /\ halfway' = FALSE
    /\ late' = IF "next" \in late THEN {"current"} ELSE {}
    /\ Show
    /\ UNCHANGED <<up, entries, files, decisions, fwd, views, unsaved>>
-------------------------------------------------------------------------------
(* clear_recent and restore_history. *)

\* Clear always writes.
Mutant_ClearRecent ==
    /\ up /\ cmd.pc = "idle"
    /\ entries' = << >>
    /\ late' = {}
    /\ UNCHANGED <<saved, unsaved, views>>
    /\ Show
    /\ UNCHANGED <<up, stored, cfg, decisions, fwd, halfway>>
ClearRecent ==
    /\ up /\ cmd.pc = "idle"
    /\ entries' = << >>
    /\ late' = {}
    /\ \/ SaveSucceeds /\ Show /\ UNCHANGED views
       \/ SaveFails /\ FailCmd
    /\ UNCHANGED <<up, stored, cfg, decisions, fwd, halfway>>

\* Promote: with bodies off nothing is entered, and the history shown again.
RestoreHistory(t) ==
    /\ up /\ cmd.pc = "idle"
    /\ \/ /\ ~ KeepsBodies(cfg)
          /\ Show
          /\ UNCHANGED <<entries, saved, unsaved, late, views>>
       \/ /\ KeepsBodies(cfg)
          /\ entries' = Prepend(entries, t, cfg.limit)
          /\ late' = {}
          /\ \/ SaveSucceeds /\ Show /\ UNCHANGED views
             \/ SaveFails /\ FailCmd
    /\ UNCHANGED <<up, stored, cfg, decisions, fwd, halfway>>

\* emitHistory takes the history, encodes it and only then takes h.mu.
ShowCmd ==
    /\ cmd.pc = "show"
    /\ cmd' = [cmd EXCEPT !.pc = "emit", !.view = Visible(entries, cfg)]
    /\ UNCHANGED <<up, entries, files, cfg, decisions, fwd, views, troubles>>

\* h.emit to the stdio host's output.  In web mode the event goes through
\* eventBus.broadcast, which drops it for a subscriber whose queue is full.
Receive(view, thread) ==
    /\ shown' = view
    /\ blurred' = (thread \in overtaken)
    /\ overtaken' = Holding \ {thread}

EmitCmd ==
    /\ cmd.pc = "emit"
    /\ Receive(cmd.view, "cmd")
    /\ cmd' = IdleCmd
    /\ UNCHANGED <<up, entries, files, cfg, decisions, fwd, troubles>>
-------------------------------------------------------------------------------
(* forwardDecisions. *)

\* Copies of h.cfg that a reader may get: during the assignment the fields of
\* the old and the new value may be mixed.
Readable ==
    IF cmd.pc # "assign" THEN {cfg}
    ELSE [retention : {cfg.retention, cmd.cfg.retention},
          limit     : {cfg.limit, cmd.cfg.limit}]

\* decisionCanEnterBodyHistory.
CanEnter(d) == d.action \in {"published", "applied"}

\* activityFromDecision copies h.cfg, and the text enters the activity only if
\* that copy keeps bodies.
TakeDecision ==
    /\ fwd.pc = "idle" /\ decisions # << >>
    /\ decisions' = Tail(decisions)
    /\ \/ /\ CanEnter(Head(decisions))
          /\ \E c \in Readable : KeepsBodies(c)
          /\ fwd' = [IdleFwd EXCEPT !.pc = "copy", !.text = Head(decisions).text]
       \/ /\ \/ ~ CanEnter(Head(decisions))
             \/ \E c \in Readable : ~ KeepsBodies(c)
          /\ UNCHANGED fwd
    /\ UNCHANGED <<up, entries, files, cfg, cmd, views, troubles>>

\* The call of AppendActivity copies h.cfg again, and goes on only if that copy
\* keeps bodies too.  NormalizeConfig may also reject a copy that was taken while
\* h.cfg was being assigned.
CopyConfig ==
    /\ fwd.pc = "copy"
    /\ \/ \E c \in Readable :
             /\ KeepsBodies(c)
             /\ fwd' = [fwd EXCEPT !.pc = "append", !.cfg = c]
       \/ /\ cmd.pc = "assign" \/ \E c \in Readable : ~ KeepsBodies(c)
          /\ fwd' = IdleFwd
    /\ UNCHANGED <<up, entries, files, cfg, decisions, cmd, views, troubles>>

\* The steps of set_config after the history was brought in line.
Installing == {"save", "engine", "assign"}

\* AppendActivity under the store's mutex.
AppendText ==
    /\ fwd.pc = "append"
    /\ entries' = Prepend(entries, fwd.text, fwd.cfg.limit)
    /\ late' = (IF fwd.cfg = cfg THEN {} ELSE {"current"}) \cup
               (IF cmd.pc \in Installing /\ fwd.cfg # cmd.cfg THEN {"next"} ELSE {})
    /\ \/ /\ SaveSucceeds
          /\ fwd' = [IdleFwd EXCEPT !.pc = "read"]
          /\ UNCHANGED views
       \/ SaveFails /\ fwd' = IdleFwd /\ NotShown("fwd")
    /\ UNCHANGED <<up, stored, cfg, decisions, cmd, halfway>>

\* emitHistory, as in ShowCmd, but h.cfg is copied before the store's mutex is
\* taken and may have changed by then.
ReadConfig ==
    /\ fwd.pc = "read"
    /\ \E c \in Readable : fwd' = [fwd EXCEPT !.pc = "list", !.cfg = c]
    /\ UNCHANGED <<up, entries, files, cfg, decisions, cmd, views, troubles>>

ListEntries ==
    /\ fwd.pc = "list"
    /\ fwd' = [IdleFwd EXCEPT !.pc = "emit", !.view = Visible(entries, fwd.cfg)]
    /\ UNCHANGED <<up, entries, files, cfg, decisions, cmd, views, troubles>>

EmitFwd ==
    /\ fwd.pc = "emit"
    /\ Receive(fwd.view, "fwd")
    /\ fwd' = IdleFwd
    /\ UNCHANGED <<up, entries, files, cfg, decisions, cmd, troubles>>
-------------------------------------------------------------------------------
Decisions == [text : Texts, action : {"applied", "pending"}]

Next ==
    \/ StartUp
    \/ Crash
    \/ \E d \in Decisions : Decide(d)
    \/ \E c \in Configs : ApplySettings(c)
    \/ SaveConfig
    \/ UpdateEngine
    \/ AssignConfig
    \/ ClearRecent
    \/ \E t \in Texts : RestoreHistory(t)
    \/ ShowCmd
    \/ EmitCmd
    \/ TakeDecision
    \/ CopyConfig
    \/ AppendText
    \/ ReadConfig
    \/ ListEntries
    \/ EmitFwd

Spec == Init /\ [][Next]_vars
-------------------------------------------------------------------------------
(* Properties. *)

Views == Seq(Texts)

\* The shape of the stores and of the two threads.
TypeOK ==
    /\ up \in BOOLEAN
    /\ entries \in Seq(Texts) /\ saved \in Seq(Texts) /\ shown \in Seq(Texts)
    /\ stored \in StoredBefore \cup Configs
    /\ cfg \in IF up THEN Configs ELSE {NoConfig}
    /\ decisions \in Seq(Decisions) /\ Len(decisions) <= QueueSize
    /\ cmd \in [pc : {"idle", "save", "engine", "assign", "show", "emit"},
                cfg : Configs \cup {NoConfig}, view : Views]
    /\ fwd \in [pc : {"idle", "copy", "append", "read", "list", "emit"},
                text : Texts \cup {NoText}, cfg : Config \cup {NoConfig},
                view : Views]
    /\ overtaken \subseteq {"cmd", "fwd"}
    /\ {unsaved, halfway, blurred} \subseteq BOOLEAN
    /\ late \subseteq {"current", "next"}

\* No text is twice in the history or in the file, whichever of the commands,
\* the forwarder and the start of the process put it there
\* (history_store.go:161-175, 220-235).
UniqueTexts ==
    /\ NoRepeats(entries)
    /\ NoRepeats(saved) \/ saved \in SavedBefore

\* As long as the last write went through, a crash loses nothing of the
\* history, and brings nothing back that was cleared or trimmed
\* (history_store.go:76, 86, 119, 145, 158).
FileFollowsMemory == up /\ ~ unsaved => Distinct(saved) = entries

\* At any moment, also half way through a set_config, the history is what the
\* configuration in force allows: no bodies when they are off, in the file either
\* unless its last write failed, and no more than the limit.  Excused is a text
\* recorded under another configuration, which a set_config has overtaken
\* (main.go:424, 592-603), and only until the history is trimmed or cleared again,
\* as it is by every clear_recent, every text recorded under the configuration in
\* force and the next set_config (history_store.go:61-90, 142-175).  For a limit of
\* one see HistoryWithinLimit.
ObeysSettings ==
    up /\ "current" \notin late =>
        IF KeepsBodies(cfg)
        THEN cfg.limit > 1 => Len(entries) <= cfg.limit
        ELSE entries = << >> /\ (~ unsaved => saved = << >>)

\* The next start takes up the configuration the process runs with, unless a
\* set_config failed after it had saved (main.go:147-163, store.go:48-60).
ConfigOnDisk ==
    up /\ cmd.pc \notin {"engine", "assign"} /\ ~ halfway => Loaded(stored) = cfg

\* When both threads are at rest the UI shows the history as it is, unless the
\* last change failed or the threads overtook each other between taking the
\* history and writing it out (main.go:468-490).
ShownIsCurrent ==
    up /\ cmd.pc = "idle" /\ fwd.pc = "idle" /\ ~ blurred =>
        shown = Visible(entries, cfg)

\* The store and its file implement a list of recent texts, of which a crash
\* leaves what was saved.
Recent == INSTANCE RecentList WITH alive <- up, list <- entries
ImplementsRecentList == Recent!Spec
-------------------------------------------------------------------------------
(* Statements of the documentation that the code does not keep. *)

\* docs/requirements/clipboard-sync.md:122: "ClipboardNode must clear persisted
\* clipboard body history when history_retention changes away from body".
RetentionOffClearsBodies ==
    up /\ cmd.pc = "idle" /\ ~ KeepsBodies(cfg) => saved = << >>

\* docs/requirements/clipboard-sync.md:95: "trim persisted body history to that
\* limit", the limit being any positive value.
HistoryWithinLimit ==
    up /\ cmd.pc = "idle" /\ fwd.pc = "idle" /\ KeepsBodies(cfg) /\ ~ unsaved
       /\ late = {} => Len(saved) <= cfg.limit
===============================================================================
