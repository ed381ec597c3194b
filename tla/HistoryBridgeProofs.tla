--------------------------- MODULE HistoryBridgeProofs ---------------------------
(***************************************************************************)
(* Theorems about HistoryBridge, for every set of texts and of             *)
(* configurations, every content the files may have at the first start and *)
(* every queue.  What the operations on lists return comes first.          *)
(*                                                                         *)
(* The inductive invariants are, in the order they are proved: Types, the  *)
(* shape of the state with what each place in a thread says of its fields; *)
(* StoreInv, for the history and its file; SettingsInv, that the history   *)
(* obeys the configuration, and the next one while it is being installed;  *)
(* ConfigInv, for the configuration and its file; ViewInv, what the UI has *)
(* received or is about to receive.                                        *)
(***************************************************************************)
EXTENDS HistoryBridge, SubsequencesProofs

-------------------------------------------------------------------------------
(* The operations on lists, whatever the length. *)

\* Leaving out one text keeps the others apart.
LEMMA WithoutProperties ==
    ASSUME NEW S, NEW list \in Seq(S), NEW text
    PROVE  /\ Without(list, text) \in Seq(S)
           /\ Len(Without(list, text)) <= Len(list)
           /\ \A i \in DOMAIN Without(list, text) : Without(list, text)[i] # text
           /\ NoRepeats(list) => NoRepeats(Without(list, text))
<1> DEFINE I == {i \in DOMAIN list : list[i] # text}
<1>1. I \in SUBSET DOMAIN list /\ Without(list, text) = Picked(list, I)
  BY DEF Without
<1>2. \A i \in I : list[i] # text
  OBVIOUS
<1>3. NoRepeats(list) => \A j, k \in I : list[j] = list[k] => j = k
  BY DEF NoRepeats
<1> HIDE DEF I
<1>4. NoRepeats(list) => NoRepeats(Picked(list, I))
  BY <1>1, <1>3, PickedNoRepeats
<1>5. /\ Picked(list, I) \in Seq(S) /\ Len(Picked(list, I)) <= Len(list)
      /\ \A i \in DOMAIN Picked(list, I) : Picked(list, I)[i] # text
  BY <1>1, <1>2, PickedPlaces
<1>6. QED
  BY <1>1, <1>4, <1>5

\* No text is left twice by Distinct.
LEMMA DistinctProperties ==
    ASSUME NEW S, NEW list \in Seq(S)
    PROVE  /\ Distinct(list) \in Seq(S)
           /\ Len(Distinct(list)) <= Len(list)
           /\ NoRepeats(Distinct(list))
<1> DEFINE I == {i \in DOMAIN list : \A j \in 1 .. (i - 1) : list[j] # list[i]}
<1>1. I \in SUBSET DOMAIN list /\ Distinct(list) = Picked(list, I)
  BY DEF Distinct
<1>2. \A j, k \in I : list[j] = list[k] => j = k
  <2> SUFFICES ASSUME NEW j \in I, NEW k \in I, list[j] = list[k]
               PROVE  j = k
    OBVIOUS
  <2>1. j \in 1 .. Len(list) /\ k \in 1 .. Len(list) /\ Len(list) \in Nat
    BY LenProperties
  <2>2. ~ j < k
    BY <2>1
  <2>3. ~ k < j
    BY <2>1
  <2>4. QED
    BY <2>1, <2>2, <2>3
<1> HIDE DEF I
<1>3. QED
  BY <1>1, <1>2, PickedPlaces, PickedNoRepeats

\* Distinct changes no list without repetition, and empties no other list.
LEMMA DistinctSame ==
    ASSUME NEW S, NEW list \in Seq(S)
    PROVE  /\ NoRepeats(list) => Distinct(list) = list
           /\ Distinct(list) = << >> => list = << >>
<1> DEFINE I == {i \in DOMAIN list : \A j \in 1 .. (i - 1) : list[j] # list[i]}
<1>1. I \in SUBSET DOMAIN list /\ Distinct(list) = Picked(list, I)
  BY DEF Distinct
<1>2. DOMAIN list = 1 .. Len(list) /\ Len(list) \in Nat
  BY LenProperties
<1>3. ASSUME NoRepeats(list)
      PROVE  Distinct(list) = list
  <2>1. ASSUME NEW i \in DOMAIN list, NEW j \in 1 .. (i - 1)
        PROVE  list[j] # list[i]
    <3>1. j \in DOMAIN list /\ j # i
      BY <1>2
    <3>2. QED
      BY <1>3, <3>1 DEF NoRepeats
  <2>2. I = DOMAIN list
    BY <2>1
  <2>3. QED
    BY <1>1, <2>2, PickedAll
<1>4. ASSUME Distinct(list) = << >>
      PROVE  list = << >>
  <2>1. Cardinality(I) = 0
    <3> HIDE DEF I
    <3>1. Len(Picked(list, I)) = Cardinality(I)
      BY <1>1, PickedPlaces
    <3>2. QED
      BY <1>1, <1>4, <3>1
  <2>2. IsFiniteSet(I)
    <3> HIDE DEF I
    <3>1. QED
      BY <1>1, <1>2, Ranks
  <2>3. I = {}
    <3> HIDE DEF I
    <3>1. QED
      BY <2>1, <2>2, FS_EmptySet
  <2>4. Len(list) = 0
    <3> SUFFICES ASSUME Len(list) # 0
                 PROVE  FALSE
      OBVIOUS
    <3>1. 1 \in DOMAIN list /\ 1 .. (1 - 1) = {}
      BY <1>2
    <3>2. 1 \in I
      BY <3>1
    <3>3. QED
      BY <2>3, <3>2
  <2>5. QED
    BY <2>4, EmptySeq
<1>5. QED
  BY <1>3, <1>4

\* Newest gives a prefix.
LEMMA NewestProperties ==
    ASSUME NEW S, NEW list \in Seq(S), NEW n \in Nat
    PROVE  /\ Newest(list, n) \in Seq(S)
           /\ Len(Newest(list, n)) = IF Len(list) <= n THEN Len(list) ELSE n
           /\ DOMAIN Newest(list, n) = 1 .. Len(Newest(list, n))
           /\ \A i \in DOMAIN Newest(list, n) :
                 i \in DOMAIN list /\ Newest(list, n)[i] = list[i]
           /\ NoRepeats(list) => NoRepeats(Newest(list, n))
           /\ \E m \in 0 .. Len(list) : Newest(list, n) = Newest(list, m)
<1>1. DOMAIN list = 1 .. Len(list) /\ Len(list) \in Nat
  BY LenProperties
<1>2. CASE Len(list) <= n
  <2>1. Newest(list, n) = list /\ Newest(list, Len(list)) = list
    BY <1>1, <1>2 DEF Newest
  <2>2. QED
    BY <1>1, <1>2, <2>1
<1>3. CASE ~ Len(list) <= n
  <2>1. Newest(list, n) = SubSeq(list, 1, n)
    BY <1>3 DEF Newest
  <2>2. /\ SubSeq(list, 1, n) \in Seq(S) /\ Len(SubSeq(list, 1, n)) = n
        /\ \A i \in 1 .. n : SubSeq(list, 1, n)[i] = list[i]
    BY <1>1, <1>3
  <2>3. DOMAIN SubSeq(list, 1, n) = 1 .. n
    BY <2>2, LenProperties
  <2>4. \A i \in 1 .. n : i \in DOMAIN list
    BY <1>1, <1>3
  <2>5. NoRepeats(list) => NoRepeats(SubSeq(list, 1, n))
    BY <2>2, <2>3, <2>4 DEF NoRepeats
  <2>6. n \in 0 .. Len(list)
    BY <1>1, <1>3
  <2>7. QED
    BY <1>3, <2>1, <2>2, <2>3, <2>4, <2>5, <2>6
<1>4. QED
  BY <1>2, <1>3

\* A text put before a list without it.
LEMMA PutInFront ==
    ASSUME NEW S, NEW list \in Seq(S), NEW text \in S,
           NoRepeats(list), \A i \in DOMAIN list : list[i] # text
    PROVE  NoRepeats(<<text>> \o list)
<1>1. DOMAIN list = 1 .. Len(list) /\ Len(list) \in Nat
  BY LenProperties
<1> DEFINE whole == <<text>> \o list
<1>2. /\ DOMAIN whole = 1 .. (Len(list) + 1)
      /\ whole[1] = text
      /\ \A i \in 2 .. (Len(list) + 1) : i - 1 \in DOMAIN list /\ whole[i] = list[i - 1]
  BY <1>1
<1> HIDE DEF whole
<1> SUFFICES ASSUME NEW i \in DOMAIN whole, NEW j \in DOMAIN whole, whole[i] = whole[j]
             PROVE  i = j
  BY DEF NoRepeats, whole
<1>3. CASE i = 1 /\ j = 1
  BY <1>3
<1>4. CASE i = 1 /\ j # 1
  BY <1>1, <1>2, <1>4
<1>5. CASE i # 1 /\ j = 1
  BY <1>1, <1>2, <1>5
<1>6. CASE i # 1 /\ j # 1
  <2>1. i \in 2 .. (Len(list) + 1) /\ j \in 2 .. (Len(list) + 1)
    BY <1>1, <1>2, <1>6
  <2>2. i - 1 \in DOMAIN list /\ j - 1 \in DOMAIN list /\ list[i - 1] = list[j - 1]
    BY <1>2, <2>1
  <2>3. i - 1 = j - 1
    BY <2>2 DEF NoRepeats
  <2>4. QED
    BY <1>1, <2>1, <2>3
<1>7. QED
  BY <1>3, <1>4, <1>5, <1>6

\* A list with a text brought to the front, and some of the others.
Fronted(list, text, n) == <<text>> \o Newest(Without(list, text), n)

\* What Prepend returns: no repetition, and one entry more than the limit only
\* where the limit is one.
LEMMA PrependProperties ==
    ASSUME NEW S, NEW list \in Seq(S), NEW text \in S, NEW limit \in Nat \ {0}
    PROVE  /\ Prepend(list, text, limit) \in Seq(S)
           /\ Len(Prepend(list, text, limit)) <= IF limit = 1 THEN 2 ELSE limit
           /\ NoRepeats(list) => NoRepeats(Prepend(list, text, limit))
           /\ \E n \in 0 .. Len(list) :
                 Prepend(list, text, limit) = Fronted(list, text, n)
<1> DEFINE older == Without(list, text)
           m     == IF limit = 1 THEN 1 ELSE limit - 1
           rest  == Newest(older, m)
<1>1. /\ older \in Seq(S) /\ Len(older) <= Len(list)
      /\ \A i \in DOMAIN older : older[i] # text
      /\ NoRepeats(list) => NoRepeats(older)
  BY WithoutProperties
<1>2. m \in Nat /\ Prepend(list, text, limit) = <<text>> \o rest
  BY DEF Prepend
<1>3. Len(older) \in Nat /\ Len(list) \in Nat
  BY <1>1, LenProperties
<1> HIDE DEF older
<1>4. /\ rest \in Seq(S) /\ Len(rest) = IF Len(older) <= m THEN Len(older) ELSE m
      /\ \A i \in DOMAIN rest : i \in DOMAIN older /\ rest[i] = older[i]
      /\ NoRepeats(older) => NoRepeats(rest)
      /\ \E n \in 0 .. Len(older) : rest = Newest(older, n)
  BY <1>1, <1>2, NewestProperties
<1>5. <<text>> \o rest \in Seq(S) /\ Len(<<text>> \o rest) = Len(rest) + 1
  BY <1>4
<1>6. Len(<<text>> \o rest) <= IF limit = 1 THEN 2 ELSE limit
  BY <1>3, <1>4, <1>5
<1>7. NoRepeats(list) => NoRepeats(<<text>> \o rest)
  <2> HIDE DEF rest
  <2>1. \A i \in DOMAIN rest : rest[i] # text
    BY <1>1, <1>4
  <2>2. QED
    BY <1>1, <1>4, <2>1, PutInFront
<1>8. \E n \in 0 .. Len(list) : rest = Newest(older, n)
  BY <1>1, <1>3, <1>4
<1>9. QED
  BY <1>2, <1>5, <1>6, <1>7, <1>8 DEF older, Fronted

-------------------------------------------------------------------------------
(* Configurations. *)

\* A configuration in use is a Config.
LEMMA InUse ==
    ASSUME NEW c \in Configs
    PROVE  /\ c \in Config /\ c.retention \in Retentions /\ c.limit \in Nat \ {0}
           /\ Loaded(c) = c
<1>1. c \in Config
  BY ConfigAssumption
<1>2. c.retention \in Retentions /\ c.limit \in Nat \ {0}
  BY <1>1 DEF Config
<1>3. c.limit # Absent
  BY <1>2, ConfigAssumption
<1>4. c = [retention |-> c.retention, limit |-> c.limit]
  BY <1>1 DEF Config
<1>5. QED
  BY <1>1, <1>2, <1>3, <1>4 DEF Loaded

\* What may be seen, or remains, under a configuration is the newest part.
LEMMA Trimmed ==
    ASSUME NEW list \in Seq(Texts), NEW c \in Config \cup {NoConfig}
    PROVE  /\ Visible(list, c) \in Seq(Texts)
           /\ Kept(list, c) \in Seq(Texts)
           /\ \E n \in 0 .. Len(list) : Kept(list, c) = Newest(list, n)
           /\ NoRepeats(list) => NoRepeats(Kept(list, c))
           /\ IF KeepsBodies(c)
              THEN Len(Kept(list, c)) <= c.limit ELSE Kept(list, c) = << >>
<1>1. Len(list) \in Nat
  BY LenProperties
<1>2. CASE KeepsBodies(c)
  <2>1. c.limit \in Nat
    BY <1>2 DEF Config, NoConfig, KeepsBodies
  <2>2. Visible(list, c) = Newest(list, c.limit) /\ Kept(list, c) = Newest(list, c.limit)
    BY <1>2 DEF Visible, Kept
  <2>3. /\ Newest(list, c.limit) \in Seq(Texts)
        /\ Len(Newest(list, c.limit)) = IF Len(list) <= c.limit THEN Len(list) ELSE c.limit
        /\ NoRepeats(list) => NoRepeats(Newest(list, c.limit))
        /\ \E n \in 0 .. Len(list) : Newest(list, c.limit) = Newest(list, n)
    BY <2>1, NewestProperties
  <2>4. Len(Newest(list, c.limit)) <= c.limit
    BY <1>1, <2>1, <2>3
  <2>5. QED
    BY <1>2, <2>2, <2>3, <2>4
<1>3. CASE ~ KeepsBodies(c)
  <2>1. Visible(list, c) = << >> /\ Kept(list, c) = << >>
    BY <1>3 DEF Visible, Kept
  <2>2. << >> \in Seq(Texts) /\ NoRepeats(<< >>)
    BY DEF NoRepeats
  <2>3. Newest(list, 0) = << >>
    <3>1. Len(Newest(list, 0)) = 0 /\ Newest(list, 0) \in Seq(Texts)
      BY <1>1, NewestProperties
    <3>2. QED
      BY <3>1, EmptySeq
  <2>4. QED
    BY <1>1, <1>3, <2>1, <2>2, <2>3
<1>4. QED
  BY <1>2, <1>3
-------------------------------------------------------------------------------
(* Types. *)

Stores == entries \in Seq(Texts) /\ saved \in Seq(Texts) /\ shown \in Seq(Texts)

Settings ==
    /\ up \in BOOLEAN
    /\ stored \in StoredBefore \cup Configs
    /\ up => cfg \in Configs
    /\ ~ up => cfg = NoConfig

Queue == decisions \in Seq(Decisions) /\ Len(decisions) <= QueueSize

CmdTypes ==
    /\ cmd \in [pc : {"idle", "save", "engine", "assign", "show", "emit"},
                cfg : Configs \cup {NoConfig}, view : Views]
    /\ cmd.pc # "idle" => up
    /\ cmd.pc \in {"save", "engine", "assign"} => cmd.cfg \in Configs

FwdTypes ==
    /\ fwd \in [pc : {"idle", "copy", "append", "read", "list", "emit"},
                text : Texts \cup {NoText}, cfg : Config \cup {NoConfig},
                view : Views]
    /\ fwd.pc # "idle" => up
    /\ fwd.pc = "copy" => fwd.text \in Texts
    /\ fwd.pc = "append" =>
          fwd.text \in Texts /\ fwd.cfg \in Config /\ KeepsBodies(fwd.cfg)

Flags ==
    /\ overtaken \subseteq {"cmd", "fwd"}
    /\ unsaved \in BOOLEAN /\ halfway \in BOOLEAN
    /\ late \subseteq {"current", "next"}
    /\ blurred \in BOOLEAN

Types == Stores /\ Settings /\ Queue /\ CmdTypes /\ FwdTypes /\ Flags

LEMMA TypesGiveTypeOK == Types => TypeOK
  BY DEF Types, TypeOK, Stores, Settings, Queue, CmdTypes, FwdTypes, Flags

\* Whether each thread's step leaves the other's state alone.
LEMMA Frames ==
    ASSUME Next
    PROVE  /\ \/ StartUp \/ Crash \/ (\E c \in Configs : ApplySettings(c))
              \/ ClearRecent \/ (\E t \in Texts : RestoreHistory(t)) \/ AppendText
              \/ UNCHANGED <<up, entries, saved, unsaved>>
           /\ \/ StartUp \/ Crash \/ SaveConfig \/ AssignConfig
              \/ UNCHANGED <<up, stored, cfg>>
           /\ \/ Crash \/ (\E d \in Decisions : Decide(d)) \/ TakeDecision
              \/ UNCHANGED decisions
           /\ \/ Crash \/ TakeDecision \/ CopyConfig \/ AppendText \/ ReadConfig \/ ListEntries
              \/ EmitFwd \/ UNCHANGED fwd
           /\ \/ Crash \/ (\E c \in Configs : ApplySettings(c)) \/ SaveConfig
              \/ UpdateEngine \/ AssignConfig \/ ClearRecent
              \/ (\E t \in Texts : RestoreHistory(t)) \/ ShowCmd \/ EmitCmd
              \/ UNCHANGED cmd
<1>1. ASSUME NEW d \in Decisions, Decide(d)
      PROVE  UNCHANGED <<up, entries, saved, unsaved, stored, cfg, fwd, cmd>>
  BY <1>1 DEF Decide, files, troubles
<1>2. ASSUME NEW c \in Configs, ApplySettings(c)
      PROVE  UNCHANGED <<up, stored, cfg, decisions, fwd>>
  BY <1>2 DEF ApplySettings
<1>3. CASE StartUp
  BY <1>3 DEF StartUp
<1>4. CASE Crash
  BY <1>4
<1>5. ASSUME SaveConfig \/ UpdateEngine \/ AssignConfig
      PROVE  UNCHANGED <<up, entries, saved, unsaved, decisions, fwd>>
  BY <1>5 DEF SaveConfig, UpdateEngine, AssignConfig, files, troubles
<1>6. ASSUME UpdateEngine
      PROVE  UNCHANGED <<stored, cfg>>
  BY <1>6 DEF UpdateEngine, files
<1>7. ASSUME ClearRecent
      PROVE  UNCHANGED <<up, stored, cfg, decisions, fwd>>
  BY <1>7 DEF ClearRecent
<1>8. ASSUME NEW t \in Texts, RestoreHistory(t)
      PROVE  UNCHANGED <<up, stored, cfg, decisions, fwd>>
  BY <1>8 DEF RestoreHistory
<1>9. ASSUME ShowCmd \/ EmitCmd
      PROVE  UNCHANGED <<up, entries, saved, unsaved, stored, cfg, decisions, fwd>>
  BY <1>9 DEF ShowCmd, EmitCmd, files, troubles
<1>10. ASSUME TakeDecision
       PROVE  UNCHANGED <<up, entries, saved, unsaved, stored, cfg, cmd>>
  BY <1>10 DEF TakeDecision, files, troubles
<1>11. ASSUME AppendText
       PROVE  UNCHANGED <<up, stored, cfg, decisions, cmd>>
  BY <1>11 DEF AppendText
<1>12. ASSUME CopyConfig \/ ReadConfig \/ ListEntries \/ EmitFwd
       PROVE  UNCHANGED <<up, entries, saved, unsaved, stored, cfg, decisions, cmd>>
  BY <1>12 DEF CopyConfig, ReadConfig, ListEntries, EmitFwd, files, troubles
<1>13. QED
  BY <1>1, <1>2, <1>3, <1>4, <1>5, <1>6, <1>7, <1>8, <1>9, <1>10, <1>11, <1>12
     DEF Next
-------------------------------------------------------------------------------
(* What a step does to the history and to its file. *)

\* The outcomes of a write, or none.
Written == SaveSucceeds \/ SaveFails \/ UNCHANGED <<entries, saved, unsaved>>

\* The ways in which the history changes while the process runs.
Dropped == \E n \in 0 .. Len(entries) : entries' = Newest(entries, n)
Entered ==
    \E t \in Texts : \E n \in 0 .. Len(entries) :
        entries' = Fronted(entries, t, n)

\* A history that a command or the forwarder leaves behind.
LEMMA Changes ==
    ASSUME Types, Next, ~ StartUp, ~ Crash
    PROVE  /\ up' = up
           /\ Written
           /\ entries' \in Seq(Texts)
           /\ NoRepeats(entries) => NoRepeats(entries')
           /\ UNCHANGED <<entries, saved>> \/ (up /\ (Dropped \/ Entered))
<1>1. entries \in Seq(Texts)
  BY DEF Types, Stores
<1>2. ASSUME NEW c \in Configs, ApplySettings(c)
      PROVE  /\ up' = up /\ up
             /\ Written
             /\ entries' \in Seq(Texts)
             /\ NoRepeats(entries) => NoRepeats(entries')
             /\ Dropped
  <2>1. up' = up /\ up /\ entries' = Kept(entries, c)
    BY <1>2 DEF ApplySettings
  <2>2. Written
    <3>1. CASE entries' = entries
      BY <1>2, <3>1 DEF ApplySettings, Written, SaveSucceeds, SaveFails
    <3>2. CASE entries' # entries
      BY <1>2, <3>2 DEF ApplySettings, Written
    <3>3. QED
      BY <3>1, <3>2
  <2>3. QED
    BY <1>1, <2>1, <2>2, InUse, Trimmed DEF Dropped
<1>3. ASSUME ClearRecent
      PROVE  /\ up' = up /\ up
             /\ Written
             /\ entries' \in Seq(Texts)
             /\ NoRepeats(entries) => NoRepeats(entries')
             /\ Dropped
  <2>1. up' = up /\ up /\ entries' = << >> /\ Written
    BY <1>3 DEF ClearRecent, Written
  <2>2. /\ Kept(entries, NoConfig) = << >>
        /\ Kept(entries, NoConfig) \in Seq(Texts)
        /\ \E n \in 0 .. Len(entries) : Kept(entries, NoConfig) = Newest(entries, n)
        /\ NoRepeats(entries) => NoRepeats(Kept(entries, NoConfig))
    BY <1>1, Trimmed DEF KeepsBodies, NoConfig
  <2>3. QED
    BY <2>1, <2>2 DEF Dropped
<1>4. ASSUME NEW t \in Texts, RestoreHistory(t)
      PROVE  /\ up' = up /\ up
             /\ Written
             /\ entries' \in Seq(Texts)
             /\ NoRepeats(entries) => NoRepeats(entries')
             /\ UNCHANGED <<entries, saved>> \/ Entered
  <2>1. up' = up /\ up
    BY <1>4 DEF RestoreHistory
  <2>2. CASE ~ KeepsBodies(cfg)
    BY <1>1, <1>4, <2>1, <2>2 DEF RestoreHistory, Written
  <2>3. CASE KeepsBodies(cfg)
    <3>1. entries' = Prepend(entries, t, cfg.limit) /\ Written
      BY <1>4, <2>3 DEF RestoreHistory, Written
    <3>2. cfg.limit \in Nat \ {0}
      BY <2>1, InUse DEF Types, Settings
    <3>3. /\ Prepend(entries, t, cfg.limit) \in Seq(Texts)
          /\ NoRepeats(entries) => NoRepeats(Prepend(entries, t, cfg.limit))
          /\ \E n \in 0 .. Len(entries) :
                Prepend(entries, t, cfg.limit) = Fronted(entries, t, n)
      BY <1>1, <3>2, PrependProperties
    <3>4. Entered
      BY <3>1, <3>3, Zenon DEF Entered
    <3>5. QED
      BY <2>1, <3>1, <3>3, <3>4
  <2>4. QED
    BY <2>2, <2>3
<1>5. ASSUME AppendText
      PROVE  /\ up' = up /\ up
             /\ Written
             /\ entries' \in Seq(Texts)
             /\ NoRepeats(entries) => NoRepeats(entries')
             /\ Entered
  <2>1. up' = up /\ entries' = Prepend(entries, fwd.text, fwd.cfg.limit)
    BY <1>5 DEF AppendText
  <2>2. Written
    BY <1>5 DEF AppendText, Written
  <2>3. up /\ fwd.text \in Texts /\ fwd.cfg.limit \in Nat \ {0}
    BY <1>5 DEF AppendText, Types, FwdTypes, Config
  <2>4. ASSUME NEW t \in Texts, NEW m \in Nat \ {0}
        PROVE  /\ Prepend(entries, t, m) \in Seq(Texts)
               /\ NoRepeats(entries) => NoRepeats(Prepend(entries, t, m))
               /\ \E n \in 0 .. Len(entries) :
                     Prepend(entries, t, m) = Fronted(entries, t, n)
    BY <1>1, PrependProperties
  <2>5. Entered
    BY <2>1, <2>3, <2>4, Zenon DEF Entered
  <2>6. QED
    BY <2>1, <2>2, <2>3, <2>4, <2>5
<1>6. ASSUME UNCHANGED <<up, entries, saved, unsaved>>
      PROVE  up' = up /\ Written /\ UNCHANGED <<entries, saved>>
  BY <1>6 DEF Written
<1>7. QED
  BY <1>1, <1>2, <1>3, <1>4, <1>5, <1>6, Frames
-------------------------------------------------------------------------------
(* Types is an invariant, one part after the other. *)

LEMMA InitTypes == Init => Types
<1> SUFFICES ASSUME Init PROVE Types
  OBVIOUS
<1>1. Stores
  BY TextsAssumption DEF Init, Stores
<1>2. Settings
  BY DEF Init, Settings
<1>3. Queue
  BY QueueAssumption DEF Init, Queue
<1>4. << >> \in Views
  BY DEF Views
<1>5. CmdTypes
  BY <1>4 DEF Init, CmdTypes, IdleCmd
<1>6. FwdTypes
  BY <1>4 DEF Init, FwdTypes, IdleFwd
<1>7. Flags
  BY DEF Init, Flags
<1>8. QED
  BY <1>1, <1>2, <1>3, <1>5, <1>6, <1>7 DEF Types

\* What a file holds can be loaded.
LEMMA LoadedConfig ==
    ASSUME Settings
    PROVE  Loaded(stored) \in Configs
  BY LoadedAssumption, InUse DEF Settings

\* A start of the process.
LEMMA StartUpStores ==
    ASSUME Types, StartUp
    PROVE  /\ entries' \in Seq(Texts) /\ saved' \in Seq(Texts)
           /\ shown' \in Seq(Texts)
           /\ NoRepeats(entries')
           /\ \E n \in 0 .. Len(Distinct(saved)) : entries' = Newest(Distinct(saved), n)
           /\ IF KeepsBodies(cfg')
              THEN Len(entries') <= cfg'.limit ELSE entries' = << >>
<1>1. Distinct(saved) \in Seq(Texts) /\ NoRepeats(Distinct(saved))
  BY DistinctProperties DEF Types, Stores
<1>2. cfg' = Loaded(stored) /\ cfg' \in Configs /\ cfg' \in Config
  BY LoadedConfig, InUse DEF StartUp, Types
<1>3. entries' = Kept(Distinct(saved), cfg') /\ shown' = Visible(entries', cfg')
  BY DEF StartUp
<1>4. saved' = saved \/ saved' = entries'
  BY DEF StartUp
<1> DEFINE list == Distinct(saved)
           next == entries'
<1> HIDE DEF list, next
<1>5. /\ Kept(list, cfg') \in Seq(Texts) /\ NoRepeats(Kept(list, cfg'))
      /\ \E n \in 0 .. Len(list) : Kept(list, cfg') = Newest(list, n)
      /\ IF KeepsBodies(cfg')
         THEN Len(Kept(list, cfg')) <= cfg'.limit ELSE Kept(list, cfg') = << >>
  BY <1>1, <1>2, Trimmed DEF list
<1>6. next \in Seq(Texts) => Visible(next, cfg') \in Seq(Texts)
  BY <1>2, Trimmed
<1>7. QED
  BY <1>3, <1>4, <1>5, <1>6 DEF list, next, Types, Stores

LEMMA StoresStep ==
    ASSUME Types, Next
    PROVE  Stores'
<1>1. CASE StartUp
  BY <1>1, StartUpStores DEF Stores
<1>2. CASE Crash
  BY <1>2 DEF Crash, files, Types, Stores
<1>3. CASE ~ StartUp /\ ~ Crash
  <2>1. entries' \in Seq(Texts) /\ saved' \in Seq(Texts)
    BY <1>3, Changes DEF Written, SaveSucceeds, SaveFails, Types, Stores
  <2>2. shown' \in {shown, cmd.view, fwd.view}
    <3>1. CASE EmitCmd
      BY <3>1 DEF EmitCmd, Receive
    <3>2. CASE EmitFwd
      BY <3>2 DEF EmitFwd, Receive
    <3>3. ASSUME NEW d \in Decisions, Decide(d)
          PROVE  shown' = shown
      BY <3>3 DEF Decide, views
    <3>4. ASSUME NEW c \in Configs, ApplySettings(c)
          PROVE  shown' = shown
      BY <3>4 DEF ApplySettings, FailCmd, NotShown, views
    <3>5. CASE SaveConfig \/ UpdateEngine \/ AssignConfig
      BY <3>5 DEF SaveConfig, UpdateEngine, AssignConfig, FailCmd, NotShown, views
    <3>6. CASE ClearRecent
      BY <3>6 DEF ClearRecent, FailCmd, NotShown, views
    <3>7. ASSUME NEW t \in Texts, RestoreHistory(t)
          PROVE  shown' = shown
      BY <3>7 DEF RestoreHistory, FailCmd, NotShown, views
    <3>8. CASE ShowCmd \/ TakeDecision \/ CopyConfig \/ ReadConfig \/ ListEntries
      BY <3>8 DEF ShowCmd, TakeDecision, CopyConfig, ReadConfig, ListEntries, views
    <3>9. CASE AppendText
      BY <3>9 DEF AppendText, NotShown, views
    <3>10. QED
      BY <1>3, <3>1, <3>2, <3>3, <3>4, <3>5, <3>6, <3>7, <3>8, <3>9 DEF Next
  <2>3. cmd.view \in Seq(Texts) /\ fwd.view \in Seq(Texts)
    BY DEF Types, CmdTypes, FwdTypes, Views
  <2>4. QED
    BY <2>1, <2>2, <2>3 DEF Types, Stores
<1>4. QED
  BY <1>1, <1>2, <1>3

LEMMA SettingsStep ==
    ASSUME Types, Next
    PROVE  Settings'
<1>1. CASE StartUp
  <2>1. Loaded(stored) \in Configs
    BY LoadedConfig DEF Types
  <2>2. QED
    BY <1>1, <2>1 DEF StartUp, Types, Settings
<1>2. CASE Crash
  BY <1>2 DEF Crash, files, Types, Settings
<1>3. CASE SaveConfig
  <2>1. up /\ cmd.cfg \in Configs /\ up' = up /\ cfg' = cfg
    BY <1>3 DEF SaveConfig, Types, CmdTypes
  <2>2. stored' \in {stored, cmd.cfg}
    BY <1>3 DEF SaveConfig
  <2>3. QED
    BY <2>1, <2>2 DEF Types, Settings
<1>4. CASE AssignConfig
  <2>1. up /\ cmd.cfg \in Configs /\ up' = up /\ stored' = stored /\ cfg' = cmd.cfg
    BY <1>4 DEF AssignConfig, files, Types, CmdTypes
  <2>2. QED
    BY <2>1 DEF Types, Settings
<1>5. CASE UNCHANGED <<up, stored, cfg>>
  BY <1>5 DEF Types, Settings
<1>6. QED
  BY <1>1, <1>2, <1>3, <1>4, <1>5, Frames

LEMMA QueueStep ==
    ASSUME Types, Next
    PROVE  Queue'
<1>1. decisions \in Seq(Decisions) /\ Len(decisions) <= QueueSize /\ Len(decisions) \in Nat
  BY LenProperties DEF Types, Queue
<1>2. CASE Crash
  BY <1>2, QueueAssumption DEF Crash, Queue
<1>3. ASSUME NEW d \in Decisions, Decide(d)
      PROVE  Queue'
  <2>1. decisions' = Append(decisions, d) /\ Len(decisions) < QueueSize
    BY <1>3 DEF Decide
  <2>2. Append(decisions, d) \in Seq(Decisions) /\ Len(Append(decisions, d)) = Len(decisions) + 1
    BY <1>1, AppendProperties
  <2>3. QED
    BY <1>1, <2>1, <2>2, QueueAssumption DEF Queue
<1>4. CASE TakeDecision
  <2>1. decisions' = Tail(decisions) /\ decisions # << >>
    BY <1>4 DEF TakeDecision
  <2>2. Tail(decisions) \in Seq(Decisions) /\ Len(Tail(decisions)) = Len(decisions) - 1
    BY <1>1, <2>1
  <2>3. QED
    BY <1>1, <2>1, <2>2, QueueAssumption DEF Queue
<1>5. CASE UNCHANGED decisions
  BY <1>5 DEF Types, Queue
<1>6. QED
  BY <1>2, <1>3, <1>4, <1>5, Frames

LEMMA CmdTypesStep ==
    ASSUME Types, Next
    PROVE  CmdTypes'
<1>1. << >> \in Views
  BY DEF Views
<1>2. /\ cmd \in [pc : {"idle", "save", "engine", "assign", "show", "emit"},
                  cfg : Configs \cup {NoConfig}, view : Views]
      /\ cmd.pc # "idle" => up
      /\ cmd.pc \in {"save", "engine", "assign"} => cmd.cfg \in Configs
  BY DEF Types, CmdTypes
<1>3. ASSUME cmd' = IdleCmd
      PROVE  CmdTypes'
  BY <1>1, <1>3 DEF CmdTypes, IdleCmd
<1>4. ASSUME Show, up'
      PROVE  CmdTypes'
  <2>1. cmd' = [pc |-> "show", cfg |-> NoConfig, view |-> << >>]
    BY <1>4 DEF Show, IdleCmd
  <2>2. QED
    BY <1>1, <1>4, <2>1 DEF CmdTypes
<1>5. ASSUME NEW p \in {"engine", "assign"}, GoTo(p), up', cmd.cfg \in Configs
      PROVE  CmdTypes'
  <2>1. /\ cmd'.cfg = cmd.cfg /\ cmd'.pc = p
        /\ cmd' \in [pc : {"idle", "save", "engine", "assign", "show", "emit"},
                     cfg : Configs \cup {NoConfig}, view : Views]
    BY <1>2, <1>5 DEF GoTo
  <2>2. QED
    BY <1>5, <2>1 DEF CmdTypes
<1>6. CASE Crash
  BY <1>3, <1>6 DEF Crash
<1>7. ASSUME NEW c \in Configs, ApplySettings(c)
      PROVE  CmdTypes'
  <2>1. up' /\ (cmd' = [pc |-> "save", cfg |-> c, view |-> << >>] \/ cmd' = IdleCmd)
    BY <1>7 DEF ApplySettings, FailCmd
  <2>2. CASE cmd' = [pc |-> "save", cfg |-> c, view |-> << >>]
    BY <1>1, <2>1, <2>2 DEF CmdTypes
  <2>3. QED
    BY <1>3, <2>1, <2>2
<1>8. CASE SaveConfig
  <2>1. up' /\ cmd.cfg \in Configs /\ (GoTo("engine") \/ cmd' = IdleCmd)
    BY <1>2, <1>8 DEF SaveConfig, FailCmd
  <2>2. QED
    BY <1>3, <1>5, <2>1
<1>9. CASE UpdateEngine
  <2>1. up' /\ cmd.cfg \in Configs /\ (GoTo("assign") \/ cmd' = IdleCmd)
    BY <1>2, <1>9 DEF UpdateEngine, FailCmd
  <2>2. QED
    BY <1>3, <1>5, <2>1
<1>10. CASE AssignConfig
  BY <1>2, <1>4, <1>10 DEF AssignConfig
<1>11. CASE ClearRecent
  BY <1>3, <1>4, <1>11 DEF ClearRecent, FailCmd
<1>12. ASSUME NEW t \in Texts, RestoreHistory(t)
       PROVE  CmdTypes'
  <2>1. up' /\ (Show \/ cmd' = IdleCmd)
    BY <1>12 DEF RestoreHistory, FailCmd
  <2>2. QED
    BY <1>3, <1>4, <2>1
<1>13. CASE ShowCmd
  <2>1. up /\ up' = up /\ cmd' = [cmd EXCEPT !.pc = "emit", !.view = Visible(entries, cfg)]
    BY <1>2, <1>13 DEF ShowCmd
  <2>2. cfg \in Config
    BY <2>1, InUse DEF Types, Settings
  <2>3. Visible(entries, cfg) \in Views
    BY <2>2, Trimmed DEF Types, Stores, Views
  <2>4. /\ cmd'.pc = "emit"
        /\ cmd' \in [pc : {"idle", "save", "engine", "assign", "show", "emit"},
                     cfg : Configs \cup {NoConfig}, view : Views]
    BY <1>2, <2>1, <2>3
  <2>5. QED
    BY <2>1, <2>4 DEF CmdTypes
<1>14. CASE EmitCmd
  BY <1>3, <1>14 DEF EmitCmd
<1>15. CASE UNCHANGED cmd
  <2>1. cmd'.pc # "idle" => up'
    <3>1. CASE Crash
      BY <1>3, <3>1 DEF Crash, CmdTypes
    <3>2. CASE ~ Crash
      BY <1>2, <1>15, <3>2, Changes DEF StartUp
    <3>3. QED
      BY <3>1, <3>2
  <2>2. QED
    BY <1>2, <1>15, <2>1 DEF CmdTypes
<1>16. QED
  BY <1>6, <1>7, <1>8, <1>9, <1>10, <1>11, <1>12, <1>13, <1>14, <1>15, Frames

\* What a reader of the configuration may get is a configuration.
LEMMA ReadableConfigs ==
    ASSUME Types, up
    PROVE  Readable \subseteq Config
<1>1. cfg \in Config
  BY InUse DEF Types, Settings
<1>2. CASE cmd.pc # "assign"
  BY <1>1, <1>2 DEF Readable
<1>3. CASE cmd.pc = "assign"
  <2>1. cmd.cfg \in Config
    BY <1>3, InUse DEF Types, CmdTypes
  <2>2. QED
    BY <1>1, <1>3, <2>1 DEF Readable, Config
<1>4. QED
  BY <1>2, <1>3

\* Before the process runs there is no configuration that keeps bodies.
LEMMA ReadableWhenUp ==
    ASSUME Types, NEW c \in Readable, KeepsBodies(c)
    PROVE  up
<1>1. cmd.pc # "assign" => c = cfg
  BY DEF Readable
<1>2. ~ KeepsBodies(NoConfig)
  BY DEF KeepsBodies, NoConfig
<1>3. QED
  BY <1>1, <1>2 DEF Types, Settings, CmdTypes

LEMMA FwdTypesStep ==
    ASSUME Types, Next
    PROVE  FwdTypes'
<1> DEFINE Shape ==
      [pc : {"idle", "copy", "append", "read", "list", "emit"},
       text : Texts \cup {NoText}, cfg : Config \cup {NoConfig}, view : Views]
<1>1. << >> \in Views
  BY DEF Views
<1>2. fwd \in Shape /\ (fwd.pc # "idle" => up)
  BY DEF Types, FwdTypes
<1>3. ASSUME fwd' = IdleFwd
      PROVE  FwdTypes'
  BY <1>1, <1>3 DEF FwdTypes, IdleFwd
<1>4. ASSUME fwd' \in Shape, up', fwd'.pc \notin {"copy", "append"}
      PROVE  FwdTypes'
  BY <1>4 DEF FwdTypes
<1>5. CASE Crash
  BY <1>3, <1>5 DEF Crash
<1>6. CASE TakeDecision
  <2>1. decisions # << >> /\ decisions \in Seq(Decisions) /\ up' = up
    BY <1>6 DEF TakeDecision, Types, Queue
  <2>2. Head(decisions) \in Decisions
    BY <2>1
  <2>3. CASE UNCHANGED fwd
    <3>1. fwd.pc = "idle"
      BY <1>6 DEF TakeDecision
    <3>2. QED
      BY <1>2, <2>3, <3>1 DEF FwdTypes
  <2>4. CASE ~ UNCHANGED fwd
    <3>1. /\ \E c \in Readable : KeepsBodies(c)
          /\ fwd' = [IdleFwd EXCEPT !.pc = "copy", !.text = Head(decisions).text]
      BY <1>6, <2>4 DEF TakeDecision
    <3>2. Head(decisions).text \in Texts
      BY <2>2 DEF Decisions
    <3>3. up
      BY <3>1, ReadableWhenUp
    <3>4. fwd' = [pc |-> "copy", text |-> Head(decisions).text, cfg |-> NoConfig,
                  view |-> << >>]
      BY <3>1 DEF IdleFwd
    <3>5. QED
      BY <1>1, <2>1, <3>2, <3>3, <3>4 DEF FwdTypes
  <2>5. QED
    BY <2>3, <2>4
<1>7. CASE AppendText
  <2>1. up' /\ (fwd' = IdleFwd \/ fwd' = [IdleFwd EXCEPT !.pc = "read"])
    BY <1>2, <1>7 DEF AppendText
  <2>2. CASE fwd' = [IdleFwd EXCEPT !.pc = "read"]
    <3>1. fwd' = [pc |-> "read", text |-> NoText, cfg |-> NoConfig, view |-> << >>]
      BY <2>2 DEF IdleFwd
    <3>2. QED
      BY <1>1, <1>4, <2>1, <3>1
  <2>3. QED
    BY <1>3, <2>1, <2>2
<1>8. CASE ReadConfig
  <2>1. up /\ up' = up
    BY <1>2, <1>8 DEF ReadConfig
  <2>2. PICK c \in Readable : fwd' = [fwd EXCEPT !.pc = "list", !.cfg = c]
    BY <1>8 DEF ReadConfig
  <2>3. c \in Config
    BY <2>1, ReadableConfigs
  <2>4. fwd' \in Shape /\ fwd'.pc = "list"
    BY <1>2, <2>2, <2>3
  <2>5. QED
    BY <1>4, <2>1, <2>4
<1>9. CASE ListEntries
  <2>1. up /\ up' = up
    BY <1>2, <1>9 DEF ListEntries
  <2>2. fwd' = [pc |-> "emit", text |-> NoText, cfg |-> NoConfig,
                view |-> Visible(entries, fwd.cfg)]
    BY <1>9 DEF ListEntries, IdleFwd
  <2>3. Visible(entries, fwd.cfg) \in Views
    BY <1>2, Trimmed DEF Types, Stores, Views
  <2>4. fwd' \in Shape /\ fwd'.pc = "emit"
    BY <2>2, <2>3
  <2>5. QED
    BY <1>4, <2>1, <2>4
<1>10. CASE EmitFwd
  BY <1>3, <1>10 DEF EmitFwd
<1>13. CASE CopyConfig
  <2>1. up /\ up' = up /\ fwd.text \in Texts
    BY <1>2, <1>13 DEF CopyConfig, Types, FwdTypes
  <2>2. ASSUME NEW c \in Readable, KeepsBodies(c),
               fwd' = [fwd EXCEPT !.pc = "append", !.cfg = c]
        PROVE  FwdTypes'
    <3>1. c \in Config
      BY <2>1, ReadableConfigs
    <3>2. QED
      BY <1>2, <2>1, <2>2, <3>1 DEF FwdTypes
  <2>3. QED
    BY <1>3, <1>13, <2>2 DEF CopyConfig
<1>11. CASE UNCHANGED fwd
  <2>1. CASE Crash
    BY <1>3, <2>1 DEF Crash
  <2>2. CASE ~ Crash
    <3>1. up => up'
      BY <2>2, Changes DEF StartUp
    <3>2. QED
      BY <1>11, <3>1 DEF Types, FwdTypes
  <2>3. QED
    BY <2>1, <2>2
<1>12. QED
  BY <1>5, <1>6, <1>7, <1>8, <1>9, <1>10, <1>11, <1>13, Frames

LEMMA FlagsStep ==
    ASSUME Types, Next
    PROVE  Flags'
<1>1. /\ overtaken \subseteq {"cmd", "fwd"} /\ Holding \subseteq {"cmd", "fwd"}
      /\ unsaved \in BOOLEAN /\ halfway \in BOOLEAN
      /\ late \subseteq {"current", "next"}
      /\ blurred \in BOOLEAN
  BY DEF Types, Flags, Holding
<1>2. ASSUME NEW thread, NotShown(thread)
      PROVE  overtaken' \subseteq {"cmd", "fwd"} /\ blurred' \in BOOLEAN
  BY <1>1, <1>2 DEF NotShown
<1>3. ASSUME Receive(cmd.view, "cmd") \/ Receive(fwd.view, "fwd")
      PROVE  overtaken' \subseteq {"cmd", "fwd"} /\ blurred' \in BOOLEAN
  <2>1. overtaken' \subseteq {"cmd", "fwd"}
    BY <1>1, <1>3 DEF Receive
  <2>2. blurred' = ("cmd" \in overtaken) \/ blurred' = ("fwd" \in overtaken)
    BY <1>3 DEF Receive
  <2>3. ("cmd" \in overtaken) \in BOOLEAN /\ ("fwd" \in overtaken) \in BOOLEAN
    OBVIOUS
  <2>4. QED
    BY <2>1, <2>2, <2>3, Zenon
<1>4. ASSUME UNCHANGED views
      PROVE  overtaken' \subseteq {"cmd", "fwd"} /\ blurred' \in BOOLEAN
  BY <1>1, <1>4 DEF views
<1>5. ASSUME SaveSucceeds \/ SaveFails \/ UNCHANGED unsaved
      PROVE  unsaved' \in BOOLEAN
  BY <1>1, <1>5 DEF SaveSucceeds, SaveFails
<1>6. CASE StartUp
  BY <1>6 DEF StartUp, Flags
<1>7. CASE Crash
  BY <1>1, <1>7 DEF Crash, troubles, Flags
<1>8. ASSUME NEW d \in Decisions, Decide(d)
      PROVE  Flags'
  BY <1>1, <1>4, <1>8 DEF Decide, troubles, Flags
<1>9. ASSUME NEW c \in Configs, ApplySettings(c)
      PROVE  Flags'
  <2>1. /\ late' \subseteq late /\ halfway' = halfway
        /\ UNCHANGED views \/ NotShown("cmd")
    BY <1>9 DEF ApplySettings, FailCmd
  <2>2. SaveSucceeds \/ SaveFails \/ UNCHANGED unsaved
    <3>1. CASE entries' = entries
      BY <1>9, <3>1 DEF ApplySettings
    <3>2. CASE entries' # entries
      BY <1>9, <3>2 DEF ApplySettings
    <3>3. QED
      BY <3>1, <3>2
  <2>3. QED
    BY <1>1, <1>2, <1>4, <1>5, <2>1, <2>2 DEF Flags
<1>10. CASE SaveConfig
  BY <1>1, <1>2, <1>4, <1>10 DEF SaveConfig, FailCmd, troubles, Flags
<1>11. CASE UpdateEngine
  BY <1>1, <1>2, <1>4, <1>11 DEF UpdateEngine, FailCmd, Flags
<1>12. CASE AssignConfig
  BY <1>1, <1>4, <1>12 DEF AssignConfig, Flags
<1>13. CASE ClearRecent
  BY <1>1, <1>2, <1>4, <1>5, <1>13 DEF ClearRecent, FailCmd, Flags
<1>14. ASSUME NEW t \in Texts, RestoreHistory(t)
       PROVE  Flags'
  BY <1>1, <1>2, <1>4, <1>5, <1>14 DEF RestoreHistory, FailCmd, Flags
<1>15. CASE ShowCmd \/ TakeDecision \/ CopyConfig \/ ReadConfig \/ ListEntries
  BY <1>1, <1>4, <1>15
     DEF ShowCmd, TakeDecision, CopyConfig, ReadConfig, ListEntries, troubles, Flags
<1>16. CASE EmitCmd \/ EmitFwd
  BY <1>1, <1>3, <1>16 DEF EmitCmd, EmitFwd, troubles, Flags
<1>17. CASE AppendText
  <2>1. late' \subseteq {"current", "next"}
    BY <1>17 DEF AppendText
  <2>2. halfway' = halfway /\ (UNCHANGED views \/ NotShown("fwd"))
    BY <1>17 DEF AppendText
  <2>3. SaveSucceeds \/ SaveFails
    BY <1>17 DEF AppendText
  <2>4. QED
    BY <1>1, <1>2, <1>4, <1>5, <2>1, <2>2, <2>3 DEF Flags
<1>18. QED
  BY <1>6, <1>7, <1>8, <1>9, <1>10, <1>11, <1>12, <1>13, <1>14, <1>15, <1>16,
     <1>17 DEF Next

\* A step that changes nothing.
LEMMA Stutter ==
    ASSUME UNCHANGED vars
    PROVE  UNCHANGED <<up, entries, saved, stored, cfg, decisions, cmd, fwd, shown,
                       unsaved, late, halfway, overtaken, blurred>>
  BY DEF vars, files, views, troubles

LEMMA TypesStep == Types /\ [Next]_vars => Types'
<1>1. ASSUME Types, Next PROVE Types'
  BY <1>1, StoresStep, SettingsStep, QueueStep, CmdTypesStep, FwdTypesStep,
     FlagsStep DEF Types
<1>2. ASSUME Types, UNCHANGED vars PROVE Types'
  <2>1. Stores' /\ Queue'
    BY <1>2, Stutter DEF Types, Stores, Queue
  <2>2. Settings'
    BY <1>2, Stutter DEF Types, Settings
  <2>3. CmdTypes'
    BY <1>2, Stutter DEF Types, CmdTypes
  <2>4. FwdTypes'
    BY <1>2, Stutter DEF Types, FwdTypes
  <2>5. Flags'
    BY <1>2, Stutter DEF Types, Flags
  <2>6. QED
    BY <2>1, <2>2, <2>3, <2>4, <2>5 DEF Types
<1>3. QED
  BY <1>1, <1>2

LEMMA TypesInvariant == Spec => []Types
  BY InitTypes, TypesStep, PTL DEF Spec

\* The stores, the two threads and their queue have their shape in every
\* reachable state, whatever fails and whenever the process crashes.
THEOREM TypeCorrectness == Spec => []TypeOK
  BY TypesInvariant, TypesGiveTypeOK, PTL
-------------------------------------------------------------------------------
(* The history and its file. *)

StoreInv ==
    /\ NoRepeats(entries)
    /\ NoRepeats(saved) \/ saved \in SavedBefore
    /\ up /\ ~ unsaved => Distinct(saved) = entries

LEMMA InitStore == Init => StoreInv
  BY DEF Init, StoreInv, NoRepeats

LEMMA StoreStep == Types /\ StoreInv /\ [Next]_vars => StoreInv'
<1> SUFFICES ASSUME Types, StoreInv, [Next]_vars
             PROVE  StoreInv'
  OBVIOUS
<1>1. entries \in Seq(Texts) /\ saved \in Seq(Texts)
  BY DEF Types, Stores
<1>2. CASE StartUp
  <2>1. entries' \in Seq(Texts) /\ NoRepeats(entries')
    BY <1>2, StartUpStores
  <2> DEFINE next == entries'
  <2> HIDE DEF next
  <2>2. next \in Seq(Texts) /\ NoRepeats(next) => Distinct(next) = next
    BY DistinctSame
  <2>3. saved' = entries' \/ (saved' = saved /\ entries' = Distinct(saved))
    BY <1>2 DEF StartUp
  <2>4. CASE saved' = entries'
    BY <2>1, <2>2, <2>4 DEF next, StoreInv
  <2>5. CASE saved' = saved /\ entries' = Distinct(saved)
    BY <2>1, <2>5 DEF StoreInv
  <2>6. QED
    BY <2>3, <2>4, <2>5
<1>3. CASE Crash
  BY <1>3 DEF Crash, files, StoreInv, NoRepeats
<1>4. CASE Next /\ ~ StartUp /\ ~ Crash
  <2>1. up' = up /\ Written /\ entries' \in Seq(Texts) /\ NoRepeats(entries')
    BY <1>4, Changes DEF StoreInv
  <2> DEFINE next == entries'
  <2> HIDE DEF next
  <2>2. next \in Seq(Texts) /\ NoRepeats(next) => Distinct(next) = next
    BY DistinctSame
  <2>3. CASE SaveSucceeds
    BY <2>1, <2>2, <2>3 DEF SaveSucceeds, next, StoreInv
  <2>4. CASE SaveFails
    BY <2>1, <2>4 DEF SaveFails, StoreInv
  <2>5. CASE UNCHANGED <<entries, saved, unsaved>>
    BY <2>1, <2>5 DEF StoreInv
  <2>6. QED
    BY <2>1, <2>3, <2>4, <2>5 DEF Written
<1>5. CASE UNCHANGED vars
  BY <1>5, Stutter DEF StoreInv
<1>6. QED
  BY <1>2, <1>3, <1>4, <1>5

LEMMA StoreInvariant == Spec => []StoreInv
  BY InitStore, StoreStep, TypesInvariant, PTL DEF Spec

\* No text is twice in the history or in what was written of it, for every
\* limit and every history the first start may find.
THEOREM TextsStayUnique == Spec => []UniqueTexts
<1>1. StoreInv => UniqueTexts
  BY DEF StoreInv, UniqueTexts
<1>2. QED
  BY <1>1, StoreInvariant, PTL

\* While the last write went through, what a crash leaves is the history.
THEOREM FileIsMemory == Spec => []FileFollowsMemory
<1>1. StoreInv => FileFollowsMemory
  BY DEF StoreInv, FileFollowsMemory
<1>2. QED
  BY <1>1, StoreInvariant, PTL
-------------------------------------------------------------------------------
(* The history and the configuration. *)

Obeys(list, c) ==
    IF KeepsBodies(c)
    THEN c.limit > 1 => Len(list) <= c.limit
    ELSE list = << >>

SettingsInv ==
    up => /\ "current" \notin late => Obeys(entries, cfg)
          /\ cmd.pc \in Installing /\ "next" \notin late => Obeys(entries, cmd.cfg)

\* A part of a history obeys what the history obeys, and what is kept under a
\* configuration obeys it.
LEMMA PartObeys ==
    ASSUME NEW list \in Seq(Texts), NEW c \in Config,
           NEW n \in Nat, Obeys(list, c)
    PROVE  Obeys(Newest(list, n), c)
<1>1. Len(list) \in Nat
  BY LenProperties
<1>2. /\ Newest(list, n) \in Seq(Texts)
      /\ Len(Newest(list, n)) = IF Len(list) <= n THEN Len(list) ELSE n
  BY NewestProperties
<1>3. c.limit \in Nat
  BY DEF Config
<1>4. CASE KeepsBodies(c)
  BY <1>1, <1>2, <1>3, <1>4 DEF Obeys
<1>5. CASE ~ KeepsBodies(c)
  <2>1. Len(list) = 0
    BY <1>5, EmptySeq DEF Obeys
  <2>2. Newest(list, n) = list
    BY <2>1 DEF Newest
  <2>3. QED
    BY <2>2
<1>6. QED
  BY <1>4, <1>5

LEMMA KeptObeys ==
    ASSUME NEW list \in Seq(Texts), NEW c \in Config
    PROVE  Obeys(Kept(list, c), c)
<1>1. Kept(list, c) \in Seq(Texts)
  BY Trimmed
<1>2. IF KeepsBodies(c) THEN Len(Kept(list, c)) <= c.limit ELSE Kept(list, c) = << >>
  BY Trimmed
<1>3. c.limit \in Nat /\ Len(Kept(list, c)) \in Nat
  BY <1>1, LenProperties DEF Config
<1>4. QED
  BY <1>2, <1>3 DEF Obeys

LEMMA SettingsInvStep == Types /\ SettingsInv /\ [Next]_vars => SettingsInv'
<1> DEFINE Goal ==
      /\ "current" \notin late' => Obeys(entries', cfg')
      /\ cmd'.pc \in Installing /\ "next" \notin late' => Obeys(entries', cmd'.cfg)
<1> SUFFICES ASSUME Types, SettingsInv, [Next]_vars, up'
             PROVE  Goal
  BY DEF SettingsInv, Obeys, KeepsBodies, Installing
<1> USE DEF Installing
<1>1. entries \in Seq(Texts) /\ Len(entries) \in Nat
  BY LenProperties DEF Types, Stores
<1>2. CASE StartUp
  <2>1. cmd'.pc = "idle" /\ cfg' \in Configs
    BY <1>2, LoadedConfig DEF StartUp, Types, CmdTypes
  <2>2. QED
    BY <1>2, <2>1, StartUpStores DEF Obeys
<1>3. ASSUME up
      PROVE  /\ "current" \notin late => Obeys(entries, cfg)
             /\ cmd.pc \in Installing /\ "next" \notin late => Obeys(entries, cmd.cfg)
  BY <1>3 DEF SettingsInv
<1>4. ASSUME NEW c \in Configs, ApplySettings(c)
      PROVE  Goal
  <2>1. /\ up /\ cfg' = cfg /\ entries' = Kept(entries, c)
        /\ late' = IF c = cfg THEN {} ELSE late \ {"next"}
        /\ cmd'.pc = "idle" \/ cmd'.cfg = c
    BY <1>4 DEF ApplySettings, FailCmd, IdleCmd
  <2>2. c \in Config /\ cfg \in Config
    BY <2>1, InUse DEF Types, Settings
  <2>3. Obeys(Kept(entries, c), c)
    BY <1>1, <2>2, KeptObeys
  <2>4. PICK n \in 0 .. Len(entries) : Kept(entries, c) = Newest(entries, n)
    BY <1>1, <2>2, Trimmed
  <2>5. n \in Nat
    BY <1>1
  <2>6. Obeys(entries, cfg) => Obeys(Kept(entries, c), cfg)
    BY <1>1, <2>2, <2>4, <2>5, PartObeys
  <2>7. QED
    BY <1>3, <2>1, <2>3, <2>6
<1>5. CASE ClearRecent
  <2>1. /\ up /\ entries' = << >> /\ cfg' = cfg
        /\ cmd'.pc \in {"idle", "show"}
    BY <1>5 DEF ClearRecent, Show, FailCmd, IdleCmd
  <2>2. cfg.limit \in Nat /\ Len(<< >>) = 0
    BY <2>1, InUse DEF Types, Settings
  <2>3. QED
    BY <2>1, <2>2 DEF Obeys
<1>a. ASSUME NEW t \in Texts, NEW c \in Config, KeepsBodies(c)
      PROVE  Obeys(Prepend(entries, t, c.limit), c)
  <2>1. c.limit \in Nat \ {0}
    BY DEF Config
  <2>2. Len(Prepend(entries, t, c.limit)) <= IF c.limit = 1 THEN 2 ELSE c.limit
    BY <1>1, <2>1, PrependProperties
  <2>3. QED
    BY <1>a, <2>1, <2>2 DEF Obeys
<1>6. ASSUME NEW t \in Texts, RestoreHistory(t)
      PROVE  Goal
  <2>1. /\ up /\ cfg' = cfg /\ cmd'.pc \in {"idle", "show"} /\ cfg \in Config
    BY <1>6, InUse DEF RestoreHistory, Show, FailCmd, IdleCmd, Types, Settings
  <2>2. CASE ~ KeepsBodies(cfg)
    BY <1>3, <1>6, <2>1, <2>2 DEF RestoreHistory
  <2>3. CASE KeepsBodies(cfg)
    <3>1. entries' = Prepend(entries, t, cfg.limit)
      BY <1>6, <2>3 DEF RestoreHistory
    <3>2. QED
      BY <1>a, <2>1, <2>3, <3>1
  <2>4. QED
    BY <2>2, <2>3
<1>7. CASE AppendText
  <2>1. /\ cfg' = cfg /\ cmd' = cmd
        /\ entries' = Prepend(entries, fwd.text, fwd.cfg.limit)
        /\ "current" \notin late' => fwd.cfg = cfg
        /\ cmd.pc \in Installing /\ "next" \notin late' => fwd.cfg = cmd.cfg
        /\ fwd.text \in Texts /\ fwd.cfg \in Config /\ KeepsBodies(fwd.cfg)
    BY <1>7 DEF AppendText, Types, FwdTypes
  <2>2. Obeys(entries', fwd.cfg)
    BY <1>a, <2>1
  <2>3. QED
    BY <2>1, <2>2
<1>8. CASE AssignConfig
  <2>1. /\ up /\ entries' = entries /\ cfg' = cmd.cfg
        /\ "current" \notin late' => "next" \notin late
        /\ cmd.pc = "assign" /\ cmd'.pc = "show"
    BY <1>8 DEF AssignConfig, Show, IdleCmd, Types, CmdTypes
  <2>2. QED
    BY <1>3, <2>1
<1>9. CASE SaveConfig \/ UpdateEngine
  <2>1. /\ up /\ late' = late /\ entries' = entries /\ cfg' = cfg
        /\ cmd.pc \in {"save", "engine"}
    BY <1>9 DEF SaveConfig, UpdateEngine, files, troubles, Types, CmdTypes
  <2>2. cmd'.pc = "idle" \/ cmd'.cfg = cmd.cfg
    <3>1. cmd' = IdleCmd \/ GoTo("engine") \/ GoTo("assign")
      BY <1>9 DEF SaveConfig, UpdateEngine, FailCmd
    <3>2. QED
      BY <3>1 DEF IdleCmd, GoTo, Types, CmdTypes
  <2>3. QED
    BY <1>3, <2>1, <2>2
<1>10. ASSUME UNCHANGED <<up, late, entries, cfg>>,
              cmd' = cmd \/ cmd'.pc \in {"idle", "emit"}
       PROVE  Goal
  <2>1. up
    BY <1>10
  <2>2. QED
    BY <1>3, <1>10, <2>1
<1>11. CASE ShowCmd \/ EmitCmd
  <2>1. cmd'.pc \in {"idle", "emit"}
    <3>1. CASE ShowCmd
      <4>1. cmd' = [cmd EXCEPT !.pc = "emit", !.view = Visible(entries, cfg)]
        BY <3>1 DEF ShowCmd
      <4>2. QED
        BY <4>1 DEF Types, CmdTypes
    <3>2. CASE EmitCmd
      BY <3>2 DEF EmitCmd, IdleCmd
    <3>3. QED
      BY <1>11, <3>1, <3>2
  <2>2. QED
    BY <1>10, <1>11, <2>1 DEF ShowCmd, EmitCmd, troubles
<1>12. CASE (\E d \in Decisions : Decide(d)) \/ TakeDecision \/ CopyConfig
            \/ ReadConfig \/ ListEntries \/ EmitFwd
  BY <1>10, <1>12
     DEF Decide, TakeDecision, CopyConfig, ReadConfig, ListEntries, EmitFwd, troubles
<1>13. CASE Crash
  BY <1>13 DEF Crash
<1>14. CASE UNCHANGED vars
  BY <1>10, <1>14, Stutter
<1>15. QED
  BY <1>2, <1>4, <1>5, <1>6, <1>7, <1>8, <1>9, <1>11, <1>12, <1>13, <1>14 DEF Next

LEMMA SettingsInvariant == Spec => []SettingsInv
<1>1. Init => SettingsInv
  BY DEF Init, SettingsInv
<1>2. QED
  BY <1>1, SettingsInvStep, TypesInvariant, PTL DEF Spec

\* Whatever is installed, recorded, restored and cleared, in whichever order, and
\* whichever writes fail: the history holds no body with bodies off, nor does the
\* file unless its last write failed, and for a limit of at least two no more
\* texts than the limit, except for the time from a text that was recorded under
\* another configuration until the history is next trimmed or cleared.
THEOREM SettingsAreObeyed == Spec => []ObeysSettings
<1>1. Types /\ StoreInv /\ SettingsInv => ObeysSettings
  <2> SUFFICES ASSUME Types, StoreInv, SettingsInv, up, "current" \notin late
               PROVE  IF KeepsBodies(cfg)
                      THEN cfg.limit > 1 => Len(entries) <= cfg.limit
                      ELSE entries = << >> /\ (~ unsaved => saved = << >>)
    BY DEF ObeysSettings
  <2>1. Obeys(entries, cfg) /\ (~ unsaved => Distinct(saved) = entries)
    BY DEF SettingsInv, StoreInv
  <2>2. Distinct(saved) = << >> => saved = << >>
    BY DistinctSame DEF Types, Stores
  <2>3. QED
    BY <2>1, <2>2 DEF Obeys
<1>2. QED
  BY <1>1, TypesInvariant, StoreInvariant, SettingsInvariant, PTL
-------------------------------------------------------------------------------
(* The configuration and its file. *)

ConfigInv ==
    up => IF cmd.pc \in {"engine", "assign"}
          THEN stored = cmd.cfg
          ELSE ~ halfway => Loaded(stored) = cfg

LEMMA ConfigInvStep == Types /\ ConfigInv /\ [Next]_vars => ConfigInv'
<1> SUFFICES ASSUME Types, ConfigInv, [Next]_vars, up'
             PROVE  IF cmd'.pc \in {"engine", "assign"}
                    THEN stored' = cmd'.cfg
                    ELSE ~ halfway' => Loaded(stored') = cfg'
  BY DEF ConfigInv, Loaded
<1>1. CASE StartUp
  <2>1. cmd'.pc = "idle" /\ cfg' = Loaded(stored) /\ stored' = stored
    BY <1>1 DEF StartUp, Types, CmdTypes
  <2>2. QED
    BY <2>1
<1>2. ASSUME UNCHANGED <<up, stored, cfg, halfway>>,
             cmd' = cmd \/ {cmd.pc, cmd'.pc} \cap {"engine", "assign"} = {}
      PROVE  IF cmd'.pc \in {"engine", "assign"}
             THEN stored' = cmd'.cfg
             ELSE ~ halfway' => Loaded(stored') = cfg'
  BY <1>2 DEF ConfigInv
<1>3. ASSUME NEW c \in Configs, ApplySettings(c)
      PROVE  /\ UNCHANGED <<up, stored, cfg, halfway>>
             /\ {cmd.pc, cmd'.pc} \cap {"engine", "assign"} = {}
  BY <1>3 DEF ApplySettings, FailCmd, IdleCmd
<1>4. CASE SaveConfig
  <2>1. /\ up /\ cmd.pc = "save" /\ cfg' = cfg /\ halfway' = halfway
        /\ \/ stored' = cmd.cfg /\ GoTo("engine")
           \/ stored' = stored /\ cmd' = IdleCmd
    BY <1>4 DEF SaveConfig, FailCmd, troubles, Types, CmdTypes
  <2>2. GoTo("engine") => cmd'.pc = "engine" /\ cmd'.cfg = cmd.cfg
    BY DEF GoTo, Types, CmdTypes
  <2>3. QED
    BY <2>1, <2>2 DEF ConfigInv, IdleCmd
<1>5. CASE UpdateEngine
  <2>1. /\ up /\ cmd.pc = "engine" /\ stored' = stored /\ cfg' = cfg
        /\ \/ GoTo("assign")
           \/ halfway' = TRUE /\ cmd' = IdleCmd
    BY <1>5 DEF UpdateEngine, FailCmd, files, Types, CmdTypes
  <2>2. GoTo("assign") => cmd'.pc = "assign" /\ cmd'.cfg = cmd.cfg
    BY DEF GoTo, Types, CmdTypes
  <2>3. QED
    BY <2>1, <2>2 DEF ConfigInv, IdleCmd
<1>6. CASE AssignConfig
  <2>1. /\ up /\ cmd.pc = "assign" /\ cmd.cfg \in Configs
        /\ stored' = stored /\ cfg' = cmd.cfg /\ cmd'.pc = "show"
    BY <1>6 DEF AssignConfig, Show, IdleCmd, files, Types, CmdTypes
  <2>2. stored = cmd.cfg /\ Loaded(cmd.cfg) = cmd.cfg
    BY <2>1, InUse DEF ConfigInv
  <2>3. QED
    BY <2>1, <2>2
<1>7. CASE ClearRecent
  BY <1>2, <1>7 DEF ClearRecent, Show, FailCmd, IdleCmd
<1>8. ASSUME NEW t \in Texts, RestoreHistory(t)
      PROVE  /\ UNCHANGED <<up, stored, cfg, halfway>>
             /\ {cmd.pc, cmd'.pc} \cap {"engine", "assign"} = {}
  BY <1>8 DEF RestoreHistory, Show, FailCmd, IdleCmd
<1>9. CASE ShowCmd
  <2>1. cmd.pc = "show" /\ cmd' = [cmd EXCEPT !.pc = "emit", !.view = Visible(entries, cfg)]
    BY <1>9 DEF ShowCmd
  <2>2. cmd'.pc = "emit"
    BY <2>1 DEF Types, CmdTypes
  <2>3. QED
    BY <1>2, <1>9, <2>1, <2>2 DEF ShowCmd, files, troubles
<1>10. CASE EmitCmd
  BY <1>2, <1>10 DEF EmitCmd, IdleCmd, files, troubles
<1>11. CASE (\E d \in Decisions : Decide(d)) \/ TakeDecision \/ CopyConfig
            \/ AppendText \/ ReadConfig \/ ListEntries \/ EmitFwd
  BY <1>2, <1>11
     DEF Decide, TakeDecision, CopyConfig, AppendText, ReadConfig, ListEntries, EmitFwd,
         files, troubles
<1>12. CASE Crash
  BY <1>12 DEF Crash
<1>13. CASE UNCHANGED vars
  BY <1>2, <1>13, Stutter
<1>14. QED
  BY <1>1, <1>2, <1>3, <1>4, <1>5, <1>6, <1>7, <1>8, <1>9, <1>10, <1>11, <1>12,
     <1>13 DEF Next

\* A restart takes up the configuration in use, unless a set_config failed
\* after it had saved the next one.
THEOREM ConfigSurvives == Spec => []ConfigOnDisk
<1>1. Init => ConfigInv
  BY DEF Init, ConfigInv
<1>2. ConfigInv => ConfigOnDisk
  BY DEF ConfigInv, ConfigOnDisk
<1>3. QED
  BY <1>1, <1>2, ConfigInvStep, TypesInvariant, PTL DEF Spec
-------------------------------------------------------------------------------
(* What the UI sees. *)

\* A view is on its way that will be taken after everything that has happened.
Fresh == cmd.pc \in {"save", "engine", "assign", "show"} \/ fwd.pc = "read"

Calm == fwd.pc \in {"idle", "copy", "append"}

ViewInv ==
    up /\ ~ Fresh =>
        /\ cmd.pc = "idle" /\ Calm /\ ~ blurred => shown = Visible(entries, cfg)
        /\ cmd.pc = "emit" /\ Calm /\ "cmd" \notin overtaken =>
              cmd.view = Visible(entries, cfg)
        /\ cmd.pc = "idle" /\ fwd.pc = "list" /\ "fwd" \notin overtaken =>
              fwd.cfg = cfg
        /\ cmd.pc = "idle" /\ fwd.pc = "emit" /\ "fwd" \notin overtaken =>
              fwd.view = Visible(entries, cfg)

\* A command that fails, and a history or a configuration that changes while
\* none is on its way, leave every view on its way overtaken.
LEMMA FailedView ==
    ASSUME FailCmd, fwd' = fwd, ~ Fresh'
    PROVE  ViewInv'
<1>1. cmd'.pc = "idle" /\ blurred' = TRUE
  BY DEF FailCmd, NotShown, IdleCmd
<1>2. fwd'.pc \in {"list", "emit"} => "fwd" \in overtaken'
  BY DEF FailCmd, NotShown, Holding
<1>3. QED
  BY <1>1, <1>2 DEF ViewInv

LEMMA FreshView == Fresh' => ViewInv'
  BY DEF ViewInv

LEMMA SameView ==
    ASSUME ViewInv, UNCHANGED <<up, entries, cfg, cmd, fwd, shown, overtaken, blurred>>
    PROVE  ViewInv'
  BY DEF ViewInv, Fresh, Calm

LEMMA ViewInvStep == Types /\ ViewInv /\ [Next]_vars => ViewInv'
<1> SUFFICES ASSUME Types, ViewInv, [Next]_vars, up', ~ Fresh'
             PROVE  ViewInv'
  BY DEF ViewInv
<1>1. CASE StartUp
  <2>1. /\ cmd'.pc = "idle" /\ fwd'.pc = "idle"
        /\ shown' = Visible(entries', cfg')
    BY <1>1 DEF StartUp, Types, CmdTypes, FwdTypes
  <2>2. QED
    BY <2>1 DEF ViewInv
<1>2. CASE Crash
  BY <1>2 DEF Crash
<1>3. ASSUME NEW d \in Decisions, Decide(d)
      PROVE  ViewInv'
  BY <1>3, SameView DEF Decide, views
<1>4. ASSUME NEW c \in Configs, ApplySettings(c)
      PROVE  ViewInv'
  <2>1. FailCmd /\ fwd' = fwd
    BY <1>4 DEF ApplySettings, Fresh
  <2>2. QED
    BY <2>1, FailedView
<1>5. CASE SaveConfig
  <2>1. GoTo("engine") => cmd'.pc = "engine"
    BY DEF GoTo, Types, CmdTypes
  <2>2. FailCmd /\ fwd' = fwd
    BY <1>5, <2>1 DEF SaveConfig, Fresh
  <2>3. QED
    BY <2>2, FailedView
<1>6. CASE UpdateEngine
  <2>1. GoTo("assign") => cmd'.pc = "assign"
    BY DEF GoTo, Types, CmdTypes
  <2>2. FailCmd /\ fwd' = fwd
    BY <1>6, <2>1 DEF UpdateEngine, Fresh
  <2>3. QED
    BY <2>2, FailedView
<1>7. Show => Fresh'
  BY DEF Show, IdleCmd, Fresh
<1>8. CASE AssignConfig
  BY <1>7, <1>8 DEF AssignConfig
<1>9. CASE ClearRecent
  BY <1>7, <1>9, FailedView DEF ClearRecent
<1>10. ASSUME NEW t \in Texts, RestoreHistory(t)
       PROVE  ViewInv'
  BY <1>7, <1>10, FailedView DEF RestoreHistory
<1>11. CASE ShowCmd
  <2>1. /\ cmd' = [cmd EXCEPT !.pc = "emit", !.view = Visible(entries, cfg)]
        /\ entries' = entries /\ cfg' = cfg
    BY <1>11 DEF ShowCmd
  <2>2. cmd'.pc = "emit" /\ cmd'.view = Visible(entries, cfg)
    BY <2>1 DEF Types, CmdTypes
  <2>3. Visible(entries, cfg)' = Visible(entries, cfg)
    BY <2>1 DEF Visible, KeepsBodies, Newest
  <2>4. QED
    BY <2>2, <2>3 DEF ViewInv
<1>12. CASE EmitCmd
  <2>1. /\ cmd.pc = "emit" /\ cmd'.pc = "idle" /\ up
        /\ shown' = cmd.view /\ blurred' = ("cmd" \in overtaken)
        /\ overtaken' = Holding \ {"cmd"}
        /\ entries' = entries /\ cfg' = cfg /\ fwd' = fwd
    BY <1>12 DEF EmitCmd, Receive, IdleCmd, Types, CmdTypes
  <2>2. Visible(entries, cfg)' = Visible(entries, cfg)
    BY <2>1 DEF Visible, KeepsBodies, Newest
  <2>3. ~ Fresh
    BY <2>1 DEF Fresh
  <2>4. fwd'.pc \in {"list", "emit"} => "fwd" \in overtaken'
    BY <2>1 DEF Holding
  <2>5. Calm' /\ ~ blurred' => shown' = Visible(entries, cfg)
    BY <2>1, <2>3 DEF ViewInv, Calm
  <2>6. QED
    BY <2>1, <2>2, <2>4, <2>5 DEF ViewInv
<1>13. CASE TakeDecision \/ CopyConfig
  <2>1. /\ Calm /\ Calm'
        /\ UNCHANGED <<up, entries, cfg, cmd, shown, overtaken, blurred>>
    <3>1. fwd.pc \in {"idle", "copy"} /\ UNCHANGED <<up, entries, cfg, cmd, views>>
      BY <1>13 DEF TakeDecision, CopyConfig
    <3>2. \/ UNCHANGED fwd
          \/ fwd' = [IdleFwd EXCEPT !.pc = "copy", !.text = Head(decisions).text]
          \/ fwd' = IdleFwd
          \/ \E c \in Readable : fwd' = [fwd EXCEPT !.pc = "append", !.cfg = c]
      BY <1>13 DEF TakeDecision, CopyConfig
    <3>3. fwd'.pc \in {"idle", "copy", "append"}
      <4>1. CASE UNCHANGED fwd
        BY <3>1, <4>1
      <4>2. CASE fwd' = [IdleFwd EXCEPT !.pc = "copy", !.text = Head(decisions).text]
        BY <4>2 DEF IdleFwd
      <4>3. CASE fwd' = IdleFwd
        BY <4>3 DEF IdleFwd
      <4>4. ASSUME NEW c \in Readable, fwd' = [fwd EXCEPT !.pc = "append", !.cfg = c]
            PROVE  fwd'.pc = "append"
        BY <4>4 DEF Types, FwdTypes
      <4>5. QED
        BY <3>2, <4>1, <4>2, <4>3, <4>4
    <3>4. QED
      BY <3>1, <3>3 DEF views, Calm
  <2>2. fwd.pc \notin {"read", "list", "emit"} /\ fwd'.pc \notin {"read", "list", "emit"}
    BY <2>1 DEF Calm
  <2>3. Visible(entries, cfg)' = Visible(entries, cfg)
    BY <2>1 DEF Visible, KeepsBodies, Newest
  <2>4. QED
    BY <2>1, <2>2, <2>3 DEF ViewInv, Fresh
<1>14. CASE AppendText
  <2>1. fwd' # [IdleFwd EXCEPT !.pc = "read"]
    BY DEF IdleFwd, Fresh
  <2>2. fwd' = IdleFwd /\ NotShown("fwd") /\ cmd' = cmd
    BY <1>14, <2>1 DEF AppendText
  <2>3. fwd'.pc = "idle" /\ blurred' = TRUE
    BY <2>2 DEF IdleFwd, NotShown
  <2>4. cmd'.pc = "emit" => "cmd" \in overtaken'
    BY <2>2 DEF NotShown, Holding
  <2>5. QED
    BY <2>3, <2>4 DEF ViewInv
<1>15. CASE ReadConfig
  <2>1. PICK c \in Readable : fwd' = [fwd EXCEPT !.pc = "list", !.cfg = c]
    BY <1>15 DEF ReadConfig
  <2>2. fwd'.pc = "list" /\ fwd'.cfg = c
    BY <2>1 DEF Types, FwdTypes
  <2>3. cmd' = cmd /\ cfg' = cfg /\ (cmd.pc = "idle" => c = cfg)
    BY <1>15, <2>1 DEF ReadConfig, Readable
  <2>4. QED
    BY <2>2, <2>3 DEF ViewInv, Calm
<1>16. CASE ListEntries
  <2>1. /\ fwd.pc = "list"
        /\ fwd'.pc = "emit" /\ fwd'.view = Visible(entries, fwd.cfg)
        /\ UNCHANGED <<up, entries, cfg, cmd, overtaken>>
    BY <1>16 DEF ListEntries, IdleFwd, views
  <2>2. Visible(entries, cfg)' = Visible(entries, cfg)
    BY <2>1 DEF Visible, KeepsBodies, Newest
  <2>3. up /\ cmd.pc = "idle" /\ "fwd" \notin overtaken => fwd.cfg = cfg
    BY <2>1 DEF ViewInv, Fresh
  <2>4. QED
    BY <2>1, <2>2, <2>3 DEF ViewInv, Calm
<1>17. CASE EmitFwd
  <2>1. /\ fwd.pc = "emit" /\ fwd'.pc = "idle"
        /\ shown' = fwd.view /\ blurred' = ("fwd" \in overtaken)
        /\ overtaken' = Holding \ {"fwd"}
        /\ UNCHANGED <<up, entries, cfg, cmd>>
    BY <1>17 DEF EmitFwd, Receive, IdleFwd
  <2>2. Visible(entries, cfg)' = Visible(entries, cfg)
    BY <2>1 DEF Visible, KeepsBodies, Newest
  <2>3. cmd'.pc = "emit" => "cmd" \in overtaken'
    BY <2>1 DEF Holding
  <2>4. cmd'.pc = "idle" /\ ~ blurred' => shown' = Visible(entries, cfg)
    BY <2>1 DEF ViewInv, Fresh
  <2>5. QED
    BY <2>1, <2>2, <2>3, <2>4 DEF ViewInv
<1>18. CASE UNCHANGED vars
  BY <1>18, Stutter, SameView
<1>19. QED
  BY <1>1, <1>2, <1>3, <1>4, <1>5, <1>6, <1>8, <1>9, <1>10, <1>11, <1>12, <1>13,
     <1>14, <1>15, <1>16, <1>17, <1>18 DEF Next

\* When both threads are at rest, the UI shows the history as it is, unless the
\* last change failed or one view overtook another.
THEOREM UiIsCurrent == Spec => []ShownIsCurrent
<1>1. Init => ViewInv
  BY DEF Init, ViewInv
<1>2. ViewInv => ShownIsCurrent
  BY DEF ViewInv, ShownIsCurrent, Fresh, Calm
<1>3. QED
  BY <1>1, <1>2, ViewInvStep, TypesInvariant, PTL DEF Spec
-------------------------------------------------------------------------------
(* The refinement. *)

LEMMA InitRecent == Init => Recent!Init
  BY DEF Init, Recent!Init

\* The abstract list has the operators of this one: an index is picked for each
\* place, and there is only one to pick.
LEMMA SamePicked ==
    ASSUME NEW list \in Seq(Texts), NEW I \in SUBSET DOMAIN list
    PROVE  Recent!Picked(list, I) = Picked(list, I)
<1>1. \A S : Recent!Cardinality(S) = Cardinality(S)
  BY Zenon DEF Recent!Cardinality, Cardinality
<1>2. DOMAIN list = 1 .. Len(list) /\ Len(list) \in Nat
  BY LenProperties
<1> DEFINE pick(i) == CHOOSE k \in I : Recent!Cardinality(I \cap (1 .. k)) = i
<1>3. ASSUME NEW i \in 1 .. Cardinality(I)
      PROVE  pick(i) = Place(I, i)
  <2>1. \E k \in I : Rank(I, k) = i
    BY <1>2, Ranks
  <2>2. \E k \in I : Recent!Cardinality(I \cap (1 .. k)) = i
    BY <1>1, <2>1 DEF Rank
  <2>3. pick(i) \in I /\ Recent!Cardinality(I \cap (1 .. pick(i))) = i
    BY <2>2
  <2> HIDE DEF pick
  <2>4. pick(i) \in I /\ Rank(I, pick(i)) = i
    BY <1>1, <2>3 DEF Rank
  <2>5. Place(I, i) \in I /\ Rank(I, Place(I, i)) = i
    BY PickedPlaces
  <2>6. QED
    BY <1>2, <2>4, <2>5, Ranks
<1>4. Recent!Picked(list, I) = [i \in 1 .. Cardinality(I) |-> list[pick(i)]]
  BY <1>1 DEF Recent!Picked
<1>5. Picked(list, I) = [i \in 1 .. Cardinality(I) |-> list[Place(I, i)]]
  BY DEF Picked, Place, Rank
<1> HIDE DEF pick
<1>6. QED
  BY <1>3, <1>4, <1>5

LEMMA SameOperators ==
    ASSUME NEW list \in Seq(Texts)
    PROVE  /\ \A n : Recent!Newest(list, n) = Newest(list, n)
           /\ \A text : Recent!Without(list, text) = Without(list, text)
           /\ Recent!Distinct(list) = Distinct(list)
<1>1. \A n : Recent!Newest(list, n) = Newest(list, n)
  BY Zenon DEF Recent!Newest, Newest
<1>2. ASSUME NEW text
      PROVE  Recent!Without(list, text) = Without(list, text)
  <2> DEFINE I == {i \in DOMAIN list : list[i] # text}
  <2>1. Recent!Without(list, text) = Recent!Picked(list, I)
    BY DEF Recent!Without
  <2>2. Without(list, text) = Picked(list, I) /\ I \in SUBSET DOMAIN list
    BY DEF Without
  <2> HIDE DEF I
  <2>3. QED
    BY <2>1, <2>2, SamePicked
<1>3. Recent!Distinct(list) = Distinct(list)
  <2> DEFINE I == {i \in DOMAIN list : \A j \in 1 .. (i - 1) : list[j] # list[i]}
  <2>1. Recent!Distinct(list) = Recent!Picked(list, I)
    BY DEF Recent!Distinct
  <2>2. Distinct(list) = Picked(list, I) /\ I \in SUBSET DOMAIN list
    BY DEF Distinct
  <2> HIDE DEF I
  <2>3. QED
    BY <2>1, <2>2, SamePicked
<1>4. QED
  BY <1>1, <1>2, <1>3

LEMMA StepRecent ==
    Types /\ [Next]_vars => [Recent!Next]_<<up, entries, saved>>
<1> SUFFICES ASSUME Types, [Next]_vars
             PROVE  Recent!Next \/ UNCHANGED <<up, entries, saved>>
  OBVIOUS
<1> entries \in Seq(Texts) /\ saved \in Seq(Texts)
  BY DEF Types, Stores
<1>1. CASE StartUp
  <2>1. /\ Distinct(saved) \in Seq(Texts) /\ Len(Distinct(saved)) <= Len(saved)
        /\ Len(Distinct(saved)) \in Nat /\ Len(saved) \in Nat
    BY DistinctProperties, LenProperties DEF Types, Stores
  <2>2. PICK n \in 0 .. Len(Distinct(saved)) : entries' = Newest(Distinct(saved), n)
    BY <1>1, StartUpStores
  <2>3. n \in 0 .. Len(saved)
    BY <2>1
  <2>4. ~ up /\ up' /\ saved' \in {entries', saved}
    BY <1>1 DEF StartUp
  <2>5. Recent!Load
    BY <2>1, <2>2, <2>3, <2>4, SameOperators DEF Recent!Load, Recent!Save
  <2>6. QED
    BY <2>5 DEF Recent!Next
<1>2. CASE Crash
  BY <1>2 DEF Crash, files, Recent!Next, Recent!Forget
<1>3. CASE Next /\ ~ StartUp /\ ~ Crash
  <2>1. CASE UNCHANGED <<entries, saved>>
    BY <1>3, <2>1, Changes
  <2>2. CASE ~ UNCHANGED <<entries, saved>>
    <3>1. up /\ up' /\ Written /\ (Dropped \/ Entered)
      BY <1>3, <2>2, Changes
    <3>2. saved' \in {entries', saved}
      BY <3>1 DEF Written, SaveSucceeds, SaveFails
    <3>3. CASE Dropped
      <4>1. Recent!Drop
        BY <3>1, <3>2, <3>3, SameOperators DEF Dropped, Recent!Drop, Recent!Save
      <4>2. QED
        BY <4>1 DEF Recent!Next
    <3>4. CASE Entered
      <4>1. PICK t \in Texts, n \in 0 .. Len(entries) : entries' = Fronted(entries, t, n)
        BY <3>4 DEF Entered
      <4>2. Without(entries, t) \in Seq(Texts)
        BY WithoutProperties
      <4>3. Recent!Newest(Recent!Without(entries, t), n) = Newest(Without(entries, t), n)
        BY <4>2, SameOperators
      <4>4. entries' = <<t>> \o Recent!Newest(Recent!Without(entries, t), n)
        BY <4>1, <4>3 DEF Fronted
      <4>5. Recent!Enter(t)
        BY <3>1, <3>2, <4>4 DEF Recent!Enter, Recent!Save
      <4>6. QED
        BY <4>5 DEF Recent!Next
    <3>5. QED
      BY <3>1, <3>3, <3>4
  <2>3. QED
    BY <2>1, <2>2
<1>4. CASE UNCHANGED vars
  BY <1>4, Stutter
<1>5. QED
  BY <1>1, <1>2, <1>3, <1>4

\* The store and its file are a list of recent texts, each step of every
\* command, of the forwarder, of a start and of a crash being one of its steps
\* or none.
THEOREM StoreIsRecentList == Spec => ImplementsRecentList
<1>1. Types /\ [Next]_vars => [Recent!Next]_<<up, entries, saved>>
  BY StepRecent
<1>2. QED
  BY <1>1, InitRecent, TypesInvariant, PTL
     DEF Spec, ImplementsRecentList, Recent!Spec
===============================================================================
