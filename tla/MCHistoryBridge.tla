---------------------------- MODULE MCHistoryBridge ----------------------------
(***************************************************************************)
(* Instances of HistoryBridge.  The first start may find a history with a  *)
(* repeated text and more entries than the limit, and a config.json from   *)
(* before history_limit existed.                                           *)
(***************************************************************************)
EXTENDS HistoryBridge, TLC

CONSTANTS t1, t2, t3

MkConfig(retention, limit) == [retention |-> retention, limit |-> limit]

AllConfigs == {MkConfig("body", 1), MkConfig("body", 2), MkConfig("metadata", 1)}
AnyStored  == {MkConfig("metadata", Absent), MkConfig("metadata", 1)}
SameTexts  == Permutations(Texts)
AnySaved   == {<< >>} \cup {<<p[t1], p[t2], p[t1], p[t3]>> : p \in SameTexts}

\* The operators on lists agree with the community module's.
LOCAL INSTANCE SequencesExt
Lists == UNION {[1 .. n -> Texts] : n \in 0 .. 4}
ASSUME ListsAgree ==
    \A l \in Lists :
        /\ \A t \in Texts : Without(l, t) = Remove(l, t)
        /\ ToSet(Distinct(l)) = ToSet(l) /\ NoRepeats(Distinct(l))
===============================================================================
