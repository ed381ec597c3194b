-------------------------- MODULE MCClipboardRuntime --------------------------
(***************************************************************************)
(* Instances of ClipboardRuntime.  t1 and t2 fit inline, big does not,     *)
(* bad passes no validation; e1 .. e3 are text events, m1 is a manifest.   *)
(***************************************************************************)
EXTENDS ClipboardRuntime, TLC

CONSTANTS t1, t2, big, bad, e1, e2, e3, m1, o1, o2, o3, topicA, topicB

MkConfig(enabled, watchIt, apply, syncTo, publishTo, transfer) ==
    [enabled |-> enabled, autoWatch |-> watchIt, autoApply |-> apply,
     inline |-> Texts \ {big}, syncTo |-> syncTo, publishTo |-> publishTo,
     transfer |-> transfer]

Off         == MkConfig(FALSE, FALSE, FALSE, {topicA}, <<topicA>>, FALSE)
Manual      == MkConfig(TRUE, FALSE, FALSE, {topicA}, << >>, FALSE)
Auto        == MkConfig(TRUE, FALSE, TRUE, {topicA}, << >>, FALSE)
WatchApply  == MkConfig(TRUE, TRUE, TRUE, {topicA}, <<topicA>>, FALSE)
FanOut      == MkConfig(TRUE, TRUE, TRUE, {topicA}, <<topicA, topicB>>, TRUE)
Narrow      == MkConfig(TRUE, TRUE, TRUE, {topicA}, <<topicB>>, FALSE)
NoTargets   == MkConfig(TRUE, FALSE, TRUE, {topicA}, << >>, TRUE)

ReceiveConfigs == {Off, Manual, Auto}
SendConfigs    == {Off, FanOut, Narrow, NoTargets}
LoopConfigs    == {Off, WatchApply}

ReceiveTexts == [e \in {e1, e2, e3, m1} |-> IF e = e2 THEN t2 ELSE t1]
LoopTexts    == [e \in {e1} |-> t1]

\* RandomEventID draws any id that is not used.
IdSymmetry == Permutations(OwnIds)
===============================================================================
