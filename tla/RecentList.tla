------------------------------ MODULE RecentList ------------------------------
(***************************************************************************)
(* What the body history promises, whoever calls it and whatever fails: a  *)
(* list of texts, the most recently entered first and each of them once,   *)
(* of which any number of old ones may have been dropped; what was saved   *)
(* is the list as it was after some step since the list was loaded, or     *)
(* what was saved before.  Only what was saved survives a crash.           *)
(***************************************************************************)
EXTENDS HistoryLists

CONSTANTS Texts,       \* what can be entered
          SavedBefore  \* what the process may find at its first start

VARIABLES alive,  \* whether the process runs
          list,   \* the history
          saved   \* what survives

\* Saving may fail.
Save == saved' \in {list', saved}

Init == alive = FALSE /\ list = << >> /\ saved \in SavedBefore

\* A text moves or comes to the front; old entries may be dropped.
Enter(t) ==
    /\ alive /\ alive'
    /\ \E n \in 0 .. Len(list) : list' = <<t>> \o Newest(Without(list, t), n)
    /\ Save

\* Old entries are dropped.
Drop ==
    /\ alive /\ alive'
    /\ \E n \in 0 .. Len(list) : list' = Newest(list, n)
    /\ Save

\* A start of the process takes up what was saved, or its newest part.
Load ==
    /\ ~ alive /\ alive'
    /\ \E n \in 0 .. Len(saved) : list' = Newest(Distinct(saved), n)
    /\ Save

\* A crash forgets the list.
Forget == ~ alive' /\ list' = << >> /\ UNCHANGED saved

Next ==
    \/ \E t \in Texts : Enter(t)
    \/ Drop
    \/ Load
    \/ Forget

Spec == Init /\ [][Next]_<<alive, list, saved>>
===============================================================================
