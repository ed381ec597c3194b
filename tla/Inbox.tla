--------------------------------- MODULE Inbox ---------------------------------
(***************************************************************************)
(* What a node promises about the events it receives, told without threads *)
(* and without what a call keeps from one critical section to the next:    *)
(* the texts that wait for the user, a window of the events that are       *)
(* settled, and when a text may be put on the clipboard.  Applying a text  *)
(* is two steps, it is shown and later settled; every other call is one.   *)
(*                                                                         *)
(* An event is in one place at a time.  A text is settled once it has been *)
(* shown, or when the full inbox gives it up, which it does to the oldest  *)
(* one.  A text is shown again only after the window has forgotten it.     *)
(***************************************************************************)
EXTENDS Subsequences

CONSTANTS TextEvents,   \* events that carry a text
          OtherEvents,  \* events that are only noted
          Capacity      \* of the inbox and of the window

VARIABLES waiting,    \* events offered to the user, in order of arrival
          settled,    \* the window, in order of settlement
          shown,      \* events whose text was put on the clipboard
          again,      \* those that were so more than once
          forgotten   \* events the window no longer remembers

vars == <<waiting, settled, shown, again, forgotten>>

Init ==
    /\ waiting = << >> /\ settled = << >>
    /\ shown = {} /\ again = {} /\ forgotten = {}

\* An event enters the window; the oldest one leaves a full window.
Remember(id) ==
    /\ settled' = IF id \in Entries(settled) THEN settled
                  ELSE IF Len(settled) < Capacity THEN Append(settled, id)
                  ELSE Append(Tail(settled), id)
    /\ forgotten' = forgotten \cup (Entries(settled) \ Entries(settled'))

\* A text is offered to the user; the oldest one leaves a full inbox and is
\* settled by that.
Offer(id) ==
    /\ id \notin Entries(waiting) \cup Entries(settled)
    /\ \/ /\ Len(waiting) < Capacity
          /\ waiting' = Append(waiting, id)
          /\ UNCHANGED <<settled, forgotten>>
       \/ /\ Len(waiting) = Capacity
          /\ waiting' = Append(Tail(waiting), id)
          /\ Remember(Head(waiting))
    /\ UNCHANGED <<shown, again>>

\* A text is put on the clipboard.
Show(id) ==
    /\ id \in shown => id \in forgotten
    /\ shown' = shown \cup {id}
    /\ again' = IF id \in shown THEN again \cup {id} ELSE again
    /\ UNCHANGED <<waiting, settled, forgotten>>

\* An event leaves the inbox, if it is there; the others keep their order.
Leave(id) ==
    \/ id \notin Entries(waiting) /\ UNCHANGED waiting
    \/ \E k \in DOMAIN waiting :
          /\ waiting[k] = id
          /\ waiting' = SubSeq(waiting, 1, k - 1) \o
                        SubSeq(waiting, k + 1, Len(waiting))

\* A text that was shown is settled.
Settle(id) ==
    /\ id \in shown
    /\ Leave(id)
    /\ Remember(id)
    /\ UNCHANGED <<shown, again>>

\* An event without a text is settled at once.
Note(id) == Remember(id) /\ UNCHANGED <<waiting, shown, again>>

\* The inbox is emptied; its events are as if they had never arrived.
Withdraw == waiting' = << >> /\ UNCHANGED <<settled, shown, again, forgotten>>

Next ==
    \/ \E id \in TextEvents : Offer(id) \/ Show(id) \/ Settle(id)
    \/ \E id \in OtherEvents : Note(id)
    \/ Withdraw

Spec == Init /\ [][Next]_vars
===============================================================================
