------------------------------ MODULE DedupeSet ------------------------------
(***************************************************************************)
(* One boundedStringSet under any sequence of the calls that the runtime   *)
(* makes on it: Add and Consume on suppressHashes, Add alone on            *)
(* recentEvents.                                                           *)
(***************************************************************************)
EXTENDS BoundedStringSet

CONSTANTS Values,    \* the non-empty strings callers add
          Limit,     \* the limit given to newBoundedStringSet
          MaxOrder   \* bound on Len(order), which the code does not bound

ASSUME LimitAssumption == Limit \in Nat \ {0}
ASSUME MaxOrderAssumption == MaxOrder \in Nat /\ MaxOrder >= Limit

VARIABLES s,      \* the set
          field   \* the field of Runtime that holds it

vars == <<s, field>>

Init ==
    /\ s = EmptyBoundedSet
    /\ field \in {"recentEvents", "suppressHashes"}

AddValue(v) ==
    /\ Len(s.order) <= MaxOrder
    /\ s' = Add(s, v, Limit)
    /\ UNCHANGED field

ConsumeValue(v) ==
    /\ field = "suppressHashes"
    /\ s' = Consume(s, v)
    /\ UNCHANGED field

Next == \E v \in Values : AddValue(v) \/ ConsumeValue(v)

Spec == Init /\ [][Next]_vars
-------------------------------------------------------------------------------
\* The shape of the set and what trim maintains, however Add and Consume
\* alternate: the map is within the limit, and every value of it can still be
\* evicted; trim pops values it finds in `order', so a member missing there
\* would stay for ever (dedupe.go:45-58).
BoundedAndEvictable ==
    /\ s \in [set : SUBSET Values, order : Seq(Values)]
    /\ Cardinality(s.set) <= Limit
    /\ s.set \subseteq Entries(s.order)

\* Consume takes away one value and never disturbs another (dedupe.go:36-42),
\* and Add evicts nothing while the map has room (dedupe.go:45).
NoNeedlessEviction ==
    [][\A v \in s.set \ s'.set :
          \/ s' = Consume(s, v)
          \/ Cardinality(s.set) = Limit]_vars

\* On a set that is never consumed, `order' is the window: after any calls
\* of Add the map holds exactly its values, each of them once (dedupe.go:19-29).
MapIsWindow ==
    field = "recentEvents" =>
    /\ s.set = Entries(s.order)
    /\ \A i, j \in DOMAIN s.order : s.order[i] = s.order[j] => i = j

\* A set that is never consumed implements the recency window.
Window == INSTANCE RecencyWindow
          WITH window <- IF field = "recentEvents" THEN s.order ELSE << >>
ImplementsWindow == Window!Spec
===============================================================================
