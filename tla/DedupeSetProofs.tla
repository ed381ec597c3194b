--------------------------- MODULE DedupeSetProofs ---------------------------
(***************************************************************************)
(* Either set of the runtime stays bounded and evictable, for every        *)
(* capacity and every set of values; recentEvents, on which the runtime    *)
(* never calls Consume, is moreover a recency window.                      *)
(***************************************************************************)
EXTENDS DedupeSet, BoundedStringSetProofs

\* The inductive invariant of both sets.
EvictableInv == IsEvictable(s, Values, Limit)

LEMMA EvictableInvInitial == Init => EvictableInv
<1>1. << >> \in Seq(Values) /\ IsFiniteSet({}) /\ Cardinality({}) = 0
  BY FS_EmptySet
<1>2. QED
  BY <1>1, LimitAssumption DEF Init, EvictableInv, IsEvictable, EmptyBoundedSet

LEMMA EvictableInvPreserved == EvictableInv /\ [Next]_vars => EvictableInv'
<1> SUFFICES ASSUME EvictableInv, [Next]_vars
             PROVE  IsEvictable(s', Values, Limit)
  BY DEF EvictableInv
<1>1. ASSUME NEW v \in Values, AddValue(v)
      PROVE  IsEvictable(s', Values, Limit)
  BY <1>1, AddKeepsEvictable, LimitAssumption DEF AddValue, EvictableInv
<1>2. ASSUME NEW v \in Values, ConsumeValue(v)
      PROVE  IsEvictable(s', Values, Limit)
  BY <1>2, ConsumeKeepsEvictable, LimitAssumption DEF ConsumeValue, EvictableInv
<1>3. CASE UNCHANGED vars
  BY <1>3 DEF vars, EvictableInv
<1>4. QED
  BY <1>1, <1>2, <1>3 DEF Next

\* However Add and Consume alternate, the map is within the limit and each of
\* its values can still be evicted (dedupe.go:44-59).
THEOREM SetsStayBoundedAndEvictable == Spec => []BoundedAndEvictable
<1>1. EvictableInv => BoundedAndEvictable
  BY DEF EvictableInv, IsEvictable, BoundedAndEvictable
<1>2. QED
  BY <1>1, EvictableInvInitial, EvictableInvPreserved, PTL DEF Spec

\* A value leaves the map when it is consumed, or for a new one when the map
\* is full (dedupe.go:36-46).
THEOREM NothingIsEvictedWithoutNeed == Spec => NoNeedlessEviction
<1>1. EvictableInv /\ [Next]_vars => [\A v \in s.set \ s'.set :
                                         \/ s' = Consume(s, v)
                                         \/ Cardinality(s.set) = Limit]_vars
  <2> DEFINE NoNeed == \A v \in s.set \ s'.set :
                          s' = Consume(s, v) \/ Cardinality(s.set) = Limit
  <2> SUFFICES ASSUME EvictableInv, Next
               PROVE  NoNeed
    OBVIOUS
  <2>1. ASSUME NEW v \in Values, AddValue(v)
        PROVE  NoNeed
    BY <2>1, AddKeepsEvictable, LimitAssumption DEF AddValue, EvictableInv
  <2>2. ASSUME NEW v \in Values, ConsumeValue(v)
        PROVE  NoNeed
    BY <2>2 DEF ConsumeValue, Consume
  <2>3. QED
    BY <2>1, <2>2 DEF Next
<1>2. QED
  BY <1>1, EvictableInvInitial, EvictableInvPreserved, PTL DEF Spec, NoNeedlessEviction

-------------------------------------------------------------------------------
\* The inductive invariant: map and order agree within the limit.
WindowInv == field = "recentEvents" => IsWindow(s, Values, Limit)

LEMMA WindowInvInitial == Init => WindowInv
<1>1. << >> \in Seq(Values) /\ Len(<< >>) = 0 /\ DOMAIN << >> = {}
  OBVIOUS
<1>2. QED
  BY <1>1, LimitAssumption
     DEF Init, WindowInv, IsWindow, EmptyBoundedSet, Entries

\* A step on recentEvents is a call of Add.
LEMMA RecentEventsSteps ==
    ASSUME Next, field = "recentEvents"
    PROVE  /\ field' = "recentEvents"
           /\ \E v \in Values : s' = Add(s, v, Limit)
BY DEF Next, AddValue, ConsumeValue

LEMMA WindowInvPreserved == WindowInv /\ [Next]_vars => WindowInv'
<1> SUFFICES ASSUME WindowInv, [Next]_vars, field' = "recentEvents"
             PROVE  IsWindow(s', Values, Limit)
  BY DEF WindowInv
<1>1. CASE Next
  <2>1. field = "recentEvents"
    BY <1>1 DEF Next, AddValue, ConsumeValue
  <2>2. PICK v \in Values : s' = Add(s, v, Limit)
    BY <1>1, <2>1, RecentEventsSteps
  <2>3. QED
    BY <2>1, <2>2, AddKeepsWindow, LimitAssumption DEF WindowInv
<1>2. CASE UNCHANGED vars
  BY <1>2 DEF WindowInv, vars
<1>3. QED
  BY <1>1, <1>2

\* After any calls of Add the map holds exactly the values of the insertion
\* order, each once (dedupe.go:19-29 without Consume).
THEOREM RecentEventsMapIsWindow == Spec => []MapIsWindow
<1>1. WindowInv => MapIsWindow
  BY DEF WindowInv, IsWindow, MapIsWindow
<1>2. QED
  BY <1>1, WindowInvInitial, WindowInvPreserved, PTL DEF Spec

\* A set that is only added to implements RecencyWindow: it remembers the
\* Limit most recent distinct values and forgets the oldest first.
THEOREM RecentEventsIsRecencyWindow == Spec => ImplementsWindow
<1> DEFINE window == IF field = "recentEvents" THEN s.order ELSE << >>
<1>1. Init => Window!Init
  BY DEF Init, Window!Init, EmptyBoundedSet
<1>2. WindowInv /\ [Next]_vars => [Window!Next]_window
  <2> SUFFICES ASSUME WindowInv, [Next]_vars
               PROVE  Window!Next \/ UNCHANGED window
    OBVIOUS
  <2>1. CASE UNCHANGED vars \/ field # "recentEvents"
    BY <2>1 DEF vars, Next, AddValue, ConsumeValue
  <2>2. CASE Next /\ field = "recentEvents"
    <3>1. field' = "recentEvents"
      BY <2>2, RecentEventsSteps
    <3>2. PICK v \in Values : s' = Add(s, v, Limit)
      BY <2>2, RecentEventsSteps
    <3>3. window = s.order /\ window' = s'.order
      BY <2>2, <3>1
    <3>4. CASE Holds(s, v)
      BY <2>2, <3>2, <3>3, <3>4, AddKeepsWindow, LimitAssumption DEF WindowInv
    <3>5. CASE ~ Holds(s, v)
      <4>1. s'.order = IF Len(s.order) < Limit
                       THEN Append(s.order, v)
                       ELSE Append(Tail(s.order), v)
        BY <2>2, <3>2, <3>5, AddKeepsWindow, LimitAssumption DEF WindowInv
      <4>2. ~ \E i \in DOMAIN s.order : s.order[i] = v
        BY <2>2, <3>5 DEF WindowInv, IsWindow, Entries, Holds
      <4>3. QED
        BY <2>2, <3>1, <4>1, <4>2
           DEF Window!Next, Window!Observe, Window!InWindow
    <3>6. QED
      BY <3>4, <3>5
  <2>3. QED
    BY <2>1, <2>2
<1>3. QED
  BY <1>1, <1>2, WindowInvInitial, WindowInvPreserved, PTL
     DEF Spec, ImplementsWindow, Window!Spec
===============================================================================
