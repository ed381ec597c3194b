-------------------------- MODULE MobileClipboardProofs --------------------------
(***************************************************************************)
(* Theorems about MobileClipboard, for all texts, policies and queue       *)
(* sizes.  Shape is the shape of the state with what each place of the     *)
(* main thread says of the engine; PollInv relates the policy of the host  *)
(* to the mode of the runtime; NewestInv follows the last application      *)
(* recorded through the two queues, beside the slot.                       *)
(***************************************************************************)
EXTENDS MobileClipboard, SubsequencesProofs

Applied == Remote \cup {NoText}
-------------------------------------------------------------------------------
(* The newest application in a list. *)

\* t is the last application in the list.
IsNewest(list, t) ==
    \E i \in Applications(list) :
        list[i] = t /\ \A j \in Applications(list) : j <= i

LEMMA NewestIsChosen ==
    ASSUME NEW list \in Seq(Applied)
    PROVE  /\ \A t : IsNewest(list, t) => NewestOf(list) = t
           /\ Applications(list) # {} => NewestOf(list) \in Remote
<1>1. DOMAIN list = 1 .. Len(list) /\ Len(list) \in Nat
  BY LenProperties
<1>2. Applications(list) \in SUBSET (1 .. Len(list))
  BY <1>1 DEF Applications
<1> DEFINE Final(i) == i \in Applications(list) /\ \A j \in Applications(list) : j <= i
<1>3. \A i, k : Final(i) /\ Final(k) => i = k
  BY <1>2
<1>4. ASSUME NEW k, Final(k)
      PROVE  NewestOf(list) = list[k]
  <2> DEFINE c == CHOOSE i \in Applications(list) : \A j \in Applications(list) : j <= i
  <2>1. Final(c)
    BY <1>4
  <2>2. c = k
    <3> HIDE DEF c, Final
    <3>1. QED
      BY <1>3, <1>4, <2>1
  <2>3. QED
    BY <2>2 DEF NewestOf
<1>5. ASSUME NEW t, IsNewest(list, t)
      PROVE  NewestOf(list) = t
  BY <1>4, <1>5 DEF IsNewest
<1>6. ASSUME Applications(list) # {}
      PROVE  NewestOf(list) \in Remote
  <2>1. PICK k \in Applications(list) : \A j \in Applications(list) : j <= k
    BY <1>1, <1>2, <1>6, LastPlace
  <2>2. list[k] \in Remote
    BY <1>1, <2>1, ElementOfSeq DEF Applications, Applied
  <2>3. QED
    BY <1>4, <2>1, <2>2
<1>7. QED
  BY <1>5, <1>6

\* A decision joins a list.
LEMMA NewestOfAppend ==
    ASSUME NEW list \in Seq(Applied), NEW d \in Applied
    PROVE  /\ d # NoText => Applications(Append(list, d)) # {} /\ IsNewest(Append(list, d), d)
           /\ d = NoText =>
                 /\ Applications(Append(list, d)) = Applications(list)
                 /\ \A t : IsNewest(list, t) => IsNewest(Append(list, d), t)
<1> DEFINE next == Append(list, d)
<1>1. DOMAIN list = 1 .. Len(list) /\ Len(list) \in Nat
  BY LenProperties
<1>2. /\ DOMAIN next = 1 .. (Len(list) + 1)
      /\ \A i \in 1 .. Len(list) : next[i] = list[i]
      /\ next[Len(list) + 1] = d
  BY <1>1, AppendProperties
<1> HIDE DEF next
<1>3. ASSUME d # NoText
      PROVE  Applications(next) # {} /\ IsNewest(next, d)
  <2>1. Len(list) + 1 \in Applications(next)
    BY <1>1, <1>2, <1>3 DEF Applications
  <2>2. \A j \in Applications(next) : j <= Len(list) + 1
    BY <1>1, <1>2 DEF Applications
  <2>3. QED
    BY <1>2, <2>1, <2>2 DEF IsNewest
<1>4. ASSUME d = NoText
      PROVE  /\ Applications(next) = Applications(list)
             /\ \A t : IsNewest(list, t) => IsNewest(next, t)
  <2>1. Applications(next) = Applications(list)
    BY <1>1, <1>2, <1>4 DEF Applications
  <2>2. \A i \in Applications(list) : next[i] = list[i]
    BY <1>1, <1>2 DEF Applications
  <2>3. QED
    BY <2>1, <2>2 DEF IsNewest
<1>5. QED
  BY <1>3, <1>4 DEF next

\* A decision leaves a list.
LEMMA NewestOfTail ==
    ASSUME NEW list \in Seq(Applied), list # << >>
    PROVE  /\ Head(list) \in Applied /\ Tail(list) \in Seq(Applied)
           /\ Applications(Tail(list)) # {} =>
                 /\ Applications(list) # {}
                 /\ \A t : IsNewest(list, t) => IsNewest(Tail(list), t)
           /\ Applications(Tail(list)) = {} /\ Head(list) # NoText =>
                 /\ Applications(list) # {}
                 /\ \A t : IsNewest(list, t) => t = Head(list)
           /\ Applications(Tail(list)) = {} /\ Head(list) = NoText =>
                 Applications(list) = {}
<1> DEFINE rest == Tail(list)
           n    == Len(list)
<1>1. /\ DOMAIN list = 1 .. n /\ n \in Nat \ {0}
      /\ Head(list) = list[1] /\ list[1] \in Applied
      /\ rest \in Seq(Applied) /\ DOMAIN rest = 1 .. (n - 1)
      /\ \A i \in 1 .. (n - 1) : rest[i] = list[i + 1]
  <2>1. n \in Nat \ {0} /\ DOMAIN list = 1 .. n
    BY EmptySeq, LenProperties
  <2>2. 1 \in 1 .. n
    BY <2>1
  <2>3. Head(list) = list[1] /\ list[1] \in Applied
    BY <2>2, ElementOfSeq
  <2>4. rest \in Seq(Applied) /\ Len(rest) = n - 1
    OBVIOUS
  <2>5. \A i \in 1 .. (n - 1) : rest[i] = list[i + 1]
    OBVIOUS
  <2>6. DOMAIN rest = 1 .. (n - 1)
    BY <2>4, LenProperties
  <2>7. QED
    BY <2>1, <2>3, <2>4, <2>5, <2>6
<1> HIDE DEF rest, n
<1>2. \A i \in Applications(rest) : i + 1 \in Applications(list) /\ rest[i] = list[i + 1]
  BY <1>1 DEF Applications
<1>3. \A i \in Applications(list) :
         /\ i # 1 => i - 1 \in Applications(rest) /\ rest[i - 1] = list[i]
         /\ i \in 1 .. n
  <2> SUFFICES ASSUME NEW i \in Applications(list)
               PROVE  /\ i # 1 => i - 1 \in Applications(rest) /\ rest[i - 1] = list[i]
                      /\ i \in 1 .. n
    OBVIOUS
  <2>1. i \in 1 .. n /\ list[i] # NoText
    BY <1>1 DEF Applications
  <2>2. i # 1 => i - 1 \in 1 .. (n - 1) /\ rest[i - 1] = list[(i - 1) + 1]
    BY <1>1, <2>1
  <2>3. QED
    BY <1>1, <2>1, <2>2 DEF Applications
<1>4. ASSUME Applications(rest) # {}
      PROVE  /\ Applications(list) # {}
             /\ \A t : IsNewest(list, t) => IsNewest(rest, t)
  <2>1. PICK k \in Applications(rest) : TRUE
    BY <1>4
  <2>2. k + 1 \in Applications(list) /\ k \in 1 .. (n - 1)
    BY <1>1, <1>2 DEF Applications
  <2>3. ASSUME NEW t, IsNewest(list, t)
        PROVE  IsNewest(rest, t)
    <3>1. PICK i \in Applications(list) :
              list[i] = t /\ \A j \in Applications(list) : j <= i
      BY <2>3 DEF IsNewest
    <3>2. k + 1 <= i /\ i \in 1 .. n
      BY <1>3, <2>2, <3>1
    <3>3. i # 1
      BY <1>1, <2>2, <3>2
    <3>4. i - 1 \in Applications(rest) /\ rest[i - 1] = t
      BY <1>3, <3>1, <3>3
    <3>5. ASSUME NEW j \in Applications(rest)
          PROVE  j <= i - 1
      <4>1. j + 1 <= i /\ j \in 1 .. (n - 1)
        BY <1>1, <1>2, <3>1 DEF Applications
      <4>2. QED
        BY <1>1, <3>2, <4>1
    <3>6. QED
      BY <3>4, <3>5 DEF IsNewest
  <2>4. QED
    BY <2>2, <2>3
<1>5. ASSUME Applications(rest) = {}, Head(list) # NoText
      PROVE  /\ Applications(list) # {}
             /\ \A t : IsNewest(list, t) => t = Head(list)
  <2>1. 1 \in Applications(list)
    BY <1>1, <1>5 DEF Applications
  <2>2. \A i \in Applications(list) : i = 1
    BY <1>3, <1>5
  <2>3. QED
    BY <1>1, <2>1, <2>2 DEF IsNewest
<1>6. ASSUME Applications(rest) = {}, Head(list) = NoText
      PROVE  Applications(list) = {}
  <2>1. 1 \notin Applications(list)
    BY <1>1, <1>6 DEF Applications
  <2>2. QED
    BY <1>3, <1>6, <2>1
<1>7. QED
  BY <1>1, <1>4, <1>5, <1>6 DEF rest
-------------------------------------------------------------------------------
(* What the operators on engines change. *)

LEMMA RecordedFields ==
    ASSUME NEW e \in Engine, NEW d \in Applied
    PROVE  /\ Recorded(e, d) \in Engine
           /\ Recorded(e, d).running = e.running /\ Recorded(e, d).mode = e.mode
           /\ Recorded(e, d).slot = e.slot /\ Recorded(e, d).writing = e.writing
           /\ Recorded(e, d).decisions = e.decisions
           /\ Recorded(e, d).recorded = IF Room(e.recorded)
                                        THEN Append(e.recorded, d) ELSE e.recorded
           /\ Recorded(e, d).newest = IF d = NoText THEN e.newest ELSE d
           /\ Recorded(e, d).lost = (e.lost \/ (d # NoText /\ ~ Room(e.recorded)))
<1>1. /\ e.recorded \in Seq(Applied) /\ Append(e.recorded, d) \in Seq(Applied)
      /\ e.newest \in Applied /\ e.lost \in BOOLEAN
  BY AppendProperties DEF Engine, Applied
<1> DEFINE r == IF Room(e.recorded) THEN Append(e.recorded, d) ELSE e.recorded
           w == IF d = NoText THEN e.newest ELSE d
           l == e.lost \/ (d # NoText /\ ~ Room(e.recorded))
<1>2. r \in Seq(Applied) /\ w \in Applied /\ l \in BOOLEAN
  BY <1>1
<1>3. Recorded(e, d) = [e EXCEPT !.recorded = r, !.newest = w, !.lost = l]
  BY DEF Recorded
<1> HIDE DEF r, w, l
<1>4. /\ [e EXCEPT !.recorded = r, !.newest = w, !.lost = l] \in Engine
      /\ [e EXCEPT !.recorded = r, !.newest = w, !.lost = l].running = e.running
      /\ [e EXCEPT !.recorded = r, !.newest = w, !.lost = l].mode = e.mode
      /\ [e EXCEPT !.recorded = r, !.newest = w, !.lost = l].slot = e.slot
      /\ [e EXCEPT !.recorded = r, !.newest = w, !.lost = l].writing = e.writing
      /\ [e EXCEPT !.recorded = r, !.newest = w, !.lost = l].decisions = e.decisions
      /\ [e EXCEPT !.recorded = r, !.newest = w, !.lost = l].recorded = r
      /\ [e EXCEPT !.recorded = r, !.newest = w, !.lost = l].newest = w
      /\ [e EXCEPT !.recorded = r, !.newest = w, !.lost = l].lost = l
  BY <1>2 DEF Engine, Applied
<1>5. QED
  BY <1>3, <1>4 DEF r, w, l

LEMMA ForwardedFields ==
    ASSUME NEW e \in Engine, e.recorded # << >>
    PROVE  /\ Forwarded(e) \in Engine
           /\ Forwarded(e).running = e.running /\ Forwarded(e).mode = e.mode
           /\ Forwarded(e).slot = e.slot /\ Forwarded(e).writing = e.writing
           /\ Forwarded(e).newest = e.newest
           /\ Forwarded(e).recorded = Tail(e.recorded)
           /\ Forwarded(e).decisions = IF Room(e.decisions)
                                       THEN Append(e.decisions, Head(e.recorded))
                                       ELSE e.decisions
           /\ Forwarded(e).lost =
                 (e.lost \/ (Head(e.recorded) # NoText /\ ~ Room(e.decisions)))
<1> DEFINE h == Head(e.recorded)
           r == Tail(e.recorded)
           q == IF Room(e.decisions) THEN Append(e.decisions, h) ELSE e.decisions
           l == e.lost \/ (h # NoText /\ ~ Room(e.decisions))
<1>1. e.recorded \in Seq(Applied) /\ e.decisions \in Seq(Applied) /\ e.lost \in BOOLEAN
  BY DEF Engine, Applied
<1>2. h \in Applied /\ r \in Seq(Applied)
  BY <1>1, NewestOfTail
<1>3. Append(e.decisions, h) \in Seq(Applied)
  BY <1>1, <1>2, AppendProperties
<1>4. q \in Seq(Applied) /\ l \in BOOLEAN
  BY <1>1, <1>3
<1>5. Forwarded(e) = [e EXCEPT !.recorded = r, !.decisions = q, !.lost = l]
  BY DEF Forwarded
<1> HIDE DEF h, r, q, l
<1>6. /\ [e EXCEPT !.recorded = r, !.decisions = q, !.lost = l] \in Engine
      /\ [e EXCEPT !.recorded = r, !.decisions = q, !.lost = l].running = e.running
      /\ [e EXCEPT !.recorded = r, !.decisions = q, !.lost = l].mode = e.mode
      /\ [e EXCEPT !.recorded = r, !.decisions = q, !.lost = l].slot = e.slot
      /\ [e EXCEPT !.recorded = r, !.decisions = q, !.lost = l].writing = e.writing
      /\ [e EXCEPT !.recorded = r, !.decisions = q, !.lost = l].newest = e.newest
      /\ [e EXCEPT !.recorded = r, !.decisions = q, !.lost = l].recorded = r
      /\ [e EXCEPT !.recorded = r, !.decisions = q, !.lost = l].decisions = q
      /\ [e EXCEPT !.recorded = r, !.decisions = q, !.lost = l].lost = l
  BY <1>2, <1>4 DEF Engine, Applied
<1>7. QED
  BY <1>5, <1>6 DEF h, r, q, l

LEMMA WrittenFields ==
    ASSUME NEW e \in Engine, NEW t \in Remote
    PROVE  /\ Written(e, t) \in Engine
           /\ Written(e, t).slot = t
           /\ Written(e, t).running = e.running /\ Written(e, t).mode = e.mode
           /\ Written(e, t).writing = e.writing /\ Written(e, t).recorded = e.recorded
           /\ Written(e, t).decisions = e.decisions /\ Written(e, t).newest = e.newest
           /\ Written(e, t).lost = e.lost
  BY DEF Written, Engine, Texts
-------------------------------------------------------------------------------
(* The last application on its way to the host.                              *)

NoneWaits(e) == Applications(e.recorded) = {} /\ Applications(e.decisions) = {}

\* The slot, if it is not empty, holds the last text written.
Ordered(e) ==
    e.slot # NoText => e.slot = IF e.writing # NoText THEN e.writing ELSE e.newest

\* The last application is the last one in the queues.  If the queues hold
\* none, it is in the slot, about to be recorded, or taken.  Only an apply of
\* the user may come between the write and the record of another text, and
\* then leaves an application in the queues, which is not drained before the
\* slot was empty.
NewestOk(e, pc, taken) ==
    ~ e.lost =>
        /\ Applications(e.recorded) # {} => IsNewest(e.recorded, e.newest)
        /\ Applications(e.recorded) = {} /\ Applications(e.decisions) # {} =>
              IsNewest(e.decisions, e.newest)
        /\ pc = "drain" => Ordered(e)
        /\ NoneWaits(e) /\ pc # "record" => Ordered(e)
        /\ NoneWaits(e) /\ pc # "record" /\ e.slot = NoText /\ e.writing = NoText =>
              taken = e.newest

\* The fields this depends on.
SameLine(e, f) ==
    /\ f.slot = e.slot /\ f.writing = e.writing /\ f.newest = e.newest
    /\ f.recorded = e.recorded /\ f.decisions = e.decisions /\ f.lost = e.lost

LEMMA SameLineNewest ==
    ASSUME NEW e, NEW f, NEW pc, NEW next, NEW taken,
           SameLine(e, f), NewestOk(e, pc, taken),
           next = "drain" => pc = "drain" \/ e.slot = NoText,
           pc = "record" => next = "record"
    PROVE  NewestOk(f, next, taken)
  BY DEF SameLine, NewestOk, NoneWaits, Ordered

LEMMA RecordOther ==
    ASSUME NEW e \in Engine, NEW pc, NEW taken, NewestOk(e, pc, taken)
    PROVE  NewestOk(Recorded(e, NoText), pc, taken)
<1> DEFINE f == Recorded(e, NoText)
<1>1. /\ f.slot = e.slot /\ f.writing = e.writing /\ f.newest = e.newest
      /\ f.decisions = e.decisions /\ (f.lost <=> e.lost)
      /\ f.recorded = IF Room(e.recorded) THEN Append(e.recorded, NoText) ELSE e.recorded
  BY RecordedFields DEF Applied
<1>2. /\ Applications(Append(e.recorded, NoText)) = Applications(e.recorded)
      /\ \A t : IsNewest(e.recorded, t) => IsNewest(Append(e.recorded, NoText), t)
  BY NewestOfAppend DEF Engine, Applied
<1> HIDE DEF f
<1>3. /\ Applications(f.recorded) = Applications(e.recorded)
      /\ IsNewest(e.recorded, e.newest) => IsNewest(f.recorded, e.newest)
  BY <1>1, <1>2
<1>4. (NoneWaits(f) <=> NoneWaits(e)) /\ (Ordered(f) <=> Ordered(e))
  BY <1>1, <1>3 DEF NoneWaits, Ordered
<1>5. NewestOk(f, pc, taken)
  BY <1>1, <1>3, <1>4 DEF NewestOk
<1>6. QED
  BY <1>5 DEF f

LEMMA RecordText ==
    ASSUME NEW e \in Engine, NEW d \in Remote, NEW pc, NEW taken,
           pc = "drain" => Ordered([e EXCEPT !.newest = d])
    PROVE  NewestOk(Recorded(e, d), pc, taken)
<1> DEFINE f == Recorded(e, d)
<1>1. d # NoText
  BY TextsAssumption
<1>2. /\ f.slot = e.slot /\ f.writing = e.writing /\ f.newest = d
      /\ f.decisions = e.decisions
      /\ ~ f.lost => f.recorded = Append(e.recorded, d)
  <2>1. d \in Applied
    BY DEF Applied
  <2>2. /\ f.slot = e.slot /\ f.writing = e.writing /\ f.decisions = e.decisions
        /\ f.newest = IF d = NoText THEN e.newest ELSE d
        /\ f.recorded = IF Room(e.recorded) THEN Append(e.recorded, d) ELSE e.recorded
        /\ f.lost <=> e.lost \/ (d # NoText /\ ~ Room(e.recorded))
    BY <2>1, RecordedFields
  <2> HIDE DEF f
  <2>3. QED
    BY <1>1, <2>2
<1>3. /\ Applications(Append(e.recorded, d)) # {}
      /\ IsNewest(Append(e.recorded, d), d)
  BY <1>1, NewestOfAppend DEF Engine, Applied
<1> HIDE DEF f
<1>4. pc = "drain" => Ordered(f)
  BY <1>2 DEF Ordered, Engine
<1>5. NewestOk(f, pc, taken)
  BY <1>2, <1>3, <1>4 DEF NewestOk, NoneWaits
<1>6. QED
  BY <1>5 DEF f

LEMMA ForwardNewest ==
    ASSUME NEW e \in Engine, NEW pc, NEW taken, NewestOk(e, pc, taken),
           e.recorded # << >>
    PROVE  NewestOk(Forwarded(e), pc, taken)
<1> DEFINE f == Forwarded(e)
           h == Head(e.recorded)
           r == Tail(e.recorded)
           q == Append(e.decisions, h)
<1>1. /\ f.slot = e.slot /\ f.writing = e.writing /\ f.newest = e.newest
      /\ f.recorded = r
      /\ f.decisions = IF Room(e.decisions) THEN q ELSE e.decisions
      /\ f.lost <=> e.lost \/ (h # NoText /\ ~ Room(e.decisions))
  BY ForwardedFields
<1>2. e.recorded \in Seq(Applied) /\ e.decisions \in Seq(Applied)
  BY DEF Engine, Applied
<1>3. /\ h \in Applied
      /\ Applications(r) # {} =>
            /\ Applications(e.recorded) # {}
            /\ \A t : IsNewest(e.recorded, t) => IsNewest(r, t)
      /\ Applications(r) = {} /\ h # NoText =>
            /\ Applications(e.recorded) # {}
            /\ \A t : IsNewest(e.recorded, t) => t = h
      /\ Applications(r) = {} /\ h = NoText => Applications(e.recorded) = {}
  BY <1>2, NewestOfTail
<1> HIDE DEF h
<1>4. /\ h # NoText => Applications(q) # {} /\ IsNewest(q, h)
      /\ h = NoText =>
            /\ Applications(q) = Applications(e.decisions)
            /\ \A t : IsNewest(e.decisions, t) => IsNewest(q, t)
  BY <1>2, <1>3, NewestOfAppend
<1> HIDE DEF f, r, q
<1>5. Ordered(f) <=> Ordered(e)
  BY <1>1 DEF Ordered
<1> SUFFICES ASSUME ~ f.lost
             PROVE  NewestOk(f, pc, taken)
  BY DEF NewestOk, f
<1>6. ~ e.lost /\ (h # NoText => Room(e.decisions))
  BY <1>1
<1>7. CASE Applications(r) # {}
  BY <1>1, <1>3, <1>5, <1>6, <1>7 DEF NewestOk, NoneWaits
<1>8. CASE Applications(r) = {} /\ h # NoText
  BY <1>1, <1>3, <1>4, <1>5, <1>6, <1>8 DEF NewestOk, NoneWaits
<1>9. CASE Applications(r) = {} /\ h = NoText
  <2>1. Applications(e.recorded) = {}
    BY <1>3, <1>9
  <2>2. /\ Applications(f.decisions) = Applications(e.decisions)
        /\ IsNewest(e.decisions, e.newest) => IsNewest(f.decisions, e.newest)
    BY <1>1, <1>4, <1>9
  <2>3. NoneWaits(f) <=> NoneWaits(e)
    BY <1>1, <1>9, <2>1, <2>2 DEF NoneWaits
  <2>4. QED
    BY <1>1, <1>5, <1>6, <1>9, <2>1, <2>2, <2>3 DEF NewestOk
<1>10. QED
  BY <1>7, <1>8, <1>9

LEMMA TakenNewest ==
    ASSUME NEW e \in Engine, NEW pc, NEW taken, NewestOk(e, pc, taken),
           pc # "record", e.slot # NoText
    PROVE  NewestOk([e EXCEPT !.slot = NoText], "idle", e.slot)
<1> DEFINE f == [e EXCEPT !.slot = NoText]
<1>1. /\ f.slot = NoText /\ f.writing = e.writing /\ f.newest = e.newest
      /\ f.recorded = e.recorded /\ f.decisions = e.decisions /\ f.lost = e.lost
  BY DEF Engine
<1> HIDE DEF f
<1>2. Ordered(f) /\ (NoneWaits(f) <=> NoneWaits(e))
  BY <1>1 DEF Ordered, NoneWaits
<1>3. NoneWaits(e) /\ ~ e.lost /\ e.writing = NoText => e.slot = e.newest
  BY DEF NewestOk, Ordered
<1>4. NewestOk(f, "idle", e.slot)
  BY <1>1, <1>2, <1>3 DEF NewestOk
<1>5. QED
  BY <1>4 DEF f

LEMMA DrainedNewest ==
    ASSUME NEW e \in Engine, NEW taken, NewestOk(e, "drain", taken)
    PROVE  NewestOk([e EXCEPT !.decisions = << >>], "idle",
                    IF Applications(e.decisions) = {} THEN taken ELSE NewestOf(e.decisions))
<1> DEFINE f == [e EXCEPT !.decisions = << >>]
           next == IF Applications(e.decisions) = {} THEN taken ELSE NewestOf(e.decisions)
<1>1. /\ f.slot = e.slot /\ f.writing = e.writing /\ f.newest = e.newest
      /\ f.recorded = e.recorded /\ f.decisions = << >> /\ f.lost = e.lost
  BY DEF Engine
<1>2. Applications(<< >>) = {}
  BY DEF Applications
<1> HIDE DEF f
<1>3. Ordered(f) <=> Ordered(e)
  BY <1>1 DEF Ordered
<1>4. NoneWaits(f) <=> Applications(e.recorded) = {}
  BY <1>1, <1>2 DEF NoneWaits
<1>5. CASE Applications(e.decisions) = {}
  <2>1. next = taken
    BY <1>5
  <2>2. NoneWaits(f) <=> NoneWaits(e)
    BY <1>4, <1>5 DEF NoneWaits
  <2> HIDE DEF next
  <2>3. NewestOk(f, "idle", next)
    BY <1>1, <1>2, <1>3, <2>1, <2>2 DEF NewestOk
  <2>4. QED
    BY <2>3 DEF f, next
<1>6. CASE Applications(e.decisions) # {}
  <2>1. next = NewestOf(e.decisions)
    BY <1>6
  <2>2. e.decisions \in Seq(Applied)
    BY DEF Engine, Applied
  <2>3. \A t : IsNewest(e.decisions, t) => NewestOf(e.decisions) = t
    BY <2>2, NewestIsChosen
  <2>4. ~ e.lost /\ Applications(e.recorded) = {} => next = e.newest
    BY <1>6, <2>1, <2>3 DEF NewestOk
  <2> HIDE DEF next
  <2>5. NewestOk(f, "idle", next)
    BY <1>1, <1>2, <1>3, <1>4, <2>4 DEF NewestOk
  <2>6. QED
    BY <2>5 DEF f, next
<1>7. QED
  BY <1>5, <1>6
-------------------------------------------------------------------------------
(* The invariant. *)

Mains ==
    [pc : {"idle", "read", "record", "take", "drain"}, text : Texts]
    \cup [pc : {"start"}, policy : Policies]

Shape ==
    /\ engine \in Engine \cup {NoEngine}
    /\ Current /\ ~ engine.running => engine.mode = "off"
    /\ main \in Mains
    /\ main.pc # "idle" => Current
    /\ main.pc = "record" => main.text \in Remote
    /\ main.pc \in {"record", "take"} => engine.slot # NoText
    /\ policy \in [listening : BOOLEAN, polling : BOOLEAN]
    /\ system \in Texts /\ last \in Applied
    /\ suppress \in BOOLEAN /\ noticed \in BOOLEAN

PollInv ==
    IF Current
    THEN IF main.pc = "start"
         THEN engine.mode = main.policy.mode
         ELSE engine.mode = "auto" => policy.polling
    ELSE policy = Silent

NewestInv == Current => NewestOk(engine, main.pc, last)

Inv == Shape /\ PollInv /\ NewestInv

\* Steps of the consumer, and others that leave the host alone.
LEMMA EngineOnly ==
    ASSUME Inv, Current, engine' \in Engine, UNCHANGED hostVars,
           engine'.running = engine.running, engine'.mode = engine.mode,
           engine.slot # NoText => engine'.slot # NoText,
           main' = main,
           NewestOk(engine', main.pc, last)
    PROVE  Inv'
<1>1. Current'
  BY EngineAssumption DEF Current
<1>2. UNCHANGED <<policy, suppress, noticed, system, last>>
  BY DEF hostVars
<1>3. Shape'
  BY <1>1, <1>2 DEF Inv, Shape, Mains
<1>4. PollInv'
  BY <1>1, <1>2 DEF Inv, PollInv
<1>5. NewestInv'
  BY <1>1, <1>2 DEF NewestInv
<1>6. QED
  BY <1>3, <1>4, <1>5 DEF Inv

LEMMA ReceiveStep ==
    ASSUME Inv, NEW t \in Remote, Receive(t)
    PROVE  Inv'
<1> DEFINE e == [engine EXCEPT !.arrived = @ \cup {t}]
           a == [e EXCEPT !.pending = @ \cup {t}]
           w == [e EXCEPT !.writing = t]
<1>1. /\ Current /\ engine \in Engine /\ engine.writing = NoText
      /\ main' = main /\ UNCHANGED hostVars
      /\ \/ engine' = Recorded(e, NoText)
         \/ engine' = Recorded(a, NoText)
         \/ engine' = Written(w, t)
  BY DEF Receive, Running, Current, Inv, Shape
<1>2. /\ e \in Engine /\ SameLine(engine, e)
      /\ e.running = engine.running /\ e.mode = engine.mode
  BY <1>1 DEF Engine, SameLine
<1>3. NewestOk(engine, main.pc, last)
  BY <1>1 DEF Inv, NewestInv
<1> HIDE DEF e
<1>4. /\ a \in Engine /\ SameLine(engine, a)
      /\ a.running = engine.running /\ a.mode = engine.mode
  BY <1>2 DEF Engine, SameLine
<1> HIDE DEF a
<1>5. ASSUME NEW f \in {e, a}, engine' = Recorded(f, NoText)
      PROVE  Inv'
  <2>1. /\ f \in Engine /\ SameLine(engine, f)
        /\ f.running = engine.running /\ f.mode = engine.mode
    BY <1>2, <1>4, <1>5
  <2>2. NewestOk(f, main.pc, last)
    BY <1>3, <2>1, SameLineNewest
  <2>3. /\ Recorded(f, NoText) \in Engine
        /\ Recorded(f, NoText).running = f.running /\ Recorded(f, NoText).mode = f.mode
        /\ Recorded(f, NoText).slot = f.slot
    BY <2>1, RecordedFields DEF Applied
  <2>4. NewestOk(Recorded(f, NoText), main.pc, last)
    BY <2>1, <2>2, RecordOther
  <2>5. QED
    BY <1>1, <1>5, <2>1, <2>3, <2>4, EngineOnly DEF SameLine
<1>6. CASE engine' = Written(w, t)
  <2>1. /\ w \in Engine /\ w.writing = t /\ w.running = engine.running
        /\ w.mode = engine.mode /\ w.recorded = engine.recorded
        /\ w.decisions = engine.decisions /\ w.newest = engine.newest
        /\ w.lost = engine.lost
    BY <1>2 DEF Engine, SameLine
  <2> HIDE DEF w
  <2>2. /\ engine' \in Engine /\ engine'.slot = t /\ engine'.writing = t
        /\ engine'.running = engine.running /\ engine'.mode = engine.mode
        /\ engine'.recorded = engine.recorded /\ engine'.decisions = engine.decisions
        /\ engine'.newest = engine.newest /\ engine'.lost = engine.lost
    BY <1>6, <2>1, WrittenFields
  <2>3. t # NoText
    BY TextsAssumption
  <2>4. NewestOk(engine', main.pc, last)
    BY <1>3, <2>2, <2>3 DEF NewestOk, NoneWaits, Ordered
  <2>5. QED
    BY <1>1, <2>2, <2>3, <2>4, EngineOnly
<1>7. QED
  BY <1>1, <1>5, <1>6

LEMMA RecordAppliedStep ==
    ASSUME Inv, RecordApplied
    PROVE  Inv'
<1> DEFINE e == [engine EXCEPT !.writing = NoText]
           d == engine.writing
<1>1. /\ Current /\ engine \in Engine /\ d # NoText
      /\ main' = main /\ UNCHANGED hostVars /\ engine' = Recorded(e, d)
  BY DEF RecordApplied, Running, Current, Inv, Shape
<1>2. /\ d \in Remote /\ d \in Applied
      /\ e \in Engine /\ e.writing = NoText /\ e.slot = engine.slot
      /\ e.running = engine.running /\ e.mode = engine.mode
      /\ e.lost = engine.lost
  BY <1>1 DEF Engine, Applied
<1>3. NewestOk(engine, main.pc, last)
  BY <1>1 DEF Inv, NewestInv
<1> HIDE DEF e, d
<1>4. /\ Recorded(e, d) \in Engine
      /\ Recorded(e, d).running = e.running /\ Recorded(e, d).mode = e.mode
      /\ Recorded(e, d).slot = e.slot
      /\ Recorded(e, d).lost <=> e.lost \/ (d # NoText /\ ~ Room(e.recorded))
  BY <1>2, RecordedFields
<1>5. CASE engine.lost
  <2>1. Recorded(e, d).lost
    BY <1>2, <1>4, <1>5
  <2>2. NewestOk(Recorded(e, d), main.pc, last)
    BY <2>1 DEF NewestOk
  <2>3. QED
    BY <1>1, <1>2, <1>4, <2>2, EngineOnly
<1>6. CASE ~ engine.lost
  <2>1. main.pc = "drain" => (engine.slot # NoText => engine.slot = d)
    BY <1>1, <1>3, <1>6 DEF NewestOk, Ordered, d
  <2>2. /\ [e EXCEPT !.newest = d].slot = engine.slot
        /\ [e EXCEPT !.newest = d].writing = NoText
        /\ [e EXCEPT !.newest = d].newest = d
    BY <1>2 DEF Engine
  <2>3. main.pc = "drain" => Ordered([e EXCEPT !.newest = d])
    BY <2>1, <2>2 DEF Ordered
  <2>4. NewestOk(Recorded(e, d), main.pc, last)
    BY <1>2, <2>3, RecordText
  <2>5. QED
    BY <1>1, <1>2, <1>4, <2>4, EngineOnly
<1>7. QED
  BY <1>5, <1>6

LEMMA ForwardStep ==
    ASSUME Inv, Forward
    PROVE  Inv'
<1>1. /\ Current /\ engine \in Engine /\ engine.recorded # << >>
      /\ main' = main /\ UNCHANGED hostVars /\ engine' = Forwarded(engine)
  BY DEF Forward, Running, Current, Inv, Shape
<1>2. NewestOk(Forwarded(engine), main.pc, last)
  BY <1>1, ForwardNewest DEF Inv, NewestInv
<1>3. /\ Forwarded(engine) \in Engine
      /\ Forwarded(engine).running = engine.running
      /\ Forwarded(engine).mode = engine.mode /\ Forwarded(engine).slot = engine.slot
  BY <1>1, ForwardedFields
<1>4. QED
  BY <1>1, <1>2, <1>3, EngineOnly
-------------------------------------------------------------------------------
(* Steps of the host. *)

\* What each kind of step needs to keep the invariant.
LEMMA HostStep ==
    ASSUME Inv, engine' \in Engine,
           engine'.running \/ engine'.mode = "off",
           main' \in Mains, main'.pc = "record" => main'.text \in Remote,
           main'.pc \in {"record", "take"} => engine'.slot # NoText,
           policy' \in [listening : BOOLEAN, polling : BOOLEAN],
           system' \in Texts, last' \in Applied,
           suppress' \in BOOLEAN, noticed' \in BOOLEAN,
           IF main'.pc = "start" THEN engine'.mode = main'.policy.mode
           ELSE engine'.mode = "auto" => policy'.polling,
           NewestOk(engine', main'.pc, last')
    PROVE  Inv'
<1>1. Current'
  BY EngineAssumption DEF Current
<1>2. Shape'
  BY <1>1 DEF Shape
<1>3. PollInv'
  BY <1>1 DEF PollInv
<1>4. NewestInv'
  BY DEF NewestInv
<1>5. QED
  BY <1>2, <1>3, <1>4 DEF Inv

\* A policy of the host.
LEMMA Synchronized ==
    ASSUME NEW p \in Policies, SyncPolicy(p)
    PROVE  /\ policy' \in [listening : BOOLEAN, polling : BOOLEAN]
           /\ p.mode = "auto" => policy'.polling
           /\ p.mode \in {"off", "ask", "auto"}
<1>1. p \in Policy
  BY PolicyAssumption
<1>2. Watches(p) \in BOOLEAN /\ (p.mode = "auto") \in BOOLEAN
  BY DEF Watches
<1>3. QED
  BY <1>1, <1>2 DEF SyncPolicy, Policy

LEMMA Idling ==
    /\ Idle \in Mains /\ Idle.pc = "idle"
    /\ ThreadFree => main = Idle /\ main.pc = "idle"
  BY DEF Idle, Mains, Texts, ThreadFree

LEMMA StartStep ==
    ASSUME Inv, NEW p \in Policies, Start(p)
    PROVE  Inv'
<1>1. /\ engine' = NewEngine(p) /\ main' = [pc |-> "start", policy |-> p]
      /\ last' = NoText /\ UNCHANGED <<policy, suppress, noticed, system>>
  BY DEF Start
<1>2. p.mode \in {"off", "ask", "auto"}
  BY PolicyAssumption DEF Policy
<1>3. /\ engine' \in Engine /\ engine'.running /\ engine'.mode = p.mode
      /\ engine'.slot = NoText /\ engine'.newest = NoText
      /\ engine'.recorded = << >> /\ engine'.decisions = << >>
  BY <1>1, <1>2 DEF NewEngine, Engine, Texts
<1>4. Applications(<< >>) = {}
  BY DEF Applications
<1>5. NewestOk(engine', main'.pc, last')
  BY <1>1, <1>3, <1>4 DEF NewestOk, Ordered, NoneWaits
<1>6. main' \in Mains /\ main'.pc = "start" /\ main'.policy = p
  BY <1>1 DEF Mains
<1>7. QED
  BY <1>1, <1>3, <1>5, <1>6, HostStep DEF Inv, Shape, Applied

LEMMA EndStartStep ==
    ASSUME Inv, EndStart
    PROVE  Inv'
<1>1. /\ main.pc = "start" /\ SyncPolicy(main.policy) /\ main' = Idle
      /\ UNCHANGED <<engine, suppress, noticed, system, last>>
  BY DEF EndStart
<1>2. /\ engine \in Engine /\ main.policy \in Policies
      /\ engine.mode = main.policy.mode /\ NewestOk(engine, main.pc, last)
  BY <1>1 DEF Inv, Shape, Mains, PollInv, NewestInv, Current
<1>3. NewestOk(engine, "idle", last)
  BY <1>1, <1>2, SameLineNewest DEF SameLine
<1>4. QED
  BY <1>1, <1>2, <1>3, Synchronized, Idling, HostStep DEF Inv, Shape, Current

\* Steps of an idle main thread that keep the line of applications.
LEMMA IdleStep ==
    ASSUME Inv, ThreadFree, Current, engine' \in Engine, SameLine(engine, engine'),
           engine'.running \/ engine'.mode = "off",
           main' = main,
           policy' \in [listening : BOOLEAN, polling : BOOLEAN],
           engine'.mode = "auto" => policy'.polling,
           UNCHANGED <<suppress, noticed, system, last>>
    PROVE  Inv'
<1>1. main.pc = "idle" /\ main' \in Mains
  BY Idling
<1>2. NewestOk(engine', main.pc, last)
  BY <1>1, SameLineNewest DEF Inv, NewestInv
<1>3. QED
  BY <1>1, <1>2, HostStep DEF Inv, Shape

LEMMA UpdateConfigStep ==
    ASSUME Inv, NEW p \in Policies, UpdateConfig(p)
    PROVE  Inv'
<1> DEFINE e == [engine EXCEPT !.config = p]
<1>1. /\ ThreadFree /\ Current /\ engine.running /\ engine \in Engine
      /\ engine' = Installed(e, p) /\ SyncPolicy(p)
      /\ UNCHANGED <<main, suppress, noticed, system, last>>
  BY DEF UpdateConfig, Running, Current, Inv, Shape
<1>2. /\ e \in Engine /\ SameLine(engine, e) /\ e.running
  BY <1>1 DEF Engine, SameLine
<1> HIDE DEF e
<1>3. p.mode \in {"off", "ask", "auto"} /\ (p.mode = "auto" => policy'.polling)
      /\ policy' \in [listening : BOOLEAN, polling : BOOLEAN]
  BY <1>1, Synchronized
<1>4. /\ Installed(e, p) \in Engine /\ SameLine(e, Installed(e, p))
      /\ Installed(e, p).running = e.running /\ Installed(e, p).mode = p.mode
  BY <1>2, <1>3 DEF Installed, Engine, SameLine
<1>5. QED
  BY <1>1, <1>2, <1>3, <1>4, IdleStep DEF SameLine

LEMMA UpdateFailsStep ==
    ASSUME Inv, NEW p \in Policies, UpdateFails(p)
    PROVE  Inv'
<1> DEFINE e == [engine EXCEPT !.config = p]
<1>1. /\ ThreadFree /\ Current /\ engine.running /\ engine \in Engine
      /\ engine' = IF p.mode = "off" THEN Installed(e, p) ELSE e
      /\ main' = main /\ UNCHANGED hostVars
  BY DEF UpdateFails, Running, Current, Inv, Shape
<1>2. /\ e \in Engine /\ SameLine(engine, e) /\ e.running /\ e.mode = engine.mode
  BY <1>1 DEF Engine, SameLine
<1> HIDE DEF e
<1>3. p.mode = "off" =>
        /\ Installed(e, p) \in Engine /\ SameLine(e, Installed(e, p))
        /\ Installed(e, p).running = e.running /\ Installed(e, p).mode = "off"
  BY <1>2 DEF Installed, Engine, SameLine
<1>4. /\ engine' \in Engine /\ SameLine(engine, engine') /\ engine'.running
      /\ engine'.mode = "auto" => engine.mode = "auto"
  BY <1>1, <1>2, <1>3 DEF SameLine
<1>5. engine.mode = "auto" => policy.polling
  BY <1>1, Idling DEF Inv, PollInv
<1>6. QED
  BY <1>1, <1>4, <1>5, IdleStep DEF hostVars, Inv, Shape

LEMMA ChangeDeviceStep ==
    ASSUME Inv, NEW p \in Policies, ChangeDevice(p)
    PROVE  Inv'
<1> DEFINE f == Stopped(engine)
           g == [f EXCEPT !.config = p]
           drops == \E i \in DOMAIN engine.recorded : engine.recorded[i] # NoText
<1>1. /\ ThreadFree /\ Current /\ engine.writing = NoText /\ engine \in Engine
      /\ \/ engine' = g /\ SyncPolicy(p)
         \/ engine' = f /\ policy' = policy
      /\ UNCHANGED <<main, suppress, noticed, system, last>>
  BY DEF ChangeDevice, Running, Current, Inv, Shape
<1>2. /\ f \in Engine /\ f.running = FALSE /\ f.mode = "off"
      /\ f.slot = engine.slot /\ f.writing = engine.writing
      /\ f.newest = engine.newest /\ f.recorded = << >>
      /\ f.decisions = engine.decisions
      /\ f.lost <=> engine.lost \/ drops
  <2>1. (engine.lost \/ drops) \in BOOLEAN /\ << >> \in Seq(Applied)
    BY <1>1 DEF Engine
  <2> HIDE DEF drops
  <2>2. f = [engine EXCEPT !.running = FALSE, !.mode = "off", !.pending = {},
                           !.recorded = << >>, !.lost = engine.lost \/ drops]
    BY DEF Stopped, drops
  <2>3. QED
    BY <1>1, <2>1, <2>2 DEF Engine, Applied
<1>3. drops <=> Applications(engine.recorded) # {}
  BY DEF Applications
<1> HIDE DEF f, drops
<1>4. /\ g \in Engine /\ g.running = FALSE /\ g.mode = "off" /\ SameLine(f, g)
  BY <1>2 DEF Engine, SameLine
<1> HIDE DEF g
<1>5. NewestOk(engine, "idle", last) /\ main.pc = "idle"
  BY <1>1, Idling DEF Inv, NewestInv
<1>6. Applications(<< >>) = {}
  BY DEF Applications
<1>7. NewestOk(f, "idle", last)
  BY <1>2, <1>3, <1>5, <1>6 DEF NewestOk, NoneWaits, Ordered
<1>8. NewestOk(g, "idle", last)
  BY <1>4, <1>7, SameLineNewest
<1>9. policy' \in [listening : BOOLEAN, polling : BOOLEAN]
  BY <1>1, Synchronized DEF Inv, Shape
<1>10. /\ engine' \in Engine /\ engine'.mode = "off" /\ NewestOk(engine', "idle", last)
  BY <1>1, <1>2, <1>4, <1>7, <1>8
<1>11. QED
  BY <1>1, <1>5, <1>9, <1>10, HostStep DEF Inv, Shape

LEMMA UpdateStoppedStep ==
    ASSUME Inv, NEW p \in Policies, UpdateStopped(p)
    PROVE  Inv'
<1> DEFINE e == [engine EXCEPT !.config = p]
<1>1. /\ ThreadFree /\ Current /\ engine.mode = "off" /\ engine \in Engine
      /\ engine' = e /\ SyncPolicy(p)
      /\ UNCHANGED <<main, suppress, noticed, system, last>>
  BY DEF UpdateStopped, Running, Current, Inv, Shape
<1>2. e \in Engine /\ SameLine(engine, e) /\ e.mode = engine.mode
  BY <1>1 DEF Engine, SameLine
<1>3. policy' \in [listening : BOOLEAN, polling : BOOLEAN]
  BY <1>1, Synchronized
<1>4. QED
  BY <1>1, <1>2, <1>3, IdleStep

LEMMA StopStep ==
    ASSUME Inv, Stop
    PROVE  Inv'
<1>1. /\ main' = Idle /\ engine' = NoEngine /\ policy' = Silent /\ last' = NoText
      /\ UNCHANGED <<suppress, noticed, system>>
  BY Idling DEF Stop
<1>2. ~ Current'
  BY <1>1 DEF Current
<1>3. Shape'
  BY <1>1, <1>2, Idling DEF Inv, Shape, Silent, Applied
<1>4. QED
  BY <1>1, <1>2, <1>3 DEF Inv, PollInv, NewestInv

\* The engine keeps its line: only the host's own state changes.
LEMMA SameEngine ==
    ASSUME Inv, engine' = engine, main' = main, policy' = policy,
           system' \in Texts, last' = last,
           suppress' \in BOOLEAN, noticed' \in BOOLEAN
    PROVE  Inv'
<1>1. Current' <=> Current
  BY DEF Current
<1>2. Shape'
  BY <1>1 DEF Inv, Shape, Mains
<1>3. PollInv' /\ NewestInv'
  BY <1>1 DEF Inv, PollInv, NewestInv
<1>4. QED
  BY <1>2, <1>3 DEF Inv

\* SetLocalText, whatever the main thread goes on with.
LEMMA LocalStep ==
    ASSUME Inv, ThreadFree, Current, NEW t \in Texts, SetLocalText(t),
           main' \in Mains, main'.pc \in {"idle", "read"},
           UNCHANGED <<policy, system, last>>,
           suppress' \in BOOLEAN, noticed' \in BOOLEAN
    PROVE  Inv'
<1>1. engine \in Engine /\ engine' = [engine EXCEPT !.text = t] /\ main.pc = "idle"
  BY Idling DEF SetLocalText, Inv, Shape, Current
<1>2. /\ engine' \in Engine /\ SameLine(engine, engine')
      /\ engine'.mode = engine.mode /\ engine'.running = engine.running
  BY <1>1 DEF Engine, SameLine
<1>3. NewestOk(engine', main'.pc, last)
  BY <1>1, <1>2, SameLineNewest DEF Inv, NewestInv
<1>4. QED
  BY <1>1, <1>2, <1>3, HostStep DEF Inv, Shape, PollInv

LEMMA BeginReadStep ==
    ASSUME Inv, ThreadFree, BeginRead, UNCHANGED <<policy, system, last>>,
           suppress' \in BOOLEAN, noticed' \in BOOLEAN
    PROVE  Inv'
<1>1. /\ Current /\ system \in Texts /\ SetLocalText(system)
      /\ main' = [pc |-> "read", text |-> system]
  BY DEF BeginRead, Inv, Shape
<1>2. main' \in Mains /\ main'.pc = "read"
  BY <1>1 DEF Mains
<1>3. QED
  BY <1>1, <1>2, LocalStep

LEMMA ClipChangedStep ==
    ASSUME Inv, ClipChanged
    PROVE  Inv'
<1>1. ThreadFree /\ noticed' \in BOOLEAN /\ UNCHANGED <<policy, system, last>>
  BY DEF ClipChanged
<1>2. CASE BeginRead /\ UNCHANGED suppress
  BY <1>1, <1>2, BeginReadStep DEF Inv, Shape
<1>3. CASE suppress' \in BOOLEAN /\ UNCHANGED <<engine, main>>
  BY <1>1, <1>3, SameEngine DEF Inv, Shape
<1>4. QED
  BY <1>2, <1>3 DEF ClipChanged, Inv, Shape

\* SendText and the end of readClipboard leave a decision.
LEMMA DecisionStep ==
    ASSUME Inv, Current, main.pc \in {"idle", "read"},
           engine' = Recorded(engine, NoText) \/ engine' = engine,
           main' = Idle, UNCHANGED hostVars
    PROVE  Inv'
<1>1. engine \in Engine /\ NewestOk(engine, main.pc, last)
  BY DEF Inv, Shape, Current, NewestInv
<1>2. NewestOk(engine, "idle", last)
  BY <1>1, SameLineNewest DEF SameLine
<1>3. NewestOk(Recorded(engine, NoText), "idle", last)
  BY <1>1, <1>2, RecordOther
<1>4. /\ Recorded(engine, NoText) \in Engine
      /\ Recorded(engine, NoText).running = engine.running
      /\ Recorded(engine, NoText).mode = engine.mode
  BY <1>1, RecordedFields DEF Applied
<1>5. /\ engine' \in Engine /\ engine'.running = engine.running
      /\ engine'.mode = engine.mode /\ NewestOk(engine', "idle", last)
  BY <1>1, <1>2, <1>3, <1>4
<1>6. QED
  BY <1>5, Idling, HostStep DEF hostVars, Inv, Shape, PollInv

LEMMA ApplyEventStep ==
    ASSUME Inv, NEW t \in Remote, ApplyEvent(t)
    PROVE  Inv'
<1>1. /\ Current /\ engine \in Engine /\ main.pc = "idle"
      /\ engine' = Written(engine, t) /\ main' = [pc |-> "record", text |-> t]
      /\ UNCHANGED hostVars
  BY Idling DEF ApplyEvent, Running, Current, Inv, Shape
<1>2. /\ engine' \in Engine /\ engine'.slot = t /\ t # NoText
      /\ engine'.running = engine.running /\ engine'.mode = engine.mode
      /\ engine'.recorded = engine.recorded /\ engine'.decisions = engine.decisions
      /\ engine'.newest = engine.newest /\ engine'.lost = engine.lost
  BY <1>1, WrittenFields, TextsAssumption
<1>3. NewestOk(engine, "idle", last)
  BY <1>1 DEF Inv, NewestInv
<1>4. NewestOk(engine', "record", last)
  BY <1>2, <1>3 DEF NewestOk
<1>5. main' \in Mains /\ main'.pc = "record" /\ main'.text = t
  BY <1>1 DEF Mains, Texts
<1>6. QED
  BY <1>1, <1>2, <1>4, <1>5, HostStep DEF hostVars, Inv, Shape, PollInv

LEMMA RecordEventStep ==
    ASSUME Inv, RecordEvent
    PROVE  Inv'
<1> DEFINE d == main.text
           e == [engine EXCEPT !.pending = @ \ {d}]
<1>1. /\ main.pc = "record" /\ Current /\ engine \in Engine /\ d \in Remote
      /\ engine.slot # NoText
      /\ engine' = Recorded(e, d) /\ main' = [Idle EXCEPT !.pc = "take"]
      /\ UNCHANGED hostVars
  BY DEF RecordEvent, Inv, Shape, Current
<1>2. /\ e \in Engine /\ e.running = engine.running /\ e.mode = engine.mode
      /\ e.slot = engine.slot
  BY <1>1 DEF Engine
<1> HIDE DEF d, e
<1>3. d \in Applied
  BY <1>1 DEF Applied
<1>4. /\ engine' \in Engine /\ engine'.running = engine.running
      /\ engine'.mode = engine.mode /\ engine'.slot = engine.slot
  BY <1>1, <1>2, <1>3, RecordedFields
<1>5. main' = [pc |-> "take", text |-> NoText]
  BY <1>1 DEF Idle
<1>6. main' \in Mains /\ main'.pc = "take"
  BY <1>5 DEF Mains, Texts
<1>7. NewestOk(engine', "take", last)
  BY <1>1, <1>2, RecordText
<1>8. QED
  BY <1>1, <1>4, <1>6, <1>7, HostStep DEF hostVars, Inv, Shape, PollInv

LEMMA TakeSlotStep ==
    ASSUME Inv, TakeSlot, main.pc \in {"idle", "take"}
    PROVE  Inv'
<1>1. /\ Current /\ engine \in Engine /\ engine.slot # NoText
      /\ engine' = [engine EXCEPT !.slot = NoText]
      /\ system' = engine.slot /\ last' = engine.slot
      /\ suppress' = TRUE /\ noticed' \in BOOLEAN
      /\ main' = Idle /\ policy' = policy
  BY DEF TakeSlot, SetSystem, Inv, Shape, Current
<1>2. /\ engine' \in Engine /\ engine.slot \in Remote
      /\ engine'.running = engine.running /\ engine'.mode = engine.mode
  BY <1>1 DEF Engine
<1>3. NewestOk(engine, main.pc, last)
  BY <1>1 DEF Inv, NewestInv
<1>4. NewestOk(engine', "idle", last')
  BY <1>1, <1>3, TakenNewest
<1>5. QED
  BY <1>1, <1>2, <1>4, Idling, HostStep DEF Inv, Shape, PollInv, Texts, Applied

LEMMA PollStep ==
    ASSUME Inv, Poll
    PROVE  Inv'
<1>1. ThreadFree /\ main.pc = "idle"
  BY Idling DEF Poll
<1>2. CASE TakeSlot
  BY <1>1, <1>2, TakeSlotStep
<1>3. CASE ~ TakeSlot
  <2>1. /\ Current /\ engine \in Engine /\ engine.slot = NoText
        /\ main' = [Idle EXCEPT !.pc = "drain"] /\ engine' = engine
        /\ UNCHANGED hostVars
    BY <1>3 DEF Poll, Inv, Shape, Current
  <2>2. main' = [pc |-> "drain", text |-> NoText]
    BY <2>1 DEF Idle
  <2>3. main' \in Mains /\ main'.pc = "drain"
    BY <2>2 DEF Mains, Texts
  <2>4. NewestOk(engine, "drain", last)
    BY <1>1, <2>1, SameLineNewest DEF SameLine, Inv, NewestInv
  <2>5. QED
    BY <1>1, <2>1, <2>3, <2>4, HostStep DEF hostVars, Inv, Shape, PollInv
<1>4. QED
  BY <1>2, <1>3

LEMMA DrainStep ==
    ASSUME Inv, Drain
    PROVE  Inv'
<1> DEFINE next == IF Applications(engine.decisions) = {}
                   THEN last ELSE NewestOf(engine.decisions)
<1>1. /\ main.pc = "drain" /\ Current /\ engine \in Engine
      /\ engine' = [engine EXCEPT !.decisions = << >>]
  BY DEF Drain, Inv, Shape, Current
<1>2. engine.decisions \in Seq(Applied) /\ << >> \in Seq(Applied)
  BY <1>1 DEF Engine, Applied
<1>3. Applications(engine.decisions) # {} => NewestOf(engine.decisions) \in Remote
  BY <1>2, NewestIsChosen
<1>4. /\ engine' \in Engine /\ engine'.running = engine.running
      /\ engine'.mode = engine.mode
  BY <1>1, <1>2 DEF Engine, Applied
<1>5. /\ last' = next /\ main' = Idle /\ policy' = policy
      /\ system' \in {system, next} /\ suppress' \in BOOLEAN /\ noticed' \in BOOLEAN
  <2>1. CASE Applications(engine.decisions) = {}
    BY <2>1 DEF Drain, hostVars, Inv, Shape
  <2>2. CASE Applications(engine.decisions) # {}
    BY <2>2 DEF Drain, SetSystem, Inv, Shape
  <2>3. QED
    BY <2>1, <2>2
<1>6. next \in Applied
  BY <1>3 DEF Applied, Inv, Shape
<1>7. NewestOk(engine, "drain", last)
  BY <1>1 DEF Inv, NewestInv
<1>8. NewestOk(engine', "idle", next)
  BY <1>1, <1>7, DrainedNewest
<1> HIDE DEF next
<1>9. system' \in Texts
  BY <1>5, <1>6 DEF Inv, Shape, Texts, Applied
<1>10. QED
  BY <1>1, <1>4, <1>5, <1>6, <1>8, <1>9, Idling, HostStep DEF Inv, Shape, PollInv
-------------------------------------------------------------------------------
(* The theorems. *)

LEMMA InitInv == Init => Inv
<1> SUFFICES ASSUME Init PROVE Inv
  OBVIOUS
<1>1. ~ Current
  BY DEF Init, Current
<1>2. Shape
  BY <1>1, Idling DEF Init, Shape, Silent, Texts, Applied
<1>3. QED
  BY <1>1, <1>2 DEF Inv, PollInv, NewestInv, Init

LEMMA NextInv == Inv /\ [Next]_vars => Inv'
<1> SUFFICES ASSUME Inv, [Next]_vars PROVE Inv'
  OBVIOUS
<1>1. CASE Consumer
  BY <1>1, ReceiveStep, RecordAppliedStep, ForwardStep DEF Consumer
<1>2. ASSUME NEW p \in Policies,
             Start(p) \/ UpdateConfig(p) \/ UpdateFails(p) \/ ChangeDevice(p)
             \/ UpdateStopped(p)
      PROVE  Inv'
  BY <1>2, StartStep, UpdateConfigStep, UpdateFailsStep, ChangeDeviceStep,
     UpdateStoppedStep
<1>3. CASE Stop
  BY <1>3, StopStep
<1>4. ASSUME NEW t \in UserTexts, UserCopies(t)
      PROVE  Inv'
  BY <1>4, SameEngine DEF UserCopies, Inv, Shape, Texts
<1>5. ASSUME NEW t \in UserTexts, Share(t)
      PROVE  Inv'
  <2>1. /\ ThreadFree /\ Current /\ SetLocalText(t) /\ t \in Texts
        /\ main' = main /\ UNCHANGED hostVars
    BY <1>5 DEF Share, Texts
  <2>2. main' \in Mains /\ main'.pc = "idle"
    BY <2>1, Idling
  <2>3. QED
    BY <2>1, <2>2, LocalStep DEF hostVars, Inv, Shape
<1>6. CASE SendText
  <2>1. main = Idle /\ main.pc = "idle" /\ Current
    BY <1>6, Idling DEF SendText, Running
  <2>2. QED
    BY <1>6, <2>1, DecisionStep DEF SendText
<1>7. CASE ReadClipboard
  BY <1>7, BeginReadStep DEF ReadClipboard, hostVars, Inv, Shape
<1>8. CASE EndRead
  <2>1. main.pc = "read" /\ Current
    BY <1>8 DEF EndRead, Inv, Shape
  <2>2. QED
    BY <1>8, <2>1, DecisionStep DEF EndRead
<1>9. CASE ClipChanged
  BY <1>9, ClipChangedStep
<1>10. CASE SuppressionEnds
  BY <1>10, SameEngine DEF SuppressionEnds, Inv, Shape
<1>11. ASSUME NEW t \in Remote, ApplyEvent(t)
       PROVE  Inv'
  BY <1>11, ApplyEventStep
<1>12. CASE Poll
  BY <1>12, PollStep
<1>13. CASE Continue
  BY <1>8, <1>13, EndStartStep, RecordEventStep, TakeSlotStep, DrainStep
     DEF Continue, TakeEvent
<1>14. CASE UNCHANGED vars
  BY <1>14, SameEngine DEF vars, Inv, Shape
<1>15. QED
  BY <1>1, <1>2, <1>3, <1>4, <1>5, <1>6, <1>7, <1>9, <1>10, <1>11, <1>12, <1>13,
     <1>14 DEF Next

LEMMA Invariance == Spec => []Inv
  BY InitInv, NextInv, PTL DEF Spec

\* The engine, the main thread and the clipboards have their shape in every
\* reachable state.
THEOREM TypeCorrectness == Spec => []TypeOK
<1>1. Inv => TypeOK
  BY DEF Inv, Shape, TypeOK, Mains, Applied
<1>2. QED
  BY <1>1, Invariance, PTL

\* What the user asked for is in the slot when the host takes it.
THEOREM TextIsAvailable == Spec => []AppliedTextIsAvailable
<1>1. Inv => AppliedTextIsAvailable
  BY DEF Inv, Shape, AppliedTextIsAvailable
<1>2. QED
  BY <1>1, Invariance, PTL

\* The host polls whenever the runtime applies texts by itself, and is silent
\* without an engine.
THEOREM HostPolls == Spec => []PollsForAutoApply
<1>1. Inv => PollsForAutoApply
  BY Idling DEF Inv, PollInv, PollsForAutoApply
<1>2. QED
  BY <1>1, Invariance, PTL

\* With the queues drained and no application lost, the last text the host set
\* is the last one applied.
THEOREM HostGetsNewest == Spec => []NewestAppliedReachesHost
<1>1. Inv => NewestAppliedReachesHost
  <2> SUFFICES ASSUME Inv, Current, ThreadFree, Quiet(engine), ~ engine.lost
               PROVE  last = engine.newest
    BY DEF NewestAppliedReachesHost
  <2>1. NewestOk(engine, "idle", last)
    BY Idling DEF Inv, NewestInv
  <2>2. Applications(<< >>) = {}
    BY DEF Applications
  <2>3. NoneWaits(engine) /\ engine.slot = NoText /\ engine.writing = NoText
    BY <2>2 DEF Quiet, NoneWaits
  <2>4. QED
    BY <2>1, <2>3 DEF NewestOk
<1>2. QED
  BY <1>1, Invariance, PTL
===============================================================================
