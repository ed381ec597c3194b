------------------------ MODULE BoundedStringSetProofs ------------------------
(***************************************************************************)
(* What the operations of a bounded set return.  However Add and Consume   *)
(* alternate, trim leaves no more members than the limit and an entry for  *)
(* each of them.  On a set that was never consumed the map and the         *)
(* insertion order stay in step, so the set is a window of the most recent *)
(* distinct values and a value just added is always a member.              *)
(***************************************************************************)
EXTENDS BoundedStringSet, SubsequencesProofs

\* The map and the order of s agree, on values of S, within the limit.
IsWindow(s, S, limit) ==
    /\ s \in [set : SUBSET S, order : Seq(S)]
    /\ s.set = Entries(s.order)
    /\ \A i, j \in DOMAIN s.order : s.order[i] = s.order[j] => i = j
    /\ Len(s.order) <= limit

\* A sequence without repetitions has as many values as entries.
LEMMA CardinalityOfEntries ==
    ASSUME NEW S, NEW q \in Seq(S),
           \A i, j \in DOMAIN q : q[i] = q[j] => i = j
    PROVE  /\ IsFiniteSet(Entries(q))
           /\ Cardinality(Entries(q)) = Len(q)
<1>1. /\ Len(q) \in Nat
      /\ DOMAIN q = 1 .. Len(q)
      /\ q \in [1 .. Len(q) -> Entries(q)]
  BY LenProperties DEF Entries
<1>2. q \in Bijection(1 .. Len(q), Entries(q))
  <2>1. \A e \in Entries(q) : \E i \in 1 .. Len(q) : q[i] = e
    BY <1>1 DEF Entries
  <2>2. QED
    BY <1>1, <2>1, Fun_IsBij, Fun_IsSurj
<1>3. ExistsBijection(1 .. Len(q), Entries(q))
  BY <1>2 DEF ExistsBijection
<1>4. IsFiniteSet(1 .. Len(q)) /\ Cardinality(1 .. Len(q)) = Len(q)
  BY <1>1, FS_Interval
<1>5. QED
  BY <1>3, <1>4, FS_Bijection

\* The eviction loop stops at the first count that satisfies its exit test
\* (dedupe.go:45).
LEMMA FirstEvictionCount ==
    ASSUME NEW set, NEW order, NEW limit, Len(order) \in Nat,
           NEW k \in 0 .. Len(order),
           IsEvictionCount(set, order, limit, k),
           \A j \in 0 .. (k - 1) : ~ IsEvictionCount(set, order, limit, j)
    PROVE  EvictionCount(set, order, limit) = k
<1>1. \A m \in 0 .. Len(order) :
         /\ IsEvictionCount(set, order, limit, m)
         /\ \A j \in 0 .. (m - 1) : ~ IsEvictionCount(set, order, limit, j)
         => m = k
  <2>1. \A m \in 0 .. Len(order) :
           m = k \/ m \in 0 .. (k - 1) \/ k \in 0 .. (m - 1)
    OBVIOUS
  <2>2. QED
    BY <2>1
<1>2. QED
  BY <1>1 DEF EvictionCount

\* The eviction loop ends: with every entry popped at the latest
\* (dedupe.go:45).
LEMMA EvictionEnds ==
    ASSUME NEW set, NEW order, NEW limit, Len(order) \in Nat
    PROVE  /\ EvictionCount(set, order, limit) \in 0 .. Len(order)
           /\ IsEvictionCount(set, order, limit, EvictionCount(set, order, limit))
<1> DEFINE n == Len(order)
           I == {i \in 1 .. (n + 1) : IsEvictionCount(set, order, limit, i - 1)}
<1>1. I \in SUBSET (1 .. (n + 1)) /\ n + 1 \in Nat
  OBVIOUS
<1>2. n + 1 \in I
  BY DEF IsEvictionCount
<1>3. PICK i \in I : \A j \in I : i <= j
  <2> HIDE DEF I
  <2>1. QED
    BY <1>1, <1>2, FirstPlace
<1> DEFINE k == i - 1
<1>4. k \in 0 .. n /\ IsEvictionCount(set, order, limit, k)
  BY <1>3
<1>5. ASSUME NEW j \in 0 .. (k - 1)
      PROVE  ~ IsEvictionCount(set, order, limit, j)
  <2>1. /\ j + 1 \in 1 .. (n + 1) /\ (j + 1) - 1 = j
        /\ ~ i <= j + 1
    BY <1>1, <1>3
  <2>2. j + 1 \notin I
    BY <1>3, <2>1
  <2>3. QED
    BY <2>1, <2>2
<1> HIDE DEF k
<1>6. EvictionCount(set, order, limit) = k
  BY <1>4, <1>5, FirstEvictionCount
<1>7. QED
  BY <1>4, <1>6

\* Compaction drops no entry of a member (dedupe.go:50-58).
LEMMA CompactedKeepsMembers ==
    ASSUME NEW S, NEW set, NEW order \in Seq(S), NEW limit
    PROVE  /\ Compacted(set, order, limit) \in Seq(S)
           /\ set \subseteq Entries(order)
                => set \subseteq Entries(Compacted(set, order, limit))
<1> DEFINE I == {i \in DOMAIN order : order[i] \in set}
<1>1. I \in SUBSET DOMAIN order
  OBVIOUS
<1>2. set \subseteq Entries(order) => set \subseteq {order[i] : i \in I}
  BY DEF Entries
<1>3. /\ Picked(order, I) \in Seq(S)
      /\ Entries(Picked(order, I)) = {order[i] : i \in I}
  <2> HIDE DEF I
  <2>1. Picked(order, I) \in Seq(S)
    BY <1>1, PickedPlaces
  <2>2. {Picked(order, I)[i] : i \in DOMAIN Picked(order, I)} = {order[i] : i \in I}
    BY <1>1, PickedEntries
  <2>3. QED
    BY <2>1, <2>2 DEF Entries
<1>4. Compacted(set, order, limit) \in {order, Picked(order, I)}
  BY DEF Compacted
<1>5. QED
  BY <1>2, <1>3, <1>4

\* What trim establishes: the map is within the limit, each member has an
\* entry to be evicted by, and nothing leaves a map that was within the limit
\* already (dedupe.go:44-59).
LEMMA TrimProperties ==
    ASSUME NEW S, NEW limit \in Nat, NEW s \in [set : SUBSET S, order : Seq(S)],
           IsFiniteSet(s.set), s.set \subseteq Entries(s.order)
    PROVE  /\ Trim(s, limit) \in [set : SUBSET S, order : Seq(S)]
           /\ Trim(s, limit).set \subseteq Entries(Trim(s, limit).order)
           /\ Trim(s, limit).set \subseteq s.set
           /\ Cardinality(Trim(s, limit).set) <= limit
           /\ Cardinality(s.set) <= limit => Trim(s, limit).set = s.set
<1> DEFINE n      == Len(s.order)
           k      == EvictionCount(s.set, s.order, limit)
           popped == SubSeq(s.order, 1, k)
           rest   == DropOldest(s.order, k)
           kept   == s.set \ Entries(popped)
<1>1. s.order \in Seq(S) /\ n \in Nat /\ DOMAIN s.order = 1 .. n
  BY LenProperties
<1>2. k \in 0 .. n /\ IsEvictionCount(s.set, s.order, limit, k)
  BY <1>1, EvictionEnds
<1>3. Trim(s, limit) = [set |-> kept, order |-> Compacted(kept, rest, limit)]
  BY DEF Trim
<1> HIDE DEF k
<1>4. /\ popped \in Seq(S) /\ DOMAIN popped = 1 .. k
      /\ \A i \in 1 .. k : popped[i] = s.order[i]
  <2>1. /\ k \in Int /\ 1 \in Int
        /\ \A i \in 1 .. k : s.order[i] \in S
    BY <1>1, <1>2, ElementOfSeq
  <2>2. /\ popped \in Seq(S) /\ Len(popped) = IF 1 <= k THEN k - 1 + 1 ELSE 0
        /\ \A i \in 1 .. k - 1 + 1 : popped[i] = s.order[1 + i - 1]
    BY <2>1, SubSeqProperties
  <2> HIDE DEF popped
  <2>3. Len(popped) = k /\ \A i \in 1 .. k : popped[i] = s.order[i]
    BY <1>2, <2>2
  <2>4. QED
    BY <2>2, <2>3, LenProperties
<1>5. /\ rest \in Seq(S) /\ DOMAIN rest = 1 .. (n - k)
      /\ \A i \in 1 .. (n - k) : rest[i] = s.order[k + i]
  <2>1. /\ k + 1 \in Int /\ n \in Int
        /\ \A i \in (k + 1) .. n : s.order[i] \in S
    BY <1>1, <1>2, ElementOfSeq
  <2>2. /\ SubSeq(s.order, k + 1, n) \in Seq(S)
        /\ Len(SubSeq(s.order, k + 1, n)) = IF k + 1 <= n THEN n - (k + 1) + 1 ELSE 0
        /\ \A i \in 1 .. n - (k + 1) + 1 :
              SubSeq(s.order, k + 1, n)[i] = s.order[k + 1 + i - 1]
    BY <2>1, SubSeqProperties
  <2>3. rest = SubSeq(s.order, k + 1, n)
    BY DEF DropOldest
  <2> HIDE DEF rest, n
  <2>4. Len(rest) = n - k /\ \A i \in 1 .. (n - k) : rest[i] = s.order[k + i]
    BY <1>1, <1>2, <2>2, <2>3
  <2>5. QED
    BY <2>2, <2>3, <2>4, LenProperties
<1>6. kept \subseteq Entries(rest)
  <2> SUFFICES ASSUME NEW e \in kept
               PROVE  e \in Entries(rest)
    OBVIOUS
  <2>1. PICK i \in 1 .. n : s.order[i] = e
    BY <1>1 DEF Entries
  <2>2. i \notin 1 .. k
    BY <1>4, <2>1 DEF Entries
  <2>3. i - k \in 1 .. (n - k) /\ k + (i - k) = i
    BY <1>1, <1>2, <2>1, <2>2
  <2>4. rest[i - k] = e
    BY <1>5, <2>1, <2>3
  <2>5. QED
    BY <1>5, <2>3, <2>4 DEF Entries
<1>7. Cardinality(kept) <= limit
  <2>1. CASE k = n
    <3>1. popped = s.order
      BY <1>1, <2>1, SubSeqFull
    <3>2. kept = {}
      BY <3>1
    <3>3. Cardinality(kept) = 0
      BY <3>2, FS_EmptySet, Zenon
    <3>4. QED
      BY <3>3
  <2>2. CASE k # n
    BY <1>2, <2>2 DEF IsEvictionCount
  <2>3. QED
    BY <2>1, <2>2
<1>8. ASSUME Cardinality(s.set) <= limit
      PROVE  kept = s.set
  <2>1. SubSeq(s.order, 1, 0) = << >>
    BY SubSeqEmpty
  <2>2. Entries(SubSeq(s.order, 1, 0)) = {}
    BY <2>1 DEF Entries
  <2>3. s.set \ Entries(SubSeq(s.order, 1, 0)) = s.set
    BY <2>2
  <2>4. IsEvictionCount(s.set, s.order, limit, 0)
    BY <1>8, <2>3 DEF IsEvictionCount
  <2>5. \A j \in 0 .. (0 - 1) : ~ IsEvictionCount(s.set, s.order, limit, j)
    OBVIOUS
  <2>6. 0 \in 0 .. n
    BY <1>1
  <2>7. k = 0
    BY <1>1, <2>4, <2>5, <2>6, FirstEvictionCount DEF k
  <2>8. QED
    BY <2>3, <2>7
<1>9. kept \subseteq s.set /\ kept \subseteq S
  OBVIOUS
<1> HIDE DEF kept, rest
<1>10. /\ Compacted(kept, rest, limit) \in Seq(S)
       /\ kept \subseteq Entries(Compacted(kept, rest, limit))
  BY <1>5, <1>6, CompactedKeepsMembers
<1>11. QED
  BY <1>3, <1>7, <1>8, <1>9, <1>10

\* A set within its limit whose members all have an entry, whatever entries
\* Consume left behind.
IsEvictable(s, S, limit) ==
    /\ s \in [set : SUBSET S, order : Seq(S)]
    /\ IsFiniteSet(s.set)
    /\ Cardinality(s.set) <= limit
    /\ s.set \subseteq Entries(s.order)

\* Adding keeps such a set such, and displaces no value unless it is full
\* (dedupe.go:19-29).
LEMMA AddKeepsEvictable ==
    ASSUME NEW S, NEW s, NEW v \in S, NEW limit \in Nat, IsEvictable(s, S, limit)
    PROVE  /\ IsEvictable(Add(s, v, limit), S, limit)
           /\ Cardinality(s.set) # limit => s.set \subseteq Add(s, v, limit).set
<1>1. CASE v \in s.set
  BY <1>1 DEF Add
<1>2. CASE v \notin s.set
  <2> DEFINE grown == [set |-> s.set \cup {v}, order |-> Append(s.order, v)]
  <2>1. Add(s, v, limit) = Trim(grown, limit)
    BY <1>2 DEF Add
  <2>2. s.order \in Seq(S) /\ s.set \subseteq S /\ s.set \subseteq Entries(s.order)
    BY DEF IsEvictable
  <2>3. /\ Append(s.order, v) \in Seq(S)
        /\ DOMAIN s.order = 1 .. Len(s.order) /\ Len(s.order) \in Nat
        /\ DOMAIN Append(s.order, v) = 1 .. (Len(s.order) + 1)
        /\ Append(s.order, v)[Len(s.order) + 1] = v
        /\ \A i \in 1 .. Len(s.order) : Append(s.order, v)[i] = s.order[i]
    BY <2>2, AppendProperties, LenProperties
  <2>4. \A i \in 1 .. Len(s.order) : i \in 1 .. (Len(s.order) + 1)
    BY <2>3
  <2>5. s.set \subseteq Entries(Append(s.order, v)) /\ v \in Entries(Append(s.order, v))
    BY <2>2, <2>3, <2>4 DEF Entries
  <2>6. IsFiniteSet(s.set \cup {v}) /\ Cardinality(s.set \cup {v}) = Cardinality(s.set) + 1
    BY <1>2, FS_AddElement DEF IsEvictable
  <2>7. grown \in [set : SUBSET S, order : Seq(S)]
    BY <2>2, <2>3
  <2>8. IsFiniteSet(grown.set) /\ grown.set \subseteq Entries(grown.order)
    BY <2>5, <2>6
  <2>9. s.set \subseteq grown.set /\ Cardinality(grown.set) = Cardinality(s.set) + 1
    BY <2>6
  <2>10. Cardinality(s.set) \in Nat /\ Cardinality(s.set) <= limit
    BY FS_CardinalityType DEF IsEvictable
  <2>11. Cardinality(s.set) # limit => Cardinality(grown.set) <= limit
    BY <2>9, <2>10
  <2> HIDE DEF grown
  <2>12. IsFiniteSet(Trim(grown, limit).set)
    BY <2>7, <2>8, TrimProperties, FS_Subset
  <2>13. QED
    BY <2>1, <2>7, <2>8, <2>9, <2>11, <2>12, TrimProperties DEF IsEvictable
<1>3. QED
  BY <1>1, <1>2

\* Consuming removes one member and no entry (dedupe.go:36-42).
LEMMA ConsumeKeepsEvictable ==
    ASSUME NEW S, NEW s, NEW v, NEW limit \in Nat, IsEvictable(s, S, limit)
    PROVE  IsEvictable(Consume(s, v), S, limit)
<1>1. /\ IsFiniteSet(s.set \ {v}) /\ Cardinality(s.set \ {v}) <= Cardinality(s.set)
      /\ Cardinality(s.set \ {v}) \in Nat /\ Cardinality(s.set) \in Nat
  <2>1. s.set \ {v} \in SUBSET s.set /\ IsFiniteSet(s.set)
    BY DEF IsEvictable
  <2>2. QED
    BY <2>1, FS_Subset, FS_CardinalityType
<1>2. QED
  BY <1>1 DEF IsEvictable, Consume

\* Nothing enters a set but the value added: trim only removes (dedupe.go:44).
LEMMA AddOnlyAddsItsValue ==
    ASSUME NEW s, NEW v, NEW limit
    PROVE  Add(s, v, limit).set \subseteq s.set \cup {v}
BY DEF Add, Trim

\* Adding to a window gives a window that contains the value: the map grew by
\* one, so trim pops nothing while there is room and the oldest value when
\* there is none (dedupe.go:45).
LEMMA AddKeepsWindow ==
    ASSUME NEW S, NEW s, NEW v \in S, NEW limit \in Nat \ {0},
           IsWindow(s, S, limit)
    PROVE  /\ IsWindow(Add(s, v, limit), S, limit)
           /\ Holds(Add(s, v, limit), v)
           /\ Holds(s, v) => Add(s, v, limit) = s
           /\ ~ Holds(s, v) =>
                 Add(s, v, limit).order =
                    IF Len(s.order) < limit
                    THEN Append(s.order, v)
                    ELSE Append(Tail(s.order), v)
<1>1. CASE Holds(s, v)
  BY <1>1 DEF Holds, Add
<1>2. CASE ~ Holds(s, v)
  <2> DEFINE n     == Len(s.order)
             grown == Append(s.order, v)
             all   == s.set \cup {v}
             k     == EvictionCount(all, grown, limit)
  <2>1. /\ s.order \in Seq(S)
        /\ n \in Nat
        /\ n <= limit
        /\ Len(s.order) = n
        /\ DOMAIN s.order = 1 .. n
        /\ s.set = Entries(s.order)
        /\ v \notin s.set
    BY <1>2, LenProperties DEF IsWindow, Holds
  <2>2. /\ grown \in Seq(S)
        /\ Len(grown) = n + 1
        /\ DOMAIN grown = 1 .. (n + 1)
        /\ grown[n + 1] = v
        /\ \A i \in 1 .. n : grown[i] = s.order[i]
    BY <2>1, AppendProperties, LenProperties
  <2>3. /\ IsFiniteSet(all)
        /\ Cardinality(all) = n + 1
    <3>1. IsFiniteSet(s.set) /\ Cardinality(s.set) = n
      BY <2>1, CardinalityOfEntries DEF IsWindow
    <3>2. QED
      BY <2>1, <3>1, FS_AddElement
  <2>4. \A i, j \in 1 .. (n + 1) : grown[i] = grown[j] => i = j
    <3>1. \A i \in 1 .. n : s.order[i] # v
      BY <2>1 DEF Entries
    <3>2. QED
      BY <2>1, <2>2, <3>1 DEF IsWindow
  <2>5. all = Entries(grown)
    BY <2>1, <2>2 DEF Entries
  <2>6. Add(s, v, limit) =
          [set   |-> all \ Entries(SubSeq(grown, 1, k)),
           order |-> Compacted(all \ Entries(SubSeq(grown, 1, k)),
                               DropOldest(grown, k), limit)]
    BY <2>1 DEF Add, Trim
  <2> HIDE DEF grown, all, k, n
  <2>7. Entries(SubSeq(grown, 1, 0)) = {} /\ DropOldest(grown, 0) = grown
    BY <2>2, SubSeqEmpty, SubSeqFull DEF DropOldest, Entries
  <2>8. \A q : Len(q) \in Nat /\ Len(q) <= limit =>
            \A T : Compacted(T, q, limit) = q
    BY DEF Compacted
  <2>9. CASE n < limit
    <3>1. k = 0
      <4>1. IsEvictionCount(all, grown, limit, 0)
        <5>1. Cardinality(all \ {}) <= limit
          BY <2>1, <2>3, <2>9
        <5>2. QED
          BY <2>7, <5>1 DEF IsEvictionCount
      <4>2. \A j \in 0 .. (0 - 1) : ~ IsEvictionCount(all, grown, limit, j)
        OBVIOUS
      <4>3. 0 \in 0 .. Len(grown) /\ Len(grown) \in Nat
        BY <2>1, <2>2
      <4>4. QED
        BY <4>1, <4>2, <4>3, FirstEvictionCount DEF k
    <3>2. Add(s, v, limit) = [set |-> all, order |-> grown]
      <4>1. Len(grown) \in Nat /\ Len(grown) <= limit
        BY <2>1, <2>2, <2>9
      <4>2. all \ Entries(SubSeq(grown, 1, k)) = all /\ DropOldest(grown, k) = grown
        BY <2>7, <3>1
      <4>3. QED
        BY <2>6, <2>8, <4>1, <4>2
    <3>3. IsWindow([set |-> all, order |-> grown], S, limit)
      <4>1. all \subseteq S
        BY DEF all, IsWindow
      <4>2. Len(grown) <= limit
        BY <2>1, <2>2, <2>9
      <4>3. QED
        BY <2>2, <2>4, <2>5, <4>1, <4>2 DEF IsWindow
    <3>4. v \in all
      BY DEF all
    <3>5. Len(s.order) < limit
      BY <2>1, <2>9
    <3>6. QED
      BY <1>2, <3>2, <3>3, <3>4, <3>5 DEF Holds, grown
  <2>10. CASE n = limit
    <3> DEFINE rest == SubSeq(grown, 2, n + 1)
               head == s.order[1]
    <3>0. n \in Nat \ {0} /\ n + 1 \in Nat
      BY <2>10
    <3>1. /\ rest \in Seq(S)
          /\ Len(rest) = n
          /\ DOMAIN rest = 1 .. n
          /\ \A i \in 1 .. n : rest[i] = grown[i + 1]
      <4>1. \A i \in 2 .. (n + 1) : grown[i] \in S
        BY <2>1, <2>2, ElementOfSeq
      <4>2. QED
        <5>1. /\ rest \in Seq(S)
              /\ Len(rest) = IF 2 <= n + 1 THEN (n + 1) - 2 + 1 ELSE 0
              /\ \A i \in 1 .. (n + 1) - 2 + 1 : rest[i] = grown[2 + i - 1]
          BY <3>0, <4>1, SubSeqProperties
        <5> HIDE DEF rest
        <5>2. Len(rest) = n /\ \A i \in 1 .. n : rest[i] = grown[i + 1]
          BY <3>0, <5>1
        <5>3. QED
          BY <5>1, <5>2, LenProperties
    <3>2. Entries(SubSeq(grown, 1, 1)) = {head}
      <4>1. /\ Len(SubSeq(grown, 1, 1)) = 1
            /\ SubSeq(grown, 1, 1) \in Seq(S)
            /\ SubSeq(grown, 1, 1)[1] = grown[1]
        <5>1. \A i \in 1 .. 1 : grown[i] \in S
          BY <2>1, <2>2, <2>10, ElementOfSeq
        <5>2. QED
          BY <5>1, SubSeqProperties
      <4>2. DOMAIN SubSeq(grown, 1, 1) = 1 .. 1
        BY <4>1, LenProperties
      <4>3. QED
        BY <2>1, <2>2, <2>10, <4>1, <4>2 DEF Entries
    <3> HIDE DEF rest
    <3>3. all \ {head} = Entries(rest)
      <4>1. head = grown[1] /\ 1 \in 1 .. (n + 1)
        BY <2>1, <2>2, <2>10
      <4>2. \A e : e \in Entries(rest) <=> \E i \in 2 .. (n + 1) : grown[i] = e
        <5>1. \A i \in 1 .. n : i + 1 \in 2 .. (n + 1)
          BY <2>1
        <5>2. \A i \in 2 .. (n + 1) : i - 1 \in 1 .. n /\ (i - 1) + 1 = i
          BY <2>1
        <5>3. Entries(rest) = {grown[i + 1] : i \in 1 .. n}
          BY <3>1 DEF Entries
        <5>4. ASSUME NEW e, e \in Entries(rest)
              PROVE  \E i \in 2 .. (n + 1) : grown[i] = e
          BY <5>1, <5>3, <5>4
        <5>5. ASSUME NEW i \in 2 .. (n + 1)
              PROVE  grown[i] \in Entries(rest)
          BY <5>2, <5>3
        <5>6. QED
          BY <5>4, <5>5
      <4>3. \A e : e \in all <=> \E i \in 1 .. (n + 1) : grown[i] = e
        BY <2>2, <2>5 DEF Entries
      <4>4. QED
        BY <2>1, <2>4, <4>1, <4>2, <4>3
    <3>4. Cardinality(all \ {head}) = n
      <4>1. head \in all
        <5>1. head = grown[1] /\ 1 \in DOMAIN grown
          BY <2>2, <3>0
        <5>2. QED
          BY <2>5, <5>1 DEF Entries
      <4> HIDE DEF head
      <4>2. Cardinality(all \ {head}) = Cardinality(all) - 1
        BY <2>3, <4>1, FS_RemoveElement
      <4>3. QED
        BY <2>3, <3>0, <4>2
    <3>5. k = 1
      <4>1. IsEvictionCount(all, grown, limit, 1)
        BY <2>10, <3>2, <3>4, <2>1 DEF IsEvictionCount
      <4>2. ~ IsEvictionCount(all, grown, limit, 0)
        <5>1. 0 # Len(grown)
          BY <2>1, <2>2
        <5>2. ~ (Cardinality(all \ {}) <= limit)
          BY <2>1, <2>3, <2>10
        <5>3. QED
          BY <2>7, <5>1, <5>2 DEF IsEvictionCount
      <4>3. \A j \in 0 .. (1 - 1) : ~ IsEvictionCount(all, grown, limit, j)
        BY <4>2
      <4>4. 1 \in 0 .. Len(grown) /\ Len(grown) \in Nat
        BY <2>1, <2>2
      <4>5. QED
        BY <4>1, <4>3, <4>4, FirstEvictionCount DEF k
    <3>6. DropOldest(grown, 1) = rest
      BY <2>2 DEF DropOldest, rest
    <3>7. Add(s, v, limit) = [set |-> Entries(rest), order |-> rest]
      BY <2>1, <2>6, <2>8, <2>10, <3>1, <3>2, <3>3, <3>5, <3>6
    <3>8. \A i, j \in 1 .. n : rest[i] = rest[j] => i = j
      BY <2>1, <2>4, <3>1
    <3>9. IsWindow([set |-> Entries(rest), order |-> rest], S, limit)
      <4>1. Entries(rest) \subseteq S
        BY <3>1 DEF Entries
      <4>2. QED
        BY <2>10, <2>1, <3>1, <3>8, <4>1 DEF IsWindow
    <3>10. v \in Entries(rest)
      <4>1. rest[n] = v /\ n \in DOMAIN rest
        BY <2>2, <3>0, <3>1
      <4>2. QED
        BY <4>1 DEF Entries
    <3>11. rest = Append(Tail(s.order), v)
      <4>1. s.order # << >>
        BY <2>1, <2>10
      <4>2. /\ Tail(s.order) \in Seq(S)
            /\ Len(Tail(s.order)) = n - 1
            /\ \A i \in 1 .. (n - 1) : Tail(s.order)[i] = s.order[i + 1]
        BY <2>1, <4>1
      <4>3. /\ Append(Tail(s.order), v) \in Seq(S)
            /\ Len(Append(Tail(s.order), v)) = n
            /\ \A i \in 1 .. (n - 1) : Append(Tail(s.order), v)[i] = s.order[i + 1]
            /\ Append(Tail(s.order), v)[n] = v
        BY <2>1, <2>10, <4>2, AppendProperties
      <4>4. \A i \in 1 .. n : rest[i] = Append(Tail(s.order), v)[i]
        BY <2>1, <2>2, <2>10, <3>1, <4>3
      <4>5. QED
        BY <3>1, <4>3, <4>4, SeqEqual
    <3>12. ~ (Len(s.order) < limit)
      BY <2>1, <2>10
    <3>13. QED
      BY <1>2, <3>7, <3>9, <3>10, <3>11, <3>12 DEF Holds
  <2>11. QED
    BY <2>1, <2>9, <2>10
<1>3. QED
  BY <1>1, <1>2
===============================================================================
