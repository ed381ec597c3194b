-------------------------- MODULE SubsequencesProofs --------------------------
(***************************************************************************)
(* What Picked returns, for lists of any length.  The entry at place i     *)
(* comes from the one index k of I with i members of I up to it.  The      *)
(* ranks of I are exactly 1 .. Cardinality(I), being as many and all       *)
(* different.                                                              *)
(***************************************************************************)
EXTENDS Subsequences, FiniteSetTheorems, FunctionTheorems, SequenceTheorems,
        TLAPS

\* The rank of k in I.
Rank(I, k) == Cardinality(I \cap (1 .. k))

\* What Picked chooses for place i.
Place(I, i) == CHOOSE k \in I : Rank(I, k) = i

\* Ranks are distinct, and there are as many as members.
LEMMA Ranks ==
    ASSUME NEW n \in Nat, NEW I \in SUBSET (1 .. n)
    PROVE  /\ IsFiniteSet(I) /\ Cardinality(I) \in Nat
           /\ \A k \in I : Rank(I, k) \in 1 .. Cardinality(I)
           /\ \A j, k \in I : Rank(I, j) = Rank(I, k) => j = k
           /\ \A i \in 1 .. Cardinality(I) : \E k \in I : Rank(I, k) = i
<1>1. IsFiniteSet(I) /\ Cardinality(I) \in Nat
  <2>1. IsFiniteSet(1 .. n)
    <3>1. n \in Int /\ 1 \in Int
      OBVIOUS
    <3>2. QED
      BY <3>1, FS_Interval
  <2>2. IsFiniteSet(I)
    BY <2>1, FS_Subset
  <2>3. QED
    BY <2>2, FS_CardinalityType
<1>2. ASSUME NEW k \in I
      PROVE  /\ IsFiniteSet(I \cap (1 .. k))
             /\ Rank(I, k) \in 1 .. Cardinality(I)
  <2>1. IsFiniteSet(I \cap (1 .. k)) /\ Cardinality(I \cap (1 .. k)) <= Cardinality(I)
    BY <1>1, FS_Subset
  <2>2. k \in I \cap (1 .. k)
    OBVIOUS
  <2>3. Cardinality(I \cap (1 .. k)) # 0
    BY <2>1, <2>2, FS_EmptySet
  <2>4. Cardinality(I \cap (1 .. k)) \in Nat
    BY <2>1, FS_CardinalityType
  <2>5. QED
    BY <1>1, <2>1, <2>3, <2>4 DEF Rank
<1>3. ASSUME NEW j \in I, NEW k \in I, j < k
      PROVE  Rank(I, j) # Rank(I, k)
  <2>1. I \cap (1 .. j) \in SUBSET (I \cap (1 .. k))
    BY <1>3
  <2>2. k \in I \cap (1 .. k) /\ k \notin I \cap (1 .. j)
    BY <1>3
  <2>3. I \cap (1 .. j) # I \cap (1 .. k)
    BY <2>2
  <2>4. QED
    BY <1>2, <2>1, <2>3, FS_Subset DEF Rank
<1> DEFINE r == [k \in I |-> Rank(I, k)]
           T == 1 .. Cardinality(I)
<1>4. r \in Injection(I, T)
  <2>1. r \in [I -> T]
    BY <1>2
  <2>2. \A j, k \in I : r[j] = r[k] => j = k
    BY <1>3
  <2>3. QED
    BY <2>1, <2>2, Fun_IsInj
<1>5. IsFiniteSet(T) /\ Cardinality(T) = Cardinality(I)
  <2>1. Cardinality(I) \in Int /\ 1 \in Int /\ Cardinality(I) >= 0
    BY <1>1
  <2>2. /\ IsFiniteSet(T)
        /\ Cardinality(T) = IF 1 > Cardinality(I) THEN 0 ELSE Cardinality(I) - 1 + 1
    BY <2>1, FS_Interval
  <2>3. QED
    BY <2>1, <2>2
<1>6. r \in Surjection(I, T)
  BY <1>1, <1>4, <1>5, FS_Injection
<1>7. \A i \in T : \E k \in I : r[k] = i
  <2> HIDE DEF r, T
  <2>1. QED
    BY <1>6 DEF Surjection
<1>8. \A j, k \in I : Rank(I, j) = Rank(I, k) => j = k
  BY <1>3
<1>9. QED
  BY <1>1, <1>2, <1>7, <1>8

\* A bounded set of places that is not empty has a last one: the one with the
\* highest rank.
LEMMA LastPlace ==
    ASSUME NEW n \in Nat, NEW I \in SUBSET (1 .. n), I # {}
    PROVE  \E k \in I : \A j \in I : j <= k
<1>1. /\ IsFiniteSet(I) /\ Cardinality(I) \in Nat
      /\ \A i \in 1 .. Cardinality(I) : \E k \in I : Rank(I, k) = i
  BY Ranks
<1>2. Cardinality(I) \in 1 .. Cardinality(I)
  <2>1. Cardinality(I) # 0
    BY <1>1, FS_EmptySet
  <2>2. QED
    BY <1>1, <2>1
<1>3. PICK k \in I : Rank(I, k) = Cardinality(I)
  BY <1>1, <1>2
<1>4. I \cap (1 .. k) = I
  <2>1. I \cap (1 .. k) \in SUBSET I
    OBVIOUS
  <2>2. QED
    BY <1>1, <1>3, <2>1, FS_Subset DEF Rank
<1>5. \A j \in I : j <= k
  BY <1>4
<1>6. QED
  BY <1>5

\* And it has a first one, of rank one.
LEMMA FirstPlace ==
    ASSUME NEW n \in Nat, NEW I \in SUBSET (1 .. n), I # {}
    PROVE  \E k \in I : \A j \in I : k <= j
<1>1. /\ IsFiniteSet(I) /\ Cardinality(I) \in Nat
      /\ \A k \in I : Rank(I, k) \in 1 .. Cardinality(I)
      /\ \A j, k \in I : Rank(I, j) = Rank(I, k) => j = k
      /\ \A i \in 1 .. Cardinality(I) : \E k \in I : Rank(I, k) = i
  BY Ranks
<1>2. 1 \in 1 .. Cardinality(I)
  <2>1. Cardinality(I) # 0
    BY <1>1, FS_EmptySet
  <2>2. QED
    BY <1>1, <2>1
<1>3. PICK k \in I : Rank(I, k) = 1
  BY <1>1, <1>2
<1>4. ASSUME NEW j \in I
      PROVE  k <= j
  <2>1. SUFFICES ASSUME j < k
                 PROVE  FALSE
    OBVIOUS
  <2>2. I \cap (1 .. j) \in SUBSET (I \cap (1 .. k))
    BY <2>1
  <2>3. IsFiniteSet(I \cap (1 .. k))
    BY <1>1, FS_Subset
  <2>4. Rank(I, j) <= Rank(I, k)
    BY <2>2, <2>3, FS_Subset DEF Rank
  <2>5. Rank(I, j) = Rank(I, k)
    BY <1>1, <1>3, <2>4
  <2>6. QED
    BY <1>1, <2>1, <2>5
<1>5. QED
  BY <1>4

\* Picked gives the entries of its indices, each index one place.
LEMMA PickedPlaces ==
    ASSUME NEW S, NEW list \in Seq(S), NEW I \in SUBSET DOMAIN list
    PROVE  /\ Cardinality(I) \in Nat /\ Cardinality(I) <= Len(list)
           /\ Picked(list, I) \in Seq(S)
           /\ Len(Picked(list, I)) = Cardinality(I)
           /\ DOMAIN Picked(list, I) = 1 .. Cardinality(I)
           /\ \A i \in 1 .. Cardinality(I) :
                 /\ Place(I, i) \in I /\ Rank(I, Place(I, i)) = i
                 /\ Picked(list, I)[i] = list[Place(I, i)]
<1>1. DOMAIN list = 1 .. Len(list) /\ Len(list) \in Nat
  BY LenProperties
<1>2. /\ Cardinality(I) \in Nat
      /\ \A i \in 1 .. Cardinality(I) : \E k \in I : Rank(I, k) = i
  BY <1>1, Ranks
<1>3. \A i \in 1 .. Cardinality(I) :
         Place(I, i) \in I /\ Rank(I, Place(I, i)) = i
  BY <1>2 DEF Place
<1>4. Picked(list, I) = [i \in 1 .. Cardinality(I) |-> list[Place(I, i)]]
  BY DEF Picked, Place, Rank
<1>5. \A i \in 1 .. Cardinality(I) : list[Place(I, i)] \in S
  BY <1>1, <1>3, ElementOfSeq
<1>6. Picked(list, I) \in [1 .. Cardinality(I) -> S]
  BY <1>4, <1>5
<1>7. Picked(list, I) \in Seq(S) /\ Len(Picked(list, I)) = Cardinality(I)
  BY <1>2, <1>6, IsASeq, LenProperties
<1>8. Cardinality(I) <= Len(list)
  <2>1. Len(list) \in Int /\ 1 \in Int
    BY <1>1
  <2>2. /\ IsFiniteSet(1 .. Len(list))
        /\ Cardinality(1 .. Len(list)) = IF 1 > Len(list) THEN 0 ELSE Len(list) - 1 + 1
    BY <2>1, FS_Interval
  <2>3. Cardinality(I) <= Cardinality(1 .. Len(list))
    BY <1>1, <2>2, FS_Subset
  <2>4. QED
    BY <1>1, <1>2, <2>2, <2>3
<1>9. QED
  BY <1>2, <1>3, <1>4, <1>7, <1>8

\* No picked entry is lost, and none is added.
LEMMA PickedEntries ==
    ASSUME NEW S, NEW list \in Seq(S), NEW I \in SUBSET DOMAIN list
    PROVE  {Picked(list, I)[i] : i \in DOMAIN Picked(list, I)} = {list[k] : k \in I}
<1>1. DOMAIN list = 1 .. Len(list) /\ Len(list) \in Nat
  BY LenProperties
<1>2. /\ \A k \in I : Rank(I, k) \in 1 .. Cardinality(I)
      /\ \A j, k \in I : Rank(I, j) = Rank(I, k) => j = k
  BY <1>1, Ranks
<1>3. /\ DOMAIN Picked(list, I) = 1 .. Cardinality(I)
      /\ \A i \in 1 .. Cardinality(I) :
            /\ Place(I, i) \in I /\ Rank(I, Place(I, i)) = i
            /\ Picked(list, I)[i] = list[Place(I, i)]
  BY PickedPlaces
<1>4. ASSUME NEW k \in I
      PROVE  \E i \in DOMAIN Picked(list, I) : Picked(list, I)[i] = list[k]
  <2>1. Place(I, Rank(I, k)) = k
    BY <1>2, <1>3
  <2>2. QED
    BY <1>2, <1>3, <2>1
<1>5. QED
  BY <1>3, <1>4

\* Entries that differ pairwise are picked without repetition.
LEMMA PickedNoRepeats ==
    ASSUME NEW S, NEW list \in Seq(S), NEW I \in SUBSET DOMAIN list,
           \A j, k \in I : list[j] = list[k] => j = k
    PROVE  NoRepeats(Picked(list, I))
<1> SUFFICES ASSUME NEW i \in 1 .. Cardinality(I), NEW j \in 1 .. Cardinality(I),
                    Picked(list, I)[i] = Picked(list, I)[j]
             PROVE  i = j
  BY PickedPlaces DEF NoRepeats
<1>1. /\ Place(I, i) \in I /\ Rank(I, Place(I, i)) = i
      /\ Place(I, j) \in I /\ Rank(I, Place(I, j)) = j
      /\ list[Place(I, i)] = list[Place(I, j)]
  BY PickedPlaces
<1>2. Place(I, i) = Place(I, j)
  BY <1>1
<1>3. QED
  BY <1>1, <1>2

\* All entries of a list, picked.
LEMMA PickedAll ==
    ASSUME NEW S, NEW list \in Seq(S)
    PROVE  Picked(list, DOMAIN list) = list
<1>1. DOMAIN list = 1 .. Len(list) /\ Len(list) \in Nat
  BY LenProperties
<1>2. \A k \in 0 .. Len(list) : Cardinality(1 .. k) = k
  <2> SUFFICES ASSUME NEW k \in 0 .. Len(list)
               PROVE  Cardinality(1 .. k) = k
    OBVIOUS
  <2>1. k \in Int /\ 1 \in Int /\ k >= 0
    BY <1>1
  <2>2. Cardinality(1 .. k) = IF 1 > k THEN 0 ELSE k - 1 + 1
    BY <2>1, FS_Interval
  <2>3. QED
    BY <2>1, <2>2
<1>3. Cardinality(DOMAIN list) = Len(list)
  BY <1>1, <1>2
<1>4. \A k \in DOMAIN list : Rank(DOMAIN list, k) = k
  <2> SUFFICES ASSUME NEW k \in 1 .. Len(list)
               PROVE  Cardinality((1 .. Len(list)) \cap (1 .. k)) = k
    BY <1>1 DEF Rank
  <2>1. (1 .. Len(list)) \cap (1 .. k) = 1 .. k
    BY <1>1
  <2>2. Cardinality((1 .. Len(list)) \cap (1 .. k)) = Cardinality(1 .. k)
    BY <2>1
  <2>3. k \in 0 .. Len(list)
    BY <1>1
  <2>4. QED
    BY <1>2, <2>2, <2>3
<1>5. \A i \in 1 .. Len(list) : Picked(list, DOMAIN list)[i] = list[i]
  <2> SUFFICES ASSUME NEW i \in 1 .. Len(list)
               PROVE  Picked(list, DOMAIN list)[i] = list[i]
    OBVIOUS
  <2>1. /\ Place(DOMAIN list, i) \in DOMAIN list
        /\ Rank(DOMAIN list, Place(DOMAIN list, i)) = i
        /\ Picked(list, DOMAIN list)[i] = list[Place(DOMAIN list, i)]
    BY <1>3, PickedPlaces
  <2>2. QED
    BY <1>4, <2>1
<1>6. Picked(list, DOMAIN list) \in Seq(S) /\ Len(Picked(list, DOMAIN list)) = Len(list)
  BY <1>3, PickedPlaces
<1>7. QED
  BY <1>5, <1>6, SeqEqual
===============================================================================
