------------------------ MODULE ClipboardRuntimeProofs ------------------------
(***************************************************************************)
(* The data path of the runtime for every number of events, texts, topics  *)
(* and configurations and every capacity of the window: its types, the     *)
(* consistency of the pending queue, and the promise that no event is      *)
(* applied twice while the window remembers it.                            *)
(***************************************************************************)
EXTENDS ClipboardRuntime, BoundedStringSetProofs

NoRepetition(q) == \A i, j \in DOMAIN q : q[i] = q[j] => i = j

-------------------------------------------------------------------------------
(* The queue operations. *)

\* Dropping the first entry for id from an order without repetitions drops
\* id and nothing else (runtime.go:925-934).
LEMMA WithoutFirstRemoves ==
    ASSUME NEW S, NEW q \in Seq(S), NoRepetition(q), NEW id
    PROVE  /\ WithoutFirst(q, id) \in Seq(S)
           /\ NoRepetition(WithoutFirst(q, id))
           /\ Entries(WithoutFirst(q, id)) = Entries(q) \ {id}
           /\ Len(WithoutFirst(q, id)) <= Len(q)
<1> DEFINE n == Len(q)
<1>1. n \in Nat /\ DOMAIN q = 1 .. n /\ \A i \in 1 .. n : q[i] \in S
  BY LenProperties, ElementOfSeq
<1>2. CASE id \notin Entries(q)
  BY <1>1, <1>2 DEF WithoutFirst
<1>3. CASE id \in Entries(q)
  <2> DEFINE First(i) == /\ i \in DOMAIN q
                         /\ q[i] = id
                         /\ \A j \in 1 .. (i - 1) : q[j] # id
             k == CHOOSE i \in DOMAIN q :
                      /\ q[i] = id
                      /\ \A j \in 1 .. (i - 1) : q[j] # id
             a == SubSeq(q, 1, k - 1)
             b == SubSeq(q, k + 1, n)
  <2>1. PICK m \in 1 .. n : q[m] = id
    BY <1>1, <1>3 DEF Entries
  <2>2. \A j \in 1 .. (m - 1) : q[j] # id
    BY <1>1, <2>1 DEF NoRepetition
  <2>3. k \in 1 .. n /\ q[k] = id
    BY <1>1, <2>1, <2>2
  <2>4. WithoutFirst(q, id) = a \o b
    BY <1>3 DEF WithoutFirst
  <2> HIDE DEF k, n
  <2>5. /\ a \in Seq(S)
        /\ Len(a) = k - 1
        /\ \A i \in 1 .. (k - 1) : a[i] = q[i]
    <3>1. \A i \in 1 .. (k - 1) : q[i] \in S
      BY <1>1, <2>3
    <3>2. /\ a \in Seq(S)
          /\ Len(a) = IF 1 <= k - 1 THEN (k - 1) - 1 + 1 ELSE 0
          /\ \A i \in 1 .. (k - 1) - 1 + 1 : a[i] = q[1 + i - 1]
      BY <1>1, <2>3, <3>1, SubSeqProperties
    <3> HIDE DEF a
    <3>3. QED
      BY <1>1, <2>3, <3>2
  <2>6. /\ b \in Seq(S)
        /\ Len(b) = n - k
        /\ \A i \in 1 .. (n - k) : b[i] = q[k + i]
    <3>1. \A i \in (k + 1) .. n : q[i] \in S
      BY <1>1, <2>3
    <3>2. /\ b \in Seq(S)
          /\ Len(b) = IF k + 1 <= n THEN n - (k + 1) + 1 ELSE 0
          /\ \A i \in 1 .. n - (k + 1) + 1 : b[i] = q[(k + 1) + i - 1]
      BY <1>1, <2>3, <3>1, SubSeqProperties
    <3> HIDE DEF b
    <3>3. QED
      BY <1>1, <2>3, <3>2
  <2> HIDE DEF a, b
  <2> DEFINE c == a \o b
  <2>7. /\ c \in Seq(S)
        /\ Len(c) = n - 1
        /\ \A i \in 1 .. (k - 1) : c[i] = q[i]
        /\ \A i \in k .. (n - 1) : c[i] = q[i + 1]
    <3>1. /\ c \in Seq(S)
          /\ Len(c) = Len(a) + Len(b)
          /\ \A i \in 1 .. Len(a) + Len(b) :
                c[i] = IF i <= Len(a) THEN a[i] ELSE b[i - Len(a)]
      BY <2>5, <2>6, ConcatProperties
    <3> HIDE DEF c
    <3>2. n \in Nat /\ k \in 1 .. n
      BY <1>1, <2>3 DEF n
    <3>3. \A i \in k .. (n - 1) : i - (k - 1) \in 1 .. (n - k)
      BY <3>2
    <3>4. Len(c) = n - 1 /\ Len(a) + Len(b) = n - 1 /\ Len(a) = k - 1
      BY <2>5, <2>6, <3>1, <3>2
    <3>5. \A i \in 1 .. (k - 1) : c[i] = q[i]
      BY <2>5, <3>1, <3>2, <3>4
    <3>6. ASSUME NEW i \in k .. (n - 1)
          PROVE  c[i] = q[i + 1]
      <4>1. i \in 1 .. (n - 1) /\ ~ (i <= k - 1) /\ k + (i - (k - 1)) = i + 1
        BY <3>2
      <4>2. c[i] = b[i - (k - 1)]
        BY <3>1, <3>4, <4>1
      <4>3. b[i - (k - 1)] = q[k + (i - (k - 1))]
        BY <2>6, <3>3
      <4>4. QED
        BY <4>1, <4>2, <4>3
    <3>7. QED
      BY <3>1, <3>4, <3>5, <3>6
  <2> HIDE DEF c
  <2>8. DOMAIN c = 1 .. (n - 1)
    BY <2>7, LenProperties
  <2>9. \A i \in 1 .. (n - 1) :
           /\ i < k => c[i] = q[i]
           /\ i >= k => c[i] = q[i + 1]
    BY <1>1, <2>3, <2>7 DEF n
  <2>10. \A i, j \in 1 .. n : q[i] = q[j] => i = j
    BY <1>1 DEF NoRepetition
  <2>11. NoRepetition(c)
    <3>1. SUFFICES ASSUME NEW i \in 1 .. (n - 1), NEW j \in 1 .. (n - 1),
                          c[i] = c[j]
                   PROVE  i = j
      BY <2>8 DEF NoRepetition
    <3>2. n \in Nat /\ k \in 1 .. n
      BY <1>1, <2>3 DEF n
    <3>3. QED
      BY <2>9, <2>10, <3>1, <3>2
  <2>12. Entries(c) = Entries(q) \ {id}
    <3>0. n \in Nat /\ k \in 1 .. n
      BY <1>1, <2>3 DEF n
    <3>1. ASSUME NEW e, e \in Entries(c)
          PROVE  e \in Entries(q) \ {id}
      <4>1. PICK i \in 1 .. (n - 1) : c[i] = e
        BY <2>8, <3>1 DEF Entries
      <4>2. CASE i < k
        <5>1. e = q[i] /\ i \in 1 .. n /\ i # k
          BY <2>9, <3>0, <4>1, <4>2
        <5>2. QED
          BY <1>1, <2>3, <2>10, <5>1 DEF Entries, n
      <4>3. CASE i >= k
        <5>1. e = q[i + 1] /\ i + 1 \in 1 .. n /\ i + 1 # k
          BY <2>9, <3>0, <4>1, <4>3
        <5>2. QED
          BY <1>1, <2>3, <2>10, <5>1 DEF Entries, n
      <4>4. QED
        BY <3>0, <4>2, <4>3
    <3>2. ASSUME NEW e, e \in Entries(q) \ {id}
          PROVE  e \in Entries(c)
      <4>1. PICK i \in 1 .. n : q[i] = e
        BY <1>1, <3>2 DEF Entries, n
      <4>2. i # k
        BY <2>3, <3>2, <4>1
      <4>3. CASE i < k
        <5>1. c[i] = e /\ i \in 1 .. (n - 1)
          BY <2>9, <3>0, <4>1, <4>3
        <5>2. QED
          BY <2>8, <5>1 DEF Entries
      <4>4. CASE i > k
        <5>1. i - 1 \in 1 .. (n - 1) /\ i - 1 >= k /\ (i - 1) + 1 = i
          BY <3>0, <4>1, <4>4
        <5>2. c[i - 1] = e
          BY <2>9, <4>1, <5>1
        <5>3. QED
          BY <2>8, <5>1, <5>2 DEF Entries
      <4>5. QED
        BY <3>0, <4>1, <4>2, <4>3, <4>4
    <3>3. QED
      BY <3>1, <3>2
  <2>13. Len(c) <= Len(q)
    BY <1>1, <2>7 DEF n
  <2>14. QED
    BY <2>4, <2>7, <2>11, <2>12, <2>13 DEF c
<1>4. QED
  BY <1>2, <1>3

\* Remembering an id keeps the window, makes the id a member, and whatever
\* the window loses is forgotten (dedupe.go:19-29).
LEMMA RememberKeepsWindow ==
    ASSUME NEW id \in Ids, IsWindow(recentEvents, Ids, RecentLimit),
           Remember(id)
    PROVE  /\ IsWindow(recentEvents', Ids, RecentLimit)
           /\ id \in recentEvents'.set
           /\ recentEvents'.set \subseteq recentEvents.set \cup {id}
           /\ recentEvents.set \subseteq recentEvents'.set \cup forgotten'
           /\ forgotten \subseteq forgotten'
           /\ forgotten' \subseteq forgotten \cup recentEvents.set
<1> DEFINE r == Add(recentEvents, id, RecentLimit)
<1>1. recentEvents' = r /\ forgotten' = forgotten \cup (recentEvents.set \ r.set)
  BY DEF Remember
<1>2. IsWindow(r, Ids, RecentLimit) /\ id \in r.set
  BY AddKeepsWindow, LimitAssumption DEF Holds
<1>3. r.set \subseteq recentEvents.set \cup {id}
  BY AddOnlyAddsItsValue
<1> HIDE DEF r
<1>4. QED
  BY <1>1, <1>2, <1>3

\* The queue invariant, on any id set.
IsQueue == /\ pendingRemote = Entries(pendingOrder)
           /\ NoRepetition(pendingOrder)
           /\ pendingOrder \in Seq(TextIds)
           /\ Len(pendingOrder) <= RecentLimit

\* Deleting an entry keeps the queue (runtime.go:925-934).
LEMMA DeletePendingKeepsQueue ==
    ASSUME NEW id, IsQueue, DeletePending(id)
    PROVE  IsQueue' /\ pendingRemote' = pendingRemote \ {id}
<1> DEFINE q == WithoutFirst(pendingOrder, id)
<1>1. /\ q \in Seq(TextIds)
      /\ NoRepetition(q)
      /\ Entries(q) = Entries(pendingOrder) \ {id}
      /\ Len(q) <= Len(pendingOrder)
  BY WithoutFirstRemoves DEF IsQueue
<1>2. pendingOrder' = q /\ pendingRemote' = pendingRemote \ {id}
  BY DEF DeletePending
<1>3. Len(q) \in Nat /\ Len(pendingOrder) \in Nat
  BY <1>1, LenProperties DEF IsQueue
<1>4. Len(q) <= RecentLimit
  BY <1>1, <1>3, LimitAssumption DEF IsQueue
<1> HIDE DEF q
<1>5. QED
  BY <1>1, <1>2, <1>4 DEF IsQueue

\* Queueing an event keeps the queue; when it was full, its oldest event
\* leaves it for recentEvents (runtime.go:897-923).
LEMMA AddPendingKeepsQueue ==
    ASSUME NEW id \in TextIds, IsQueue, id \notin pendingRemote, AddPending(id)
    PROVE  /\ IsQueue'
           /\ \/ /\ pendingRemote' = pendingRemote \cup {id}
                 /\ UNCHANGED <<recentEvents, forgotten, overflowed>>
                 /\ Len(pendingOrder) < RecentLimit
                 /\ pendingOrder' = Append(pendingOrder, id)
              \/ \E old \in pendingRemote :
                    /\ old # id
                    /\ pendingRemote' = (pendingRemote \cup {id}) \ {old}
                    /\ Remember(old)
                    /\ overflowed' = overflowed \cup {old}
                    /\ Len(pendingOrder) = RecentLimit
                    /\ old = Head(pendingOrder)
                    /\ pendingOrder' = Append(Tail(pendingOrder), id)
<1> DEFINE n     == Len(pendingOrder)
           queue == Append(pendingOrder, id)
           all   == pendingRemote \cup {id}
<1>1. /\ n \in Nat /\ DOMAIN pendingOrder = 1 .. n
      /\ n <= RecentLimit /\ RecentLimit \in Nat \ {0}
      /\ pendingOrder \in Seq(TextIds)
      /\ pendingRemote = Entries(pendingOrder)
      /\ \A i, j \in 1 .. n : pendingOrder[i] = pendingOrder[j] => i = j
  BY LenProperties, LimitAssumption DEF IsQueue, NoRepetition
<1>2. /\ queue \in Seq(TextIds)
      /\ Len(queue) = n + 1
      /\ DOMAIN queue = 1 .. (n + 1)
      /\ queue[n + 1] = id
      /\ \A i \in 1 .. n : queue[i] = pendingOrder[i]
  BY <1>1, AppendProperties, LenProperties
<1>3. \A i \in 1 .. n : pendingOrder[i] # id
  BY <1>1 DEF Entries
<1> HIDE DEF queue, n
<1>4. \A i, j \in 1 .. (n + 1) : queue[i] = queue[j] => i = j
  BY <1>1, <1>2, <1>3
<1>5. all = Entries(queue)
  BY <1>1, <1>2 DEF Entries
<1>6. Cardinality(all) = n + 1
  BY <1>2, <1>4, <1>5, CardinalityOfEntries
<1> HIDE DEF all
<1>7. CASE n + 1 <= RecentLimit
  <2>1. /\ pendingRemote' = all
        /\ pendingOrder' = queue
        /\ UNCHANGED <<recentEvents, forgotten, overflowed>>
    BY <1>6, <1>7 DEF AddPending, all, queue
  <2>2. IsQueue'
    BY <1>2, <1>4, <1>5, <1>7, <2>1 DEF IsQueue, NoRepetition
  <2>3. Len(pendingOrder) < RecentLimit
    BY <1>1, <1>7 DEF n
  <2>4. QED
    BY <2>1, <2>2, <2>3 DEF all, queue
<1>8. CASE ~ (n + 1 <= RecentLimit)
  <2> DEFINE old == Head(queue)
             rest == Tail(queue)
  <2>1. /\ pendingRemote' = all \ {old}
        /\ pendingOrder' = rest
        /\ Remember(old)
        /\ overflowed' = overflowed \cup {old}
    BY <1>6, <1>8 DEF AddPending, all, queue
  <2>2. n = RecentLimit /\ 1 \in 1 .. n /\ 1 \in 1 .. (n + 1)
    BY <1>1, <1>8
  <2>3. old = queue[1] /\ old = pendingOrder[1]
    BY <1>2, <2>2
  <2>4. /\ rest \in Seq(TextIds)
        /\ Len(rest) = n
        /\ \A i \in 1 .. n : rest[i] = queue[i + 1]
    <3>1. queue # << >>
      BY <1>1, <1>2
    <3>2. /\ Tail(queue) \in Seq(TextIds)
          /\ Len(Tail(queue)) = Len(queue) - 1
          /\ \A i \in 1 .. Len(Tail(queue)) : Tail(queue)[i] = queue[i + 1]
      BY <1>2, <3>1, HeadTailProperties
    <3>3. QED
      BY <1>1, <1>2, <3>2
  <2>5. DOMAIN rest = 1 .. n
    BY <2>4, LenProperties
  <2> HIDE DEF rest, old
  <2>6. NoRepetition(rest)
    BY <1>1, <1>4, <2>4, <2>5 DEF NoRepetition
  <2>7. Entries(rest) = all \ {old}
    <3>1. ASSUME NEW e, e \in Entries(rest)
          PROVE  e \in all \ {old}
      <4>1. PICK i \in 1 .. n : rest[i] = e
        BY <2>5, <3>1 DEF Entries
      <4>2. e = queue[i + 1] /\ i + 1 \in 1 .. (n + 1) /\ i + 1 # 1
        BY <1>1, <2>4, <4>1
      <4>3. QED
        BY <1>2, <1>4, <1>5, <2>2, <2>3, <4>2 DEF Entries
    <3>2. ASSUME NEW e, e \in all \ {old}
          PROVE  e \in Entries(rest)
      <4>1. PICK i \in 1 .. (n + 1) : queue[i] = e
        BY <1>2, <1>5, <3>2 DEF Entries
      <4>2. i # 1
        BY <2>3, <3>2, <4>1
      <4>3. i - 1 \in 1 .. n /\ (i - 1) + 1 = i
        BY <1>1, <4>1, <4>2
      <4>4. rest[i - 1] = e
        BY <2>4, <4>1, <4>3
      <4>5. QED
        BY <2>5, <4>3, <4>4 DEF Entries
    <3>3. QED
      BY <3>1, <3>2
  <2>8. old \in pendingRemote /\ old # id
    BY <1>1, <1>3, <2>2, <2>3 DEF Entries
  <2>9. IsQueue'
    BY <2>1, <2>2, <2>4, <2>6, <2>7 DEF IsQueue
  <2>10. Len(pendingOrder) = RecentLimit /\ old = Head(pendingOrder)
    BY <2>2, <2>3 DEF n
  <2>11. rest = Append(Tail(pendingOrder), id)
    <3>1. /\ pendingOrder # << >>
          /\ Len(pendingOrder) = n
      BY <2>2 DEF n
    <3>2. /\ Tail(pendingOrder) \in Seq(TextIds)
          /\ Len(Tail(pendingOrder)) = n - 1
          /\ \A i \in 1 .. (n - 1) : Tail(pendingOrder)[i] = pendingOrder[i + 1]
      BY <1>1, <3>1, HeadTailProperties
    <3> DEFINE after == Append(Tail(pendingOrder), id)
    <3>3. /\ after \in Seq(TextIds) /\ Len(after) = n
          /\ after[n] = id
          /\ \A i \in 1 .. (n - 1) : after[i] = pendingOrder[i + 1]
      BY <1>1, <2>2, <3>2, AppendProperties
    <3> HIDE DEF after
    <3>4. \A i \in 1 .. n : rest[i] = after[i]
      BY <1>1, <1>2, <2>2, <2>4, <3>3
    <3>5. rest = after
      BY <2>4, <3>3, <3>4, SeqEqual
    <3>6. QED
      BY <3>5 DEF after
  <2>12. QED
    BY <2>1, <2>8, <2>9, <2>10, <2>11 DEF all
<1>9. QED
  BY <1>7, <1>8

-------------------------------------------------------------------------------
(* Types, the window and the queue. *)

\* What the calls in progress hold, beyond its type.
ThreadShape ==
    /\ consumer.pc # "idle" => consumer.id \in Ids
    /\ consumer.pc \in {"write", "record"} => consumer.id \in TextIds
    /\ applier.pc # "idle" => applier.id \in TextIds
    /\ \A t \in LocalThreads :
          /\ local[t].pc # "idle" => local[t].text \in Texts
          /\ local[t].pc = "publish" => local[t].id \in OwnIds

\* The inductive invariant of the types.
RuntimeInv ==
    /\ TypeOK
    /\ IsWindow(recentEvents, Ids, RecentLimit)
    /\ IsQueue
    /\ ThreadShape

\* The inductive invariant of at-most-once application.  An event that still
\* waits or is remembered is written by one thread at most: the consumer only
\* holds events nobody queued, and the command's event stays queued or
\* remembered until it is forgotten.
HistoryInv ==
    /\ PendingIsUnsettled
    /\ consumer.pc \in {"write", "record"} =>
          /\ consumer.id \notin pendingRemote
          /\ consumer.id \in recentEvents.set => consumer.id \in forgotten
    /\ consumer.pc = "record" => consumer.id \in applied
    /\ applier.pc # "idle" =>
          applier.id \in pendingRemote \cup recentEvents.set \cup forgotten
    /\ applier.pc = "record" => applier.id \in applied
    /\ \A e \in applied :
          \/ e \in recentEvents.set \cup forgotten
          \/ consumer.pc = "record" /\ consumer.id = e
          \/ applier.pc = "record" /\ applier.id = e
    /\ applier.pc = "write" /\ applier.id \in applied => applier.id \in forgotten
    /\ \A e \in pendingRemote \cap applied :
          \/ e \in forgotten
          \/ applier.pc = "record" /\ applier.id = e
    /\ AppliedOnceWhileRemembered
    /\ DuplicateMeansSettled

\* A decision leaves a queued event, or none, in the status.
LEMMA RecordDecisionType ==
    ASSUME NEW order \in Seq(TextIds), RecordDecision(order)
    PROVE  statusPending' \in TextIds \cup {NoEvent}
<1>1. order # << >> => order[Len(order)] \in TextIds
  BY LenProperties, ElementOfSeq, EmptySeq
<1>2. QED
  BY <1>1 DEF RecordDecision

LEMMA RuntimeInvInitial == Init => RuntimeInv
<1> SUFFICES ASSUME Init PROVE RuntimeInv
  OBVIOUS
<1>1. /\ \A S : << >> \in Seq(S)
      /\ Len(<< >>) = 0 /\ DOMAIN << >> = {}
  OBVIOUS
<1>2. IsWindow(recentEvents, Ids, RecentLimit)
  BY <1>1, LimitAssumption DEF Init, IsWindow, EmptyBoundedSet, Entries
<1>3. IsQueue
  BY <1>1, LimitAssumption DEF Init, IsQueue, NoRepetition, Entries
<1>4. ThreadShape
  BY DEF Init, ThreadShape, IdleLocal, IdleApplier, IdleConsumer, LocalThreads
<1>5. TypeOK
  BY <1>1, ConfigAssumption
     DEF Init, TypeOK, EmptyBoundedSet, IdleLocal, IdleApplier, IdleConsumer,
         LocalCalls, Writers
<1>6. QED
  BY <1>2, <1>3, <1>4, <1>5 DEF RuntimeInv

\* The part of the invariant about the calls of HandleLocalText.
LocalShape ==
    /\ local \in [LocalThreads -> LocalCalls]
    /\ \A t \in LocalThreads :
          /\ local[t].pc # "idle" => local[t].text \in Texts
          /\ local[t].pc = "publish" => local[t].id \in OwnIds

\* The end of a call of HandleLocalText.
LEMMA EndLocalType ==
    ASSUME RuntimeInv, NEW t \in LocalThreads, EndLocal(t)
    PROVE  LocalShape' /\ statusPending' \in TextIds \cup {NoEvent}
<1>1. statusPending' \in TextIds \cup {NoEvent}
  BY RecordDecisionType DEF EndLocal, RuntimeInv, TypeOK
<1>2. IdleLocal \in LocalCalls /\ IdleLocal.pc = "idle"
  BY DEF IdleLocal, LocalCalls, Writers
<1>3. local' = [local EXCEPT ![t] = IdleLocal]
  BY DEF EndLocal
<1>4. LocalShape'
  BY <1>2, <1>3 DEF LocalShape, RuntimeInv, TypeOK, ThreadShape
<1>5. QED
  BY <1>1, <1>4

\* The event that StartPublish builds carries an id of this node.
LEMMA StartPublishType ==
    ASSUME RuntimeInv, NEW t \in LocalThreads, NEW targets \in Seq(Topics),
           local[t].text \in Texts, StartPublish(t, targets)
    PROVE  /\ LocalShape'
           /\ statusPending' \in TextIds \cup {NoEvent}
           /\ usedIds' \subseteq OwnIds /\ wanted' \in [OwnIds -> Seq(Topics)]
<1>1. PICK id \in OwnIds \ usedIds :
         /\ usedIds' = usedIds \cup {id}
         /\ wanted' = [wanted EXCEPT ![id] = targets]
         /\ local' = [local EXCEPT ![t].pc = "publish", ![t].id = id,
                                   ![t].todo = targets]
         /\ UNCHANGED statusPending
  BY DEF StartPublish
<1> DEFINE call == [local[t] EXCEPT !.pc = "publish", !.id = id, !.todo = targets]
<1>2. local[t] \in LocalCalls /\ local \in [LocalThreads -> LocalCalls]
  BY DEF RuntimeInv, TypeOK
<1>3. call \in LocalCalls /\ call.text = local[t].text /\ call.id = id
  BY <1>2 DEF LocalCalls
<1>4. local' = [local EXCEPT ![t] = call]
  BY <1>1, <1>2
<1> HIDE DEF call
<1>5. LocalShape'
  BY <1>2, <1>3, <1>4 DEF LocalShape, RuntimeInv, ThreadShape
<1>6. QED
  BY <1>1, <1>5 DEF RuntimeInv, TypeOK

\* HandleLocalText begins with a text of the clipboard or of a command.
LEMMA BeginLocalType ==
    ASSUME RuntimeInv, NEW t \in LocalThreads, NEW text \in Texts,
           NEW by \in Writers, BeginLocal(t, text, by),
           watch' \in [last : Texts \cup {NoText}, held : Texts \cup {NoText},
                       by : Writers]
    PROVE  RuntimeInv'
<1> DEFINE call == [pc   |-> IF text \in cfg.inline THEN "check" ELSE "manifest",
                    text |-> text, by |-> by, todo |-> cfg.publishTo,
                    id   |-> NoEvent]
<1>1. cfg.publishTo \in Seq(Topics)
  BY ConfigAssumption DEF RuntimeInv, TypeOK, Config
<1>2. call \in LocalCalls /\ call.text \in Texts /\ call.pc # "publish"
  BY <1>1 DEF LocalCalls
<1>3. \/ RecordDecision(pendingOrder) /\ UNCHANGED local
      \/ local' = [local EXCEPT ![t] = call] /\ UNCHANGED statusPending
  BY DEF BeginLocal
<1> HIDE DEF call
<1>4. statusPending' \in TextIds \cup {NoEvent}
  BY <1>3, RecordDecisionType DEF RuntimeInv, TypeOK
<1>5. LocalShape
  BY DEF LocalShape, RuntimeInv, TypeOK, ThreadShape
<1>6. LocalShape'
  <2>1. CASE UNCHANGED local
    BY <2>1, <1>5 DEF LocalShape
  <2>2. CASE local' = [local EXCEPT ![t] = call]
    BY <2>2, <1>2, <1>5 DEF LocalShape
  <2>3. QED
    BY <1>3, <2>1, <2>2
<1>7. QED
  BY <1>4, <1>6
     DEF BeginLocal, LocalShape, RuntimeInv, TypeOK, IsQueue, ThreadShape, historyVars

\* Every step keeps the types, the window and the queue.
LEMMA RuntimeInvPreserved == RuntimeInv /\ [Next]_vars => RuntimeInv'
<1> SUFFICES ASSUME RuntimeInv, [Next]_vars
             PROVE  RuntimeInv'
  OBVIOUS
<1> USE DEF RuntimeInv
<1>1. ASSUME NEW t \in UserTexts, UserCopies(t)
      PROVE  RuntimeInv'
  BY <1>1, TextsAssumption
     DEF UserCopies, Writers, TypeOK, IsQueue, ThreadShape, runtimeVars, threadVars, historyVars
<1>2. ASSUME WatchPoll
      PROVE  RuntimeInv'
  BY <1>2 DEF WatchPoll, TypeOK, IsQueue, ThreadShape, runtimeVars, threadVars, historyVars
<1>3. ASSUME WatchGivesUp
      PROVE  RuntimeInv'
  <2>1. watch' \in [last : Texts \cup {NoText}, held : Texts \cup {NoText}, by : Writers]
    BY <1>3 DEF WatchGivesUp, TypeOK, Writers
  <2>2. QED
    BY <1>3, <2>1 DEF WatchGivesUp, TypeOK, IsQueue, ThreadShape, runtimeVars, threadVars, historyVars
<1>4. ASSUME WatcherReceives
      PROVE  RuntimeInv'
  <2>1. /\ BeginLocal("watcher", watch.held, watch.by)
        /\ watch.held \in Texts /\ watch.by \in Writers
    BY <1>4 DEF WatcherReceives, TypeOK
  <2>2. watch' \in [last : Texts \cup {NoText}, held : Texts \cup {NoText}, by : Writers]
    BY <1>4 DEF WatcherReceives, TypeOK, Writers
  <2>3. QED
    BY <2>1, <2>2, BeginLocalType DEF LocalThreads
<1>5. ASSUME NEW t \in UserTexts, SendText(t)
      PROVE  RuntimeInv'
  <2>1. /\ BeginLocal("command", t, "user")
        /\ t \in Texts /\ "user" \in Writers
    BY <1>5, TextsAssumption DEF SendText, Writers
  <2>2. watch' \in [last : Texts \cup {NoText}, held : Texts \cup {NoText}, by : Writers]
    BY <1>5 DEF SendText, TypeOK
  <2>3. QED
    BY <2>1, <2>2, BeginLocalType DEF LocalThreads
<1>6. ASSUME NEW t \in LocalThreads, CheckLocal(t)
      PROVE  RuntimeInv'
  <2>1. /\ local[t].todo \in Seq(Topics)
        /\ local[t].text \in Texts
        /\ suppressHashes'.set \subseteq Texts
    BY <1>6 DEF CheckLocal, Consume, TypeOK, LocalCalls, ThreadShape
  <2>2. \/ EndLocal(t) /\ UNCHANGED <<usedIds, wanted>>
        \/ StartPublish(t, local[t].todo)
    BY <1>6 DEF CheckLocal
  <2>3. /\ usedIds' \subseteq OwnIds /\ wanted' \in [OwnIds -> Seq(Topics)]
        /\ statusPending' \in TextIds \cup {NoEvent}
        /\ LocalShape'
    BY <2>1, <2>2, EndLocalType, StartPublishType DEF TypeOK
  <2>4. QED
    BY <1>6, <2>1, <2>3 DEF CheckLocal, LocalShape, TypeOK, IsQueue, ThreadShape, historyVars
<1>7. ASSUME NEW t \in LocalThreads, CheckManifest(t)
      PROVE  RuntimeInv'
  <2>1. cfg.publishTo \in Seq(Topics) /\ local[t].text \in Texts
    BY <1>7, ConfigAssumption DEF CheckManifest, Config, TypeOK, ThreadShape
  <2>2. \/ EndLocal(t) /\ UNCHANGED <<usedIds, wanted>>
        \/ StartPublish(t, cfg.publishTo)
    BY <1>7 DEF CheckManifest
  <2>3. /\ usedIds' \subseteq OwnIds /\ wanted' \in [OwnIds -> Seq(Topics)]
        /\ statusPending' \in TextIds \cup {NoEvent}
        /\ LocalShape'
    BY <2>1, <2>2, EndLocalType, StartPublishType DEF TypeOK
  <2>4. QED
    BY <1>7, <2>3 DEF CheckManifest, LocalShape, TypeOK, IsQueue, ThreadShape, historyVars
<1>8. ASSUME NEW t \in LocalThreads, PublishSucceeds(t)
      PROVE  RuntimeInv'
  <2>1. /\ local[t] \in LocalCalls /\ local[t].text \in Texts
        /\ local[t].id \in OwnIds /\ local[t].todo \in Seq(Topics)
        /\ local[t].todo # << >>
    BY <1>8 DEF PublishSucceeds, TypeOK, LocalCalls, ThreadShape
  <2>2. Head(local[t].todo) \in Topics /\ Tail(local[t].todo) \in Seq(Topics)
    BY <2>1, HeadTailProperties
  <2>3. bus' \subseteq [topic : Topics, id : OwnIds, text : Texts]
    BY <1>8, <2>1, <2>2 DEF PublishSucceeds, MessageTo, TypeOK
  <2>4. local' = [local EXCEPT ![t] = [@ EXCEPT !.todo = Tail(local[t].todo)]]
    BY <1>8 DEF PublishSucceeds, TypeOK
  <2>5. LocalShape'
    BY <2>1, <2>2, <2>4 DEF LocalShape, LocalCalls, TypeOK, ThreadShape
  <2>6. QED
    BY <1>8, <2>3, <2>5
       DEF PublishSucceeds, LocalShape, TypeOK, IsQueue, ThreadShape, runtimeVars, historyVars
<1>9. ASSUME NEW t \in LocalThreads, PublishFails(t)
      PROVE  RuntimeInv'
  <2>1. /\ local[t].text \in Texts /\ local[t].id \in OwnIds
        /\ local[t].todo \in Seq(Topics) /\ local[t].todo # << >>
    BY <1>9 DEF PublishFails, TypeOK, LocalCalls, ThreadShape
  <2>2. Head(local[t].todo) \in Topics
    BY <2>1, HeadTailProperties
  <2>3. bus' \subseteq [topic : Topics, id : OwnIds, text : Texts]
    BY <1>9, <2>1, <2>2 DEF PublishFails, MessageTo, TypeOK
  <2>4. statusPending' \in TextIds \cup {NoEvent} /\ LocalShape'
    BY <1>9, EndLocalType DEF PublishFails
  <2>5. QED
    BY <1>9, <2>3, <2>4
       DEF PublishFails, LocalShape, TypeOK, IsQueue, ThreadShape, historyVars
<1>10. ASSUME NEW t \in LocalThreads, RecordPublished(t)
       PROVE  RuntimeInv'
  <2>1. local[t].text \in Texts /\ local[t].id \in Ids
    BY <1>10 DEF RecordPublished, ThreadShape, Ids
  <2>2. /\ IsWindow(recentEvents', Ids, RecentLimit)
        /\ forgotten' \subseteq forgotten \cup recentEvents.set
    BY <1>10, <2>1, RememberKeepsWindow DEF RecordPublished
  <2>3. recentEvents' \in [set : SUBSET Ids, order : Seq(Ids)] /\ forgotten' \subseteq Ids
    BY <2>2 DEF IsWindow, TypeOK
  <2>4. statusPending' \in TextIds \cup {NoEvent} /\ LocalShape'
    BY <1>10, EndLocalType DEF RecordPublished
  <2>5. QED
    BY <1>10, <2>1, <2>2, <2>3, <2>4
       DEF RecordPublished, LocalShape, TypeOK, IsQueue, ThreadShape, outsideVars
<1>11. ASSUME NEW m \in Messages, ReceiveMessage(m)
       PROVE  RuntimeInv'
  BY <1>11, RecordDecisionType, ConfigAssumption
     DEF ReceiveMessage, Messages, Config, TypeOK, IsQueue, ThreadShape, Ids, historyVars, outsideVars
<1>12. ASSUME DecideMessage
       PROVE  RuntimeInv'
  <2> DEFINE id == consumer.id
  <2>1. /\ id \in Ids
        /\ id \notin OwnIds /\ id \notin Manifests => id \in TextIds
    BY <1>12 DEF DecideMessage, ThreadShape, Ids, TextIds
  <2>2. CASE UNCHANGED recentEvents /\ UNCHANGED <<pendingRemote, pendingOrder, forgotten, overflowed>>
    <3>1. /\ statusPending' \in TextIds \cup {NoEvent}
          /\ \/ consumer' = IdleConsumer
             \/ consumer' = [consumer EXCEPT !.pc = "write"] /\ id \in TextIds
      BY <1>12, <2>1, <2>2, RecordDecisionType
         DEF DecideMessage, IsLocalOrigin, CarriesText, TypeOK
    <3>2. /\ consumer' \in [pc : {"idle", "decide", "write", "record"},
                            id : Ids \cup {NoEvent}, auto : BOOLEAN]
          /\ consumer'.pc # "idle" => consumer'.id \in TextIds
      <4>1. CASE consumer' = IdleConsumer
        BY <4>1 DEF IdleConsumer
      <4>2. CASE consumer' = [consumer EXCEPT !.pc = "write"] /\ id \in TextIds
        <5>1. consumer'.id = id
          BY <4>2 DEF TypeOK
        <5>2. QED
          BY <4>2, <5>1 DEF TypeOK
      <4>3. QED
        BY <3>1, <4>1, <4>2
    <3>3. consumer'.pc # "idle" => consumer'.id \in Ids
      BY <3>2 DEF TextIds, Ids
    <3>4. QED
      BY <1>12, <2>2, <3>1, <3>2, <3>3
         DEF DecideMessage, TypeOK, IsQueue, ThreadShape, outsideVars
  <2>3. CASE Remember(id) /\ consumer' = IdleConsumer /\ RecordDecision(pendingOrder)
             /\ UNCHANGED <<pendingRemote, pendingOrder, overflowed>>
    <3>1. /\ IsWindow(recentEvents', Ids, RecentLimit)
          /\ forgotten' \subseteq forgotten \cup recentEvents.set
      BY <2>1, <2>3, RememberKeepsWindow
    <3>2. recentEvents' \in [set : SUBSET Ids, order : Seq(Ids)] /\ forgotten' \subseteq Ids
      BY <3>1 DEF IsWindow, TypeOK
    <3>3. QED
      BY <1>12, <2>3, <3>1, <3>2, RecordDecisionType
         DEF DecideMessage, IdleConsumer, TypeOK, IsQueue, ThreadShape, outsideVars
  <2>4. CASE /\ AddPending(id) /\ consumer' = IdleConsumer /\ RecordDecision(pendingOrder')
             /\ id \in TextIds /\ id \notin pendingRemote
    <3>1. /\ IsQueue'
          /\ pendingRemote' \subseteq pendingRemote \cup {id}
          /\ \/ UNCHANGED <<recentEvents, forgotten, overflowed>>
             \/ \E old \in pendingRemote :
                    Remember(old) /\ overflowed' = overflowed \cup {old}
      BY <2>4, AddPendingKeepsQueue
    <3>2. /\ IsWindow(recentEvents', Ids, RecentLimit)
          /\ forgotten' \subseteq forgotten \cup recentEvents.set
          /\ overflowed' \subseteq TextIds
      <4>1. CASE UNCHANGED <<recentEvents, forgotten, overflowed>>
        BY <4>1 DEF TypeOK
      <4>2. ASSUME NEW old \in pendingRemote, Remember(old), overflowed' = overflowed \cup {old}
            PROVE  /\ IsWindow(recentEvents', Ids, RecentLimit)
                   /\ forgotten' \subseteq forgotten \cup recentEvents.set
                   /\ overflowed' \subseteq TextIds
        <5>1. old \in TextIds /\ old \in Ids
          BY <4>2 DEF TypeOK, TextIds, Ids
        <5>2. QED
          BY <4>2, <5>1, RememberKeepsWindow DEF TypeOK
      <4>3. QED
        BY <3>1, <4>1, <4>2
    <3>3. recentEvents' \in [set : SUBSET Ids, order : Seq(Ids)] /\ forgotten' \subseteq Ids
      BY <3>2 DEF IsWindow, TypeOK
    <3>4. pendingRemote' \subseteq TextIds /\ pendingOrder' \in Seq(TextIds)
      BY <2>4, <3>1 DEF IsQueue, TypeOK
    <3>5. statusPending' \in TextIds \cup {NoEvent}
      BY <2>4, <3>4, RecordDecisionType
    <3>6. QED
      BY <1>12, <2>4, <3>1, <3>2, <3>3, <3>4, <3>5
         DEF DecideMessage, IdleConsumer, TypeOK, ThreadShape, outsideVars
  <2>5. QED
    BY <1>12, <2>1, <2>2, <2>3, <2>4 DEF DecideMessage, IsLocalOrigin, AlreadyHandled, CarriesText
<1>13. ASSUME ConsumerWrites
       PROVE  RuntimeInv'
  <2>1. consumer.id \in TextIds /\ consumer.id \in RemoteIds
    BY <1>13 DEF ConsumerWrites, ThreadShape, TextIds
  <2>2. /\ clipboard' \in [text : Texts \cup {NoText}, by : Writers]
        /\ applied' \subseteq TextIds /\ reapplied' \subseteq TextIds
    BY <1>13, <2>1, TextsAssumption DEF ConsumerWrites, WriteClipboard, Writers, TypeOK
  <2>3. /\ consumer' \in [pc : {"idle", "decide", "write", "record"},
                        id : Ids \cup {NoEvent}, auto : BOOLEAN]
        /\ consumer'.id = consumer.id
    BY <1>13 DEF ConsumerWrites, TypeOK
  <2>4. QED
    BY <1>13, <2>1, <2>2, <2>3
       DEF ConsumerWrites, TypeOK, IsQueue, ThreadShape, Ids, runtimeVars
<1>14. ASSUME ConsumerWriteFails
       PROVE  RuntimeInv'
  BY <1>14, RecordDecisionType
     DEF ConsumerWriteFails, IdleConsumer, TypeOK, IsQueue, ThreadShape, historyVars, outsideVars
<1>15. ASSUME ConsumerRecords
       PROVE  RuntimeInv'
  BY <1>15, RecordDecisionType, RememberKeepsWindow, TextsAssumption, AddOnlyAddsItsValue
     DEF ConsumerRecords, IdleConsumer, TypeOK, IsQueue, IsWindow, ThreadShape, Ids, TextIds, outsideVars
<1>16. ASSUME NEW id \in Ids, LookUpPending(id)
       PROVE  RuntimeInv'
  BY <1>16 DEF LookUpPending, TypeOK, IsQueue, ThreadShape, runtimeVars, historyVars, outsideVars
<1>17. ASSUME ApplierWrites
       PROVE  RuntimeInv'
  <2>1. applier.id \in TextIds /\ applier.id \in RemoteIds
    BY <1>17 DEF ApplierWrites, ThreadShape, TextIds
  <2>2. /\ clipboard' \in [text : Texts \cup {NoText}, by : Writers]
        /\ applied' \subseteq TextIds /\ reapplied' \subseteq TextIds
    BY <1>17, <2>1, TextsAssumption DEF ApplierWrites, WriteClipboard, Writers, TypeOK
  <2>3. /\ applier' \in [pc : {"idle", "write", "record"},
                       id : TextIds \cup {NoEvent}]
        /\ applier'.id = applier.id
    BY <1>17 DEF ApplierWrites, TypeOK
  <2>4. QED
    BY <1>17, <2>1, <2>2, <2>3
       DEF ApplierWrites, TypeOK, IsQueue, ThreadShape, Ids, runtimeVars
<1>18. ASSUME ApplierWriteFails
       PROVE  RuntimeInv'
  BY <1>18, RecordDecisionType
     DEF ApplierWriteFails, IdleApplier, TypeOK, IsQueue, ThreadShape, historyVars, outsideVars
<1>19. ASSUME ApplierRecords
       PROVE  RuntimeInv'
  <2>1. applier.id \in TextIds /\ applier.id \in Ids /\ RemoteText[applier.id] \in Texts
    BY <1>19, TextsAssumption DEF ApplierRecords, ThreadShape, TextIds, Ids
  <2>2. /\ IsWindow(recentEvents', Ids, RecentLimit)
        /\ forgotten' \subseteq forgotten \cup recentEvents.set
    BY <1>19, <2>1, RememberKeepsWindow DEF ApplierRecords
  <2>3. recentEvents' \in [set : SUBSET Ids, order : Seq(Ids)] /\ forgotten' \subseteq Ids
    BY <2>2 DEF IsWindow, TypeOK
  <2>4. IsQueue' /\ pendingRemote' \subseteq pendingRemote
    BY <1>19, DeletePendingKeepsQueue DEF ApplierRecords
  <2>5. pendingRemote' \subseteq TextIds /\ pendingOrder' \in Seq(TextIds)
    BY <2>4 DEF IsQueue, TypeOK
  <2>6. suppressHashes'.set \subseteq Texts
    BY <1>19, <2>1, AddOnlyAddsItsValue DEF ApplierRecords, TypeOK
  <2>7. statusPending' \in TextIds \cup {NoEvent}
    BY <1>19, <2>5, RecordDecisionType DEF ApplierRecords
  <2>8. QED
    BY <1>19, <2>1, <2>2, <2>3, <2>4, <2>5, <2>6, <2>7
       DEF ApplierRecords, IdleApplier, TypeOK, ThreadShape, outsideVars
<1>20. ASSUME NEW c \in Configs, UpdateConfig(c)
       PROVE  RuntimeInv'
  <2>1. pendingRemote' \subseteq TextIds /\ IsQueue'
    <3>1. << >> \in Seq(TextIds) /\ Len(<< >>) = 0 /\ DOMAIN << >> = {}
      OBVIOUS
    <3>2. CASE pendingRemote' = {} /\ pendingOrder' = << >>
      BY <3>1, <3>2, LimitAssumption DEF IsQueue, NoRepetition, Entries
    <3>3. CASE UNCHANGED <<pendingRemote, pendingOrder>>
      BY <3>3 DEF TypeOK, IsQueue
    <3>4. QED
      BY <1>20, <3>2, <3>3 DEF UpdateConfig
  <2>2. watch' \in [last : Texts \cup {NoText}, held : Texts \cup {NoText}, by : Writers]
    BY <1>20 DEF UpdateConfig, TypeOK
  <2>3. QED
    BY <1>20, <2>1, <2>2
       DEF UpdateConfig, TypeOK, IsQueue, ThreadShape, threadVars, historyVars
<1>21. CASE UNCHANGED vars
  BY <1>21 DEF vars, runtimeVars, threadVars, outsideVars, historyVars, TypeOK, IsQueue, ThreadShape
<1>22. QED
  BY <1>1, <1>2, <1>3, <1>4, <1>5, <1>6, <1>7, <1>8, <1>9, <1>10, <1>11,
     <1>12, <1>13, <1>14, <1>15, <1>16, <1>17, <1>18, <1>19, <1>20, <1>21
     DEF Next

-------------------------------------------------------------------------------
(* At most once. *)

\* Nothing is applied, handled or queued at the start.
LEMMA HistoryInvInitial == Init => HistoryInv
BY DEF Init, HistoryInv, PendingIsUnsettled, AppliedOnceWhileRemembered,
       DuplicateMeansSettled, EmptyBoundedSet,
       IdleConsumer, IdleApplier

\* What HistoryInv is about.
historyState == <<recentEvents, pendingRemote, consumer, applier, applied,
                  reapplied, forgotten, overflowed>>

\* Every step keeps the history invariant.
LEMMA HistoryInvPreserved ==
    RuntimeInv /\ HistoryInv /\ [Next]_vars => HistoryInv'
<1> SUFFICES ASSUME RuntimeInv, HistoryInv, [Next]_vars
             PROVE  HistoryInv'
  OBVIOUS
<1> USE DEF PendingIsUnsettled, AppliedOnceWhileRemembered,
            DuplicateMeansSettled
<1>1. ASSUME UNCHANGED historyState
      PROVE  HistoryInv'
  BY <1>1 DEF historyState, HistoryInv
<1>2. ASSUME NEW t \in LocalThreads, RecordPublished(t)
      PROVE  HistoryInv'
  <2>1. local[t].id \in OwnIds /\ local[t].id \in Ids /\ local[t].id \notin TextIds
    BY <1>2, IdsAssumption DEF RecordPublished, RuntimeInv, ThreadShape, Ids, TextIds
  <2>2. /\ recentEvents'.set \subseteq recentEvents.set \cup {local[t].id}
        /\ recentEvents.set \subseteq recentEvents'.set \cup forgotten'
        /\ forgotten \subseteq forgotten'
    BY <1>2, <2>1, RememberKeepsWindow DEF RecordPublished, RuntimeInv
  <2>3. pendingRemote \subseteq TextIds
    BY DEF RuntimeInv, TypeOK
  <2>4. consumer.pc \in {"write", "record"} => consumer.id \in TextIds
    BY DEF RuntimeInv, ThreadShape
  <2>5. UNCHANGED <<pendingRemote, consumer, applier, applied, reapplied, overflowed>>
    BY <1>2 DEF RecordPublished
  <2>6. QED
    BY <2>1, <2>2, <2>3, <2>4, <2>5 DEF HistoryInv
<1>3. ASSUME NEW m \in Messages, ReceiveMessage(m)
      PROVE  HistoryInv'
  BY <1>3 DEF ReceiveMessage, HistoryInv, historyVars, outsideVars
<1>4. ASSUME DecideMessage
      PROVE  HistoryInv'
  <2> DEFINE id == consumer.id
  <2>1. /\ consumer.pc = "decide" /\ id \in Ids
        /\ UNCHANGED <<applier, applied, reapplied>>
        /\ pendingRemote \subseteq TextIds
    BY <1>4 DEF DecideMessage, RuntimeInv, TypeOK, ThreadShape, outsideVars
  <2>2. CASE /\ consumer' = IdleConsumer
             /\ UNCHANGED <<recentEvents, pendingRemote, forgotten, overflowed>>
    BY <2>1, <2>2 DEF HistoryInv, IdleConsumer
  <2>3. CASE /\ consumer' = IdleConsumer
             /\ id \notin TextIds
             /\ Remember(id)
             /\ UNCHANGED <<pendingRemote, overflowed>>
    <3>1. /\ recentEvents'.set \subseteq recentEvents.set \cup {id}
          /\ recentEvents.set \subseteq recentEvents'.set \cup forgotten'
          /\ forgotten \subseteq forgotten'
      BY <2>1, <2>3, RememberKeepsWindow DEF RuntimeInv
    <3>2. QED
      BY <2>1, <2>3, <3>1 DEF HistoryInv, IdleConsumer
  <2>4. CASE /\ consumer' = IdleConsumer
             /\ id \in TextIds
             /\ id \notin recentEvents.set
             /\ id \notin pendingRemote
             /\ AddPending(id)
    <3>1. id \in applied => id \in forgotten
      BY <2>1, <2>4 DEF HistoryInv
    <3>2. \/ /\ pendingRemote' = pendingRemote \cup {id}
             /\ UNCHANGED <<recentEvents, forgotten, overflowed>>
          \/ \E old \in pendingRemote :
                /\ old # id
                /\ pendingRemote' = (pendingRemote \cup {id}) \ {old}
                /\ Remember(old)
                /\ overflowed' = overflowed \cup {old}
      BY <2>4, AddPendingKeepsQueue DEF RuntimeInv
    <3>3. CASE /\ pendingRemote' = pendingRemote \cup {id}
               /\ UNCHANGED <<recentEvents, forgotten, overflowed>>
      BY <2>1, <2>4, <3>1, <3>3 DEF HistoryInv, IdleConsumer
    <3>4. ASSUME NEW old \in pendingRemote,
                 old # id,
                 pendingRemote' = (pendingRemote \cup {id}) \ {old},
                 Remember(old),
                 overflowed' = overflowed \cup {old}
          PROVE  HistoryInv'
      <4>1. old \in Ids
        BY <2>1 DEF TextIds, Ids
      <4>2. /\ old \in recentEvents'.set
            /\ recentEvents'.set \subseteq recentEvents.set \cup {old}
            /\ recentEvents.set \subseteq recentEvents'.set \cup forgotten'
            /\ forgotten \subseteq forgotten'
        BY <3>4, <4>1, RememberKeepsWindow DEF RuntimeInv
      <4>3. consumer'.pc = "idle"
        BY <2>4 DEF IdleConsumer
      <4>4. QED
        BY <2>1, <2>4, <3>1, <3>4, <4>2, <4>3 DEF HistoryInv
    <3>5. QED
      BY <3>2, <3>3, <3>4
  <2>5. CASE /\ consumer' = [consumer EXCEPT !.pc = "write"]
             /\ id \notin recentEvents.set
             /\ id \notin pendingRemote
             /\ UNCHANGED <<recentEvents, pendingRemote, forgotten, overflowed>>
    <3>1. consumer'.pc = "write" /\ consumer'.id = id
      BY <2>5 DEF RuntimeInv, TypeOK
    <3>2. QED
      BY <2>1, <2>5, <3>1 DEF HistoryInv
  <2>6. QED
    <3>1. IsLocalOrigin(id) \/ id \in RemoteIds
      BY <2>1 DEF IsLocalOrigin, Ids
    <3>2. id \notin OwnIds /\ CarriesText(id) => id \in TextIds
      BY <2>1 DEF CarriesText, TextIds, Ids
    <3>3. ~ CarriesText(id) => id \notin TextIds
      BY DEF CarriesText, TextIds
    <3>4. QED
      BY <1>4, <2>2, <2>3, <2>4, <2>5, <3>1, <3>2, <3>3
         DEF DecideMessage, IsLocalOrigin, AlreadyHandled, Holds
<1>5. ASSUME ConsumerWrites
      PROVE  HistoryInv'
  <2>1. /\ consumer.pc = "write"
        /\ consumer'.pc = "record" /\ consumer'.id = consumer.id
        /\ applied' = applied \cup {consumer.id}
        /\ reapplied' = IF consumer.id \in applied
                        THEN reapplied \cup {consumer.id} ELSE reapplied
        /\ UNCHANGED <<recentEvents, pendingRemote, applier, forgotten, overflowed>>
    BY <1>5 DEF ConsumerWrites, WriteClipboard, RuntimeInv, TypeOK, runtimeVars
  <2>2. /\ consumer.id \notin pendingRemote
        /\ consumer.id \in recentEvents.set => consumer.id \in forgotten
    BY <2>1 DEF HistoryInv
  <2>3. applier.pc # "idle" /\ applier.id = consumer.id => consumer.id \in forgotten
    BY <2>2 DEF HistoryInv
  <2>4. consumer.id \in applied => consumer.id \in forgotten
    BY <2>1, <2>2, <2>3 DEF HistoryInv
  <2>5. QED
    BY <2>1, <2>2, <2>3, <2>4 DEF HistoryInv
<1>6. ASSUME ConsumerWriteFails
      PROVE  HistoryInv'
  BY <1>6 DEF ConsumerWriteFails, IdleConsumer, HistoryInv, historyVars, outsideVars
<1>7. ASSUME ConsumerRecords
      PROVE  HistoryInv'
  <2>1. /\ consumer.pc = "record" /\ consumer'.pc = "idle"
        /\ Remember(consumer.id)
        /\ UNCHANGED <<pendingRemote, applier, applied, reapplied, overflowed>>
    BY <1>7 DEF ConsumerRecords, IdleConsumer, outsideVars
  <2>2. consumer.id \in Ids
    BY <2>1 DEF RuntimeInv, ThreadShape
  <2>3. /\ consumer.id \in recentEvents'.set
        /\ recentEvents'.set \subseteq recentEvents.set \cup {consumer.id}
        /\ recentEvents.set \subseteq recentEvents'.set \cup forgotten'
        /\ forgotten \subseteq forgotten'
    BY <2>1, <2>2, RememberKeepsWindow DEF RuntimeInv
  <2>4. consumer.id \notin pendingRemote /\ consumer.id \in applied
    BY <2>1 DEF HistoryInv
  <2>5. QED
    BY <2>1, <2>3, <2>4 DEF HistoryInv
<1>8. ASSUME NEW id \in Ids, LookUpPending(id)
      PROVE  HistoryInv'
  <2>1. /\ applier.pc = "idle" /\ applier'.pc = "write" /\ applier'.id = id
        /\ id \in pendingRemote
        /\ UNCHANGED <<recentEvents, pendingRemote, consumer, applied, reapplied,
                       forgotten, overflowed>>
    BY <1>8 DEF LookUpPending, CommandIdle, runtimeVars, historyVars
  <2>2. QED
    BY <2>1 DEF HistoryInv
<1>9. ASSUME ApplierWrites
      PROVE  HistoryInv'
  <2>1. /\ applier.pc = "write"
        /\ applier'.pc = "record" /\ applier'.id = applier.id
        /\ applied' = applied \cup {applier.id}
        /\ reapplied' = IF applier.id \in applied
                        THEN reapplied \cup {applier.id} ELSE reapplied
        /\ UNCHANGED <<recentEvents, pendingRemote, consumer, forgotten, overflowed>>
    BY <1>9 DEF ApplierWrites, WriteClipboard, RuntimeInv, TypeOK, runtimeVars
  <2>2. QED
    BY <2>1 DEF HistoryInv
<1>10. ASSUME ApplierWriteFails
       PROVE  HistoryInv'
  <2>1. /\ applier.pc = "write" /\ applier'.pc = "idle"
        /\ UNCHANGED <<recentEvents, pendingRemote, consumer, applied, reapplied,
                       forgotten, overflowed>>
    BY <1>10 DEF ApplierWriteFails, IdleApplier, historyVars, outsideVars
  <2>2. QED
    BY <2>1 DEF HistoryInv
<1>11. ASSUME ApplierRecords
       PROVE  HistoryInv'
  <2>1. /\ applier.pc = "record" /\ applier'.pc = "idle"
        /\ Remember(applier.id)
        /\ DeletePending(applier.id)
        /\ UNCHANGED <<consumer, applied, reapplied, overflowed>>
    BY <1>11 DEF ApplierRecords, IdleApplier, outsideVars
  <2>2. applier.id \in Ids
    BY <2>1 DEF RuntimeInv, ThreadShape, TextIds, Ids
  <2>3. /\ applier.id \in recentEvents'.set
        /\ recentEvents'.set \subseteq recentEvents.set \cup {applier.id}
        /\ recentEvents.set \subseteq recentEvents'.set \cup forgotten'
        /\ forgotten \subseteq forgotten'
    BY <2>1, <2>2, RememberKeepsWindow DEF RuntimeInv
  <2>4. pendingRemote' = pendingRemote \ {applier.id}
    BY <2>1 DEF DeletePending
  <2>5. applier.id \in applied
    BY <2>1 DEF HistoryInv
  <2>6. /\ consumer.pc \in {"write", "record"} /\ consumer.id = applier.id
           => consumer.id \in forgotten
    BY <2>1 DEF HistoryInv
  <2>7. QED
    BY <2>1, <2>3, <2>4, <2>5, <2>6 DEF HistoryInv
<1>12. ASSUME NEW c \in Configs, UpdateConfig(c)
       PROVE  HistoryInv'
  <2>1. /\ applier.pc = "idle"
        /\ pendingRemote' \subseteq pendingRemote
        /\ UNCHANGED <<recentEvents, consumer, applier, applied, reapplied,
                       forgotten, overflowed>>
    BY <1>12 DEF UpdateConfig, CommandIdle, threadVars, historyVars
  <2>2. QED
    BY <2>1 DEF HistoryInv
<1>13. QED
  <2>1. ASSUME \/ \E t \in UserTexts : UserCopies(t) \/ SendText(t)
               \/ WatchPoll \/ WatchGivesUp \/ WatcherReceives
               \/ \E t \in LocalThreads : \/ CheckLocal(t) \/ CheckManifest(t)
                                          \/ PublishSucceeds(t) \/ PublishFails(t)
               \/ UNCHANGED vars
        PROVE  UNCHANGED historyState
    BY <2>1 DEF historyState, vars, runtimeVars, threadVars, outsideVars, historyVars,
                UserCopies, SendText, WatchPoll, WatchGivesUp, WatcherReceives,
                BeginLocal, CheckLocal, CheckManifest, PublishSucceeds, PublishFails
  <2>2. QED
    BY <1>1, <1>2, <1>3, <1>4, <1>5, <1>6, <1>7, <1>8, <1>9, <1>10, <1>11,
       <1>12, <2>1 DEF Next
-------------------------------------------------------------------------------
(* The theorems. *)

LEMMA RuntimeInvariants == Spec => [](RuntimeInv /\ HistoryInv)
<1>1. Init => RuntimeInv /\ HistoryInv
  BY RuntimeInvInitial, HistoryInvInitial
<1>2. (RuntimeInv /\ HistoryInv) /\ [Next]_vars => (RuntimeInv /\ HistoryInv)'
  BY RuntimeInvPreserved, HistoryInvPreserved
<1>3. QED
  BY <1>1, <1>2, PTL DEF Spec

\* The fields of the runtime and of every call in progress keep their types.
THEOREM RuntimeTypeCorrect == Spec => []TypeOK
<1>1. RuntimeInv /\ HistoryInv => TypeOK
  BY DEF RuntimeInv
<1>2. QED
  BY <1>1, RuntimeInvariants, PTL

\* However events arrive and whoever applies them, a second write of the same
\* event needs the window to have forgotten it (runtime.go:670-716, 572-606).
THEOREM EventsAreAppliedOnce == Spec => []AppliedOnceWhileRemembered
<1>1. RuntimeInv /\ HistoryInv => AppliedOnceWhileRemembered
  BY DEF HistoryInv
<1>2. QED
  BY <1>1, RuntimeInvariants, PTL

\* Map and order of the pending queue agree and never outgrow its limit
\* (runtime.go:897-934).
THEOREM PendingQueueIsConsistent == Spec => []PendingQueueConsistent
<1>1. RuntimeInv /\ HistoryInv => PendingQueueConsistent
  BY DEF RuntimeInv, IsQueue, NoRepetition, PendingQueueConsistent
<1>2. QED
  BY <1>1, RuntimeInvariants, PTL

\* No event waits for the user once the node has settled it
\* (runtime.go:599-601, 908-912).
THEOREM PendingEventsAreUnsettled == Spec => []PendingIsUnsettled
<1>1. RuntimeInv /\ HistoryInv => PendingIsUnsettled
  BY DEF HistoryInv
<1>2. QED
  BY <1>1, RuntimeInvariants, PTL

\* A text event is dropped as a duplicate only after it was written to the
\* clipboard or given up by the full queue (runtime.go:704-712, 906-913).
THEOREM DuplicatesAreSettled == Spec => []DuplicateMeansSettled
<1>1. RuntimeInv /\ HistoryInv => DuplicateMeansSettled
  BY DEF HistoryInv
<1>2. QED
  BY <1>1, RuntimeInvariants, PTL
-------------------------------------------------------------------------------
(* The handlers refine Inbox: each step is a step of the inbox, or none. *)

\* recentEvents.Add is the window's Remember (dedupe.go:19-29).
LEMMA RememberIsAtomic ==
    ASSUME NEW id \in Ids, IsWindow(recentEvents, Ids, RecentLimit), Remember(id)
    PROVE  Atomic!Remember(id)
<1> DEFINE r == Add(recentEvents, id, RecentLimit)
<1>1. recentEvents' = r /\ forgotten' = forgotten \cup (recentEvents.set \ r.set)
  BY DEF Remember
<1>2. /\ IsWindow(r, Ids, RecentLimit)
      /\ Holds(recentEvents, id) => r = recentEvents
      /\ ~ Holds(recentEvents, id) =>
            r.order = IF Len(recentEvents.order) < RecentLimit
                      THEN Append(recentEvents.order, id)
                      ELSE Append(Tail(recentEvents.order), id)
  <2>1. IsWindow(r, Ids, RecentLimit)
    BY AddKeepsWindow, LimitAssumption
  <2>2. ASSUME Holds(recentEvents, id)
        PROVE  r = recentEvents
    BY <2>2, AddKeepsWindow, LimitAssumption
  <2>3. ASSUME ~ Holds(recentEvents, id)
        PROVE  r.order = IF Len(recentEvents.order) < RecentLimit
                         THEN Append(recentEvents.order, id)
                         ELSE Append(Tail(recentEvents.order), id)
    BY <2>3, AddKeepsWindow, LimitAssumption
  <2>4. QED
    BY <2>1, <2>2, <2>3
<1> HIDE DEF r
<1>3. /\ recentEvents.set = Entries(recentEvents.order)
      /\ r.set = Entries(r.order)
  BY <1>2 DEF IsWindow
<1>4. QED
  BY <1>1, <1>2, <1>3 DEF Holds, Atomic!Remember, Atomic!Entries, Entries

\* deletePendingLocked takes one entry out (runtime.go:925-934).
LEMMA DeletePendingIsAtomic ==
    ASSUME IsQueue, NEW id, DeletePending(id)
    PROVE  Atomic!Leave(id)
<1>1. /\ pendingOrder' = WithoutFirst(pendingOrder, id)
      /\ DOMAIN pendingOrder = 1 .. Len(pendingOrder) /\ Len(pendingOrder) \in Nat
      /\ NoRepetition(pendingOrder)
  BY LenProperties DEF DeletePending, IsQueue
<1>2. CASE id \notin Entries(pendingOrder)
  BY <1>1, <1>2 DEF WithoutFirst, Atomic!Leave, Atomic!Entries, Entries
<1>3. CASE id \in Entries(pendingOrder)
  <2> DEFINE k == CHOOSE i \in DOMAIN pendingOrder :
                     /\ pendingOrder[i] = id
                     /\ \A j \in 1 .. (i - 1) : pendingOrder[j] # id
  <2>1. PICK m \in 1 .. Len(pendingOrder) : pendingOrder[m] = id
    BY <1>1, <1>3 DEF Entries
  <2>2. \A j \in 1 .. (m - 1) : pendingOrder[j] # id
    BY <1>1, <2>1 DEF NoRepetition
  <2>3. k \in DOMAIN pendingOrder /\ pendingOrder[k] = id
    BY <1>1, <2>1, <2>2
  <2>4. WithoutFirst(pendingOrder, id) =
           SubSeq(pendingOrder, 1, k - 1) \o
           SubSeq(pendingOrder, k + 1, Len(pendingOrder))
    BY <1>3 DEF WithoutFirst
  <2> HIDE DEF k
  <2>5. QED
    BY <1>1, <2>3, <2>4 DEF Atomic!Leave
<1>4. QED
  BY <1>2, <1>3

\* addPendingLocked offers the event (runtime.go:897-923).
LEMMA AddPendingIsAtomic ==
    ASSUME RuntimeInv, NEW id \in TextIds, id \notin pendingRemote,
           id \notin recentEvents.set, AddPending(id),
           UNCHANGED <<applied, reapplied>>
    PROVE  Atomic!Offer(id)
<1>1. id \notin Entries(pendingOrder) /\ id \notin Entries(recentEvents.order)
  BY DEF RuntimeInv, IsQueue, IsWindow
<1>2. pendingRemote \subseteq Ids
  BY DEF RuntimeInv, TypeOK, TextIds, Ids
<1>3. CASE /\ UNCHANGED <<recentEvents, forgotten>>
           /\ Len(pendingOrder) < RecentLimit
           /\ pendingOrder' = Append(pendingOrder, id)
  BY <1>1, <1>3 DEF Atomic!Offer, Atomic!Entries, Entries
<1>4. ASSUME NEW old \in pendingRemote,
             Remember(old),
             Len(pendingOrder) = RecentLimit,
             old = Head(pendingOrder),
             pendingOrder' = Append(Tail(pendingOrder), id)
      PROVE  Atomic!Offer(id)
  <2>1. Atomic!Remember(old)
    BY <1>2, <1>4, RememberIsAtomic DEF RuntimeInv
  <2>2. QED
    BY <1>1, <1>4, <2>1 DEF Atomic!Offer, Atomic!Entries, Entries
<1>5. QED
  BY <1>3, <1>4, AddPendingKeepsQueue DEF RuntimeInv

\* WriteText shows the event (runtime.go:592, 704).
LEMMA WriteIsAtomic ==
    ASSUME NEW id \in TextIds, id \in applied => id \in forgotten,
           WriteClipboard(id), UNCHANGED <<recentEvents, pendingOrder, forgotten>>
    PROVE  Atomic!Next
<1>1. Atomic!Show(id)
  BY DEF WriteClipboard, Atomic!Show
<1>2. QED
  BY <1>1 DEF Atomic!Next

\* What the mapping to Inbox reads.
inboxState == <<pendingOrder, recentEvents, applied, reapplied, forgotten>>

\* Every step of the runtime.
LEMMA StepIsAtomic ==
    RuntimeInv /\ HistoryInv /\ [Next]_vars => [Atomic!Next]_(Atomic!vars)
<1> SUFFICES ASSUME RuntimeInv, HistoryInv, [Next]_vars
             PROVE  Atomic!Next \/ UNCHANGED Atomic!vars
  OBVIOUS
<1>1. ASSUME UNCHANGED inboxState
      PROVE  UNCHANGED Atomic!vars
  BY <1>1 DEF inboxState, Atomic!vars
<1>2. ASSUME NEW t \in LocalThreads, RecordPublished(t)
      PROVE  Atomic!Next
  <2>1. local[t].id \in Ids \ TextIds
    BY <1>2, IdsAssumption DEF RecordPublished, RuntimeInv, ThreadShape, Ids, TextIds
  <2>2. Atomic!Remember(local[t].id)
    BY <1>2, <2>1, RememberIsAtomic DEF RecordPublished, RuntimeInv
  <2>3. Atomic!Note(local[t].id)
    BY <1>2, <2>2 DEF RecordPublished, Atomic!Note
  <2>4. QED
    BY <2>1, <2>3 DEF Atomic!Next
<1>3. ASSUME DecideMessage
      PROVE  Atomic!Next \/ UNCHANGED Atomic!vars
  <2> DEFINE id == consumer.id
  <2>1. /\ consumer.pc = "decide" /\ id \in Ids
        /\ UNCHANGED <<applied, reapplied>>
    BY <1>3 DEF DecideMessage, RuntimeInv, ThreadShape
  <2>2. CASE UNCHANGED <<recentEvents, pendingOrder, forgotten>>
    BY <1>1, <2>1, <2>2 DEF inboxState
  <2>3. CASE /\ id \notin TextIds
             /\ Remember(id)
             /\ UNCHANGED pendingOrder
    <3>1. Atomic!Remember(id)
      BY <2>1, <2>3, RememberIsAtomic DEF RuntimeInv
    <3>2. Atomic!Note(id)
      BY <2>1, <2>3, <3>1 DEF Atomic!Note
    <3>3. QED
      BY <2>1, <2>3, <3>2 DEF Atomic!Next
  <2>4. CASE /\ id \in TextIds
             /\ id \notin recentEvents.set
             /\ id \notin pendingRemote
             /\ AddPending(id)
    <3>1. Atomic!Offer(id)
      BY <2>1, <2>4, AddPendingIsAtomic
    <3>2. QED
      BY <2>4, <3>1 DEF Atomic!Next
  <2>5. QED
    <3>1. IsLocalOrigin(id) \/ id \in RemoteIds
      BY <2>1 DEF IsLocalOrigin, Ids
    <3>2. id \notin OwnIds /\ CarriesText(id) => id \in TextIds
      BY <2>1 DEF CarriesText, TextIds, Ids
    <3>3. ~ CarriesText(id) => id \notin TextIds
      BY DEF CarriesText, TextIds
    <3>4. QED
      BY <1>3, <2>2, <2>3, <2>4, <3>1, <3>2, <3>3
         DEF DecideMessage, IsLocalOrigin, AlreadyHandled, Holds
<1>4. ASSUME ConsumerWrites
      PROVE  Atomic!Next
  <2>1. consumer.pc = "write" /\ consumer.id \in TextIds
    BY <1>4 DEF ConsumerWrites, RuntimeInv, ThreadShape
  <2>2. consumer.id \in applied => consumer.id \in forgotten
    BY <2>1 DEF HistoryInv
  <2>3. QED
    BY <1>4, <2>1, <2>2, WriteIsAtomic DEF ConsumerWrites, runtimeVars
<1>5. ASSUME ConsumerRecords
      PROVE  Atomic!Next
  <2>1. /\ consumer.pc = "record" /\ consumer.id \in TextIds /\ consumer.id \in Ids
        /\ Remember(consumer.id)
        /\ UNCHANGED <<pendingOrder, applied, reapplied>>
    BY <1>5 DEF ConsumerRecords, RuntimeInv, ThreadShape
  <2>2. consumer.id \notin Entries(pendingOrder) /\ consumer.id \in applied
    BY <2>1 DEF HistoryInv, RuntimeInv, IsQueue
  <2>3. Atomic!Remember(consumer.id)
    BY <2>1, RememberIsAtomic DEF RuntimeInv
  <2>4. Atomic!Leave(consumer.id)
    BY <2>1, <2>2 DEF Atomic!Leave, Atomic!Entries, Entries
  <2>5. Atomic!Settle(consumer.id)
    BY <2>1, <2>2, <2>3, <2>4 DEF Atomic!Settle
  <2>6. QED
    BY <2>1, <2>5 DEF Atomic!Next
<1>6. ASSUME ApplierWrites
      PROVE  Atomic!Next
  <2>1. applier.pc = "write" /\ applier.id \in TextIds
    BY <1>6 DEF ApplierWrites, RuntimeInv, ThreadShape
  <2>2. applier.id \in applied => applier.id \in forgotten
    BY <2>1 DEF HistoryInv
  <2>3. QED
    BY <1>6, <2>1, <2>2, WriteIsAtomic DEF ApplierWrites, runtimeVars
<1>7. ASSUME ApplierRecords
      PROVE  Atomic!Next
  <2>1. /\ applier.pc = "record" /\ applier.id \in TextIds
        /\ Remember(applier.id) /\ DeletePending(applier.id)
        /\ UNCHANGED <<applied, reapplied>>
    BY <1>7 DEF ApplierRecords, RuntimeInv, ThreadShape
  <2>2. applier.id \in applied /\ applier.id \in Ids
    BY <2>1 DEF HistoryInv, TextIds, Ids
  <2>3. Atomic!Remember(applier.id)
    BY <2>1, <2>2, RememberIsAtomic DEF RuntimeInv
  <2>4. Atomic!Leave(applier.id)
    BY <2>1, DeletePendingIsAtomic DEF RuntimeInv
  <2>5. Atomic!Settle(applier.id)
    BY <2>1, <2>2, <2>3, <2>4 DEF Atomic!Settle
  <2>6. QED
    BY <2>1, <2>5 DEF Atomic!Next
<1>8. ASSUME NEW c \in Configs, UpdateConfig(c)
      PROVE  Atomic!Next \/ UNCHANGED Atomic!vars
  <2>1. /\ UNCHANGED <<recentEvents, applied, reapplied, forgotten>>
        /\ pendingOrder' = << >> \/ UNCHANGED pendingOrder
    BY <1>8 DEF UpdateConfig, historyVars
  <2>2. CASE pendingOrder' = << >>
    <3>1. Atomic!Withdraw
      BY <2>1, <2>2 DEF Atomic!Withdraw
    <3>2. QED
      BY <3>1 DEF Atomic!Next
  <2>3. CASE UNCHANGED pendingOrder
    BY <1>1, <2>1, <2>3 DEF inboxState
  <2>4. QED
    BY <2>1, <2>2, <2>3
<1>9. QED
  <2>1. ASSUME \/ \E t \in UserTexts : UserCopies(t) \/ SendText(t)
               \/ WatchPoll \/ WatchGivesUp \/ WatcherReceives
               \/ \E t \in LocalThreads : \/ CheckLocal(t) \/ CheckManifest(t)
                                          \/ PublishSucceeds(t) \/ PublishFails(t)
               \/ \E m \in Messages : ReceiveMessage(m)
               \/ \E id \in Ids : LookUpPending(id)
               \/ ConsumerWriteFails \/ ApplierWriteFails
               \/ UNCHANGED vars
        PROVE  UNCHANGED inboxState
    BY <2>1 DEF inboxState, vars, runtimeVars, threadVars, outsideVars, historyVars,
                UserCopies, SendText, WatchPoll, WatchGivesUp, WatcherReceives,
                BeginLocal, CheckLocal, CheckManifest, PublishSucceeds, PublishFails,
                ReceiveMessage, LookUpPending, ConsumerWriteFails, ApplierWriteFails
  <2>2. QED
    BY <1>1, <1>2, <1>3, <1>4, <1>5, <1>6, <1>7, <1>8, <2>1 DEF Next

\* Whatever the threads interleave, each critical section and each write of the
\* clipboard is one step of Inbox, which has no threads, or no step of it
\* (runtime.go:572-606, 662-716, 897-934).
THEOREM HandlersAreAtomic == Spec => ImplementsInbox
<1>1. Init => Atomic!Init
  BY DEF Init, Atomic!Init, EmptyBoundedSet
<1>2. QED
  BY <1>1, RuntimeInvariants, StepIsAtomic, PTL DEF Spec, ImplementsInbox, Atomic!Spec
\* The window inside the runtime.
Window == INSTANCE RecencyWindow
          WITH Values <- Ids, Limit <- RecentLimit, window <- recentEvents.order

\* To remember an event is to observe it.
LEMMA RememberObserves ==
    ASSUME NEW id \in Ids, Atomic!Remember(id)
    PROVE  Window!Next \/ UNCHANGED recentEvents.order
<1>1. CASE id \in Entries(recentEvents.order)
  BY <1>1 DEF Atomic!Remember, Atomic!Entries, Entries
<1>2. CASE id \notin Entries(recentEvents.order)
  <2>1. recentEvents'.order = IF Len(recentEvents.order) < RecentLimit
                              THEN Append(recentEvents.order, id)
                              ELSE Append(Tail(recentEvents.order), id)
    BY <1>2 DEF Atomic!Remember, Atomic!Entries, Entries
  <2>2. ~ Window!InWindow(id)
    BY <1>2 DEF Window!InWindow, Entries
  <2>3. Window!Observe(id)
    BY <2>1, <2>2 DEF Window!Observe
  <2>4. QED
    BY <2>3 DEF Window!Next
<1>3. QED
  BY <1>1, <1>2

\* recentEvents, to which three threads add, remembers the RecentLimit events
\* settled last, and forgets the oldest first (runtime.go:566, 601, 712, 777,
\* 804, 911).
THEOREM RuntimeKeepsRecencyWindow == Spec => Window!Spec
<1>1. Init => Window!Init
  BY DEF Init, Window!Init, EmptyBoundedSet
<1>2. RuntimeInv /\ HistoryInv /\ [Next]_vars => [Window!Next]_(recentEvents.order)
  <2> SUFFICES ASSUME RuntimeInv, HistoryInv, [Next]_vars
               PROVE  Window!Next \/ UNCHANGED recentEvents.order
    OBVIOUS
  <2>1. Atomic!Next \/ UNCHANGED Atomic!vars
    BY StepIsAtomic
  <2>2. TextIds \subseteq Ids
    BY DEF TextIds, Ids
  <2>3. ASSUME NEW id \in TextIds, Atomic!Offer(id)
        PROVE  Window!Next \/ UNCHANGED recentEvents.order
    <3>1. CASE UNCHANGED recentEvents.order
      BY <3>1
    <3>2. CASE Len(pendingOrder) = RecentLimit /\ Atomic!Remember(Head(pendingOrder))
      <4>1. pendingOrder \in Seq(TextIds) /\ pendingOrder # << >>
        BY <3>2, LimitAssumption, EmptySeq DEF RuntimeInv, IsQueue
      <4>2. Head(pendingOrder) \in Ids
        BY <2>2, <4>1, HeadTailProperties
      <4>3. QED
        BY <3>2, <4>2, RememberObserves
    <3>3. QED
      BY <2>3, <3>1, <3>2 DEF Atomic!Offer
  <2>4. ASSUME NEW id \in TextIds, Atomic!Show(id)
        PROVE  UNCHANGED recentEvents.order
    BY <2>4 DEF Atomic!Show
  <2>5. ASSUME NEW id \in TextIds, Atomic!Settle(id)
        PROVE  Window!Next \/ UNCHANGED recentEvents.order
    BY <2>2, <2>5, RememberObserves DEF Atomic!Settle
  <2>6. ASSUME NEW id \in Ids \ TextIds, Atomic!Note(id)
        PROVE  Window!Next \/ UNCHANGED recentEvents.order
    BY <2>6, RememberObserves DEF Atomic!Note
  <2>7. CASE Atomic!Withdraw \/ UNCHANGED Atomic!vars
    BY <2>7 DEF Atomic!Withdraw, Atomic!vars
  <2>8. QED
    BY <2>1, <2>3, <2>4, <2>5, <2>6, <2>7 DEF Atomic!Next
<1>3. QED
  BY <1>1, <1>2, RuntimeInvariants, PTL DEF Spec, Window!Spec

-------------------------------------------------------------------------------
(* What is suppressed, shown and published. *)

\* Every step keeps the suppressed texts among those that were written.
LEMMA SuppressedPreserved ==
    /\ RuntimeInv /\ HistoryInv /\ OnlyWrittenTextsSuppressed
    /\ [Next]_vars
    => OnlyWrittenTextsSuppressed'
<1> SUFFICES ASSUME RuntimeInv, HistoryInv, OnlyWrittenTextsSuppressed, [Next]_vars
             PROVE  OnlyWrittenTextsSuppressed'
  OBVIOUS
<1>1. ASSUME NEW id \in applied,
             suppressHashes' = Add(suppressHashes, RemoteText[id], SuppressLimit),
             UNCHANGED applied
      PROVE  OnlyWrittenTextsSuppressed'
  BY <1>1, AddOnlyAddsItsValue DEF OnlyWrittenTextsSuppressed
<1>2. ASSUME suppressHashes'.set \subseteq suppressHashes.set, applied \subseteq applied'
      PROVE  OnlyWrittenTextsSuppressed'
  BY <1>2 DEF OnlyWrittenTextsSuppressed
<1>3. ASSUME ConsumerRecords
      PROVE  OnlyWrittenTextsSuppressed'
  BY <1>1, <1>3 DEF ConsumerRecords, HistoryInv
<1>4. ASSUME ApplierRecords
      PROVE  OnlyWrittenTextsSuppressed'
  BY <1>1, <1>4 DEF ApplierRecords, HistoryInv
<1>5. ASSUME \/ ConsumerWrites \/ ApplierWrites
      PROVE  OnlyWrittenTextsSuppressed'
  BY <1>2, <1>5 DEF ConsumerWrites, ApplierWrites, WriteClipboard, runtimeVars
<1>6. ASSUME NEW t \in LocalThreads, CheckLocal(t)
      PROVE  OnlyWrittenTextsSuppressed'
  BY <1>2, <1>6 DEF CheckLocal, Consume, historyVars
<1>7. ASSUME UNCHANGED <<suppressHashes, applied>>
      PROVE  OnlyWrittenTextsSuppressed'
  BY <1>2, <1>7
<1>8. QED
  <2>1. ASSUME \/ \E t \in UserTexts : UserCopies(t) \/ SendText(t)
               \/ WatchPoll \/ WatchGivesUp \/ WatcherReceives
               \/ \E t \in LocalThreads : \/ CheckManifest(t) \/ PublishSucceeds(t)
                                          \/ PublishFails(t) \/ RecordPublished(t)
               \/ \E m \in Messages : ReceiveMessage(m)
               \/ DecideMessage \/ ConsumerWriteFails
               \/ \E id \in Ids : LookUpPending(id)
               \/ ApplierWriteFails
               \/ \E c \in Configs : UpdateConfig(c)
               \/ UNCHANGED vars
        PROVE  UNCHANGED <<suppressHashes, applied>>
    BY <2>1 DEF vars, runtimeVars, threadVars, outsideVars, historyVars,
                UserCopies, SendText, WatchPoll, WatchGivesUp, WatcherReceives,
                BeginLocal, CheckManifest, PublishSucceeds, PublishFails,
                RecordPublished, ReceiveMessage, DecideMessage,
                ConsumerWriteFails, LookUpPending, ApplierWriteFails, UpdateConfig
  <2>2. QED
    BY <1>3, <1>4, <1>5, <1>6, <1>7, <2>1 DEF Next

\* A text can be ignored as an echo only if a remote event really put it on
\* the clipboard (runtime.go:515, 602, 713).
THEOREM SuppressedTextsWereWritten == Spec => []OnlyWrittenTextsSuppressed
<1>1. Init => OnlyWrittenTextsSuppressed
  BY DEF Init, OnlyWrittenTextsSuppressed, EmptyBoundedSet
<1>2. QED
  BY <1>1, RuntimeInvariants, SuppressedPreserved, PTL DEF Spec

\* A step leaves queue and status alone, shows the queue it leaves behind, or
\* empties the queue.
LEMMA StatusFollowsQueue ==
    [Next]_vars => \/ UNCHANGED <<pendingOrder, statusPending>>
                   \/ RecordDecision(pendingOrder')
                   \/ pendingOrder' = << >>
<1> SUFFICES ASSUME [Next]_vars
             PROVE  \/ UNCHANGED <<pendingOrder, statusPending>>
                    \/ RecordDecision(pendingOrder')
                    \/ pendingOrder' = << >>
  OBVIOUS
<1>1. ASSUME UNCHANGED pendingOrder, RecordDecision(pendingOrder)
      PROVE  RecordDecision(pendingOrder')
  BY <1>1 DEF RecordDecision
<1>2. ASSUME \/ \E t \in UserTexts : UserCopies(t) \/ SendText(t)
             \/ WatchPoll \/ WatchGivesUp \/ WatcherReceives
      PROVE  \/ UNCHANGED <<pendingOrder, statusPending>>
             \/ UNCHANGED pendingOrder /\ RecordDecision(pendingOrder)
  BY <1>2 DEF UserCopies, SendText, WatchPoll, WatchGivesUp, WatcherReceives,
              BeginLocal, runtimeVars
<1>3. ASSUME NEW t \in LocalThreads,
             \/ CheckLocal(t) \/ CheckManifest(t) \/ PublishSucceeds(t)
             \/ PublishFails(t) \/ RecordPublished(t)
      PROVE  \/ UNCHANGED <<pendingOrder, statusPending>>
             \/ UNCHANGED pendingOrder /\ RecordDecision(pendingOrder)
  BY <1>3 DEF CheckLocal, CheckManifest, PublishSucceeds, PublishFails,
              RecordPublished, EndLocal, StartPublish, runtimeVars
<1>4. ASSUME NEW m \in Messages, ReceiveMessage(m)
      PROVE  \/ UNCHANGED <<pendingOrder, statusPending>>
             \/ UNCHANGED pendingOrder /\ RecordDecision(pendingOrder)
  BY <1>4 DEF ReceiveMessage
<1>5. ASSUME DecideMessage
      PROVE  \/ UNCHANGED <<pendingOrder, statusPending>>
             \/ UNCHANGED pendingOrder /\ RecordDecision(pendingOrder)
             \/ RecordDecision(pendingOrder')
  BY <1>5 DEF DecideMessage
<1>6. ASSUME \/ ConsumerWrites \/ ConsumerWriteFails \/ ConsumerRecords
             \/ \E id \in Ids : LookUpPending(id)
             \/ ApplierWrites \/ ApplierWriteFails
      PROVE  \/ UNCHANGED <<pendingOrder, statusPending>>
             \/ UNCHANGED pendingOrder /\ RecordDecision(pendingOrder)
  BY <1>6 DEF ConsumerWrites, ConsumerWriteFails, ConsumerRecords, LookUpPending,
              ApplierWrites, ApplierWriteFails, runtimeVars
<1>7. ASSUME ApplierRecords
      PROVE  RecordDecision(pendingOrder')
  BY <1>7 DEF ApplierRecords
<1>8. ASSUME NEW c \in Configs, UpdateConfig(c)
      PROVE  \/ UNCHANGED <<pendingOrder, statusPending>>
             \/ pendingOrder' = << >>
  BY <1>8 DEF UpdateConfig
<1>9. ASSUME UNCHANGED vars
      PROVE  UNCHANGED <<pendingOrder, statusPending>>
  BY <1>9 DEF vars, runtimeVars
<1>10. QED
  BY <1>1, <1>2, <1>3, <1>4, <1>5, <1>6, <1>7, <1>8, <1>9 DEF Next

\* While events wait, the status offers the newest of them
\* (runtime.go:873-889).
THEOREM StatusNamesTheNewest == Spec => []StatusShowsNewest
<1>1. Init => StatusShowsNewest
  BY DEF Init, StatusShowsNewest
<1>2. StatusShowsNewest /\ [Next]_vars => StatusShowsNewest'
  BY StatusFollowsQueue DEF StatusShowsNewest, RecordDecision
<1>3. QED
  BY <1>1, <1>2, PTL DEF Spec
\* Every step keeps the queue of a disabled runtime as short as
\* DisabledKeepsOneAtMost says.
LEMMA DisabledKeepsOnePreserved ==
    /\ RuntimeInv /\ DisabledKeepsOneAtMost
    /\ [Next]_vars
    => DisabledKeepsOneAtMost'
<1> SUFFICES ASSUME RuntimeInv, DisabledKeepsOneAtMost, [Next]_vars
             PROVE  DisabledKeepsOneAtMost'
  OBVIOUS
<1>1. ASSUME UNCHANGED <<cfg, pendingOrder>>,
             consumer'.pc = "decide" => consumer.pc = "decide"
      PROVE  DisabledKeepsOneAtMost'
  BY <1>1 DEF DisabledKeepsOneAtMost
<1>2. ASSUME NEW m \in Messages, ReceiveMessage(m)
      PROVE  DisabledKeepsOneAtMost'
  <2>1. UNCHANGED <<cfg, pendingOrder>> /\ (Admits(m) \/ UNCHANGED consumer)
    BY <1>2 DEF ReceiveMessage
  <2>2. QED
    BY <2>1 DEF Admits, DisabledKeepsOneAtMost
<1>3. ASSUME DecideMessage
      PROVE  DisabledKeepsOneAtMost'
  <2>1. consumer.pc = "decide" /\ consumer'.pc # "decide" /\ UNCHANGED cfg
    BY <1>3 DEF DecideMessage, IdleConsumer, RuntimeInv, TypeOK
  <2>2. CASE UNCHANGED pendingOrder
    BY <1>1, <2>1, <2>2
  <2>3. CASE AddPending(consumer.id)
    <3>1. SUFFICES ASSUME ~ cfg.enabled PROVE Len(pendingOrder') <= 1
      BY <2>1 DEF DisabledKeepsOneAtMost
    <3>2. pendingOrder \in Seq(TextIds) /\ Len(pendingOrder) \in Nat
          /\ Len(pendingOrder) <= 0
      BY <2>1, <3>1, LenProperties DEF DisabledKeepsOneAtMost, RuntimeInv, TypeOK
    <3>3. consumer.id \in Ids /\ pendingOrder \in Seq(Ids)
      BY <2>1, <3>2 DEF RuntimeInv, ThreadShape, TextIds, Ids
    <3> DEFINE longer == Append(pendingOrder, consumer.id)
    <3>4. longer \in Seq(Ids) /\ Len(longer) = Len(pendingOrder) + 1
      BY <3>3, AppendProperties
    <3>5. longer # << >>
      BY <3>2, <3>4, EmptySeq
    <3>6. Len(Tail(longer)) = Len(longer) - 1
      BY <3>4, <3>5, HeadTailProperties
    <3>7. pendingOrder' = longer \/ pendingOrder' = Tail(longer)
      BY <2>3 DEF AddPending
    <3> HIDE DEF longer
    <3>8. QED
      BY <3>2, <3>4, <3>6, <3>7
  <2>4. QED
    BY <1>3, <2>2, <2>3 DEF DecideMessage
<1>4. ASSUME ApplierRecords
      PROVE  DisabledKeepsOneAtMost'
  <2>1. /\ pendingOrder' = WithoutFirst(pendingOrder, applier.id)
        /\ UNCHANGED <<cfg, consumer>>
    BY <1>4 DEF ApplierRecords, DeletePending
  <2>2. Len(pendingOrder') <= Len(pendingOrder)
        /\ Len(pendingOrder) \in Nat /\ Len(pendingOrder') \in Nat
    BY <2>1, WithoutFirstRemoves, LenProperties DEF RuntimeInv, IsQueue, TypeOK
  <2>3. QED
    BY <2>1, <2>2 DEF DisabledKeepsOneAtMost
<1>5. ASSUME NEW c \in Configs, UpdateConfig(c)
      PROVE  DisabledKeepsOneAtMost'
  <2>1. /\ cfg' = c /\ UNCHANGED consumer
        /\ (cfg.enabled /\ ~ c.enabled) => pendingOrder' = << >>
        /\ ~ (cfg.enabled /\ ~ c.enabled) => UNCHANGED pendingOrder
    BY <1>5 DEF UpdateConfig, threadVars
  <2>2. Len(<< >>) = 0
    OBVIOUS
  <2>3. QED
    BY <2>1, <2>2 DEF DisabledKeepsOneAtMost
<1>6. QED
  <2>1. ASSUME \/ \E t \in UserTexts : UserCopies(t) \/ SendText(t)
               \/ WatchPoll \/ WatchGivesUp \/ WatcherReceives
               \/ \E t \in LocalThreads : \/ CheckLocal(t) \/ CheckManifest(t)
                                          \/ PublishSucceeds(t) \/ PublishFails(t)
                                          \/ RecordPublished(t)
               \/ \E id \in Ids : LookUpPending(id)
               \/ ApplierWrites \/ ApplierWriteFails
               \/ UNCHANGED vars
        PROVE  UNCHANGED <<cfg, pendingOrder, consumer>>
    BY <2>1 DEF vars, runtimeVars, threadVars, outsideVars, historyVars,
                UserCopies, SendText, WatchPoll, WatchGivesUp, WatcherReceives,
                BeginLocal, CheckLocal, CheckManifest, PublishSucceeds,
                PublishFails, RecordPublished, LookUpPending, ApplierWrites,
                ApplierWriteFails
  <2>2. ASSUME ConsumerWrites \/ ConsumerWriteFails \/ ConsumerRecords
        PROVE  UNCHANGED <<cfg, pendingOrder>> /\ consumer'.pc # "decide"
    BY <2>2 DEF ConsumerWrites, ConsumerWriteFails, ConsumerRecords,
                IdleConsumer, runtimeVars, RuntimeInv, TypeOK
  <2>3. QED
    BY <1>1, <1>2, <1>3, <1>4, <1>5, <2>1, <2>2 DEF Next

\* However many events arrive while the runtime is disabled, at most the one
\* whose decision was already under way waits for the user afterwards
\* (runtime.go:369-370, 627-634, 670-696).
THEOREM DisabledKeepsOne == Spec => []DisabledKeepsOneAtMost
<1>1. Init => DisabledKeepsOneAtMost
  <2>1. Len(<< >>) = 0
    OBVIOUS
  <2>2. QED
    BY <2>1 DEF Init, DisabledKeepsOneAtMost
<1>2. QED
  BY <1>1, RuntimeInvariants, DisabledKeepsOnePreserved, PTL DEF Spec
-------------------------------------------------------------------------------
(* What has been published. *)

\* Every topic an event is for has the event already, or the call that publishes
\* it is still to reach that topic.  W stands for `wanted', B for the bus.
OnItsWay(call, W, B) ==
    /\ W[call.id] # << >>
    /\ \A p \in Entries(W[call.id]) :
          \/ p \in Entries(call.todo)
          \/ [topic |-> p, id |-> call.id, text |-> call.text] \in B

\* What a call of HandleLocalText knows of its targets.
CallInv(call, U, W, B) ==
    call.pc = "publish" => call.id \in U /\ OnItsWay(call, W, B)

PublishInv ==
    /\ UnchangedTextWasPublished
    /\ \A t \in LocalThreads : CallInv(local[t], usedIds, wanted, bus)

\* Nothing is unpublished: ids stay used, messages stay on the bus, and the topics
\* of an event are settled once its id is drawn.
LEMMA CallInvGrows ==
    ASSUME NEW call, NEW U, NEW U2, NEW W, NEW W2, NEW B, NEW B2,
           U \subseteq U2, B \subseteq B2, \A id \in U : W2[id] = W[id],
           CallInv(call, U, W, B)
    PROVE  CallInv(call, U2, W2, B2)
  BY DEF CallInv, OnItsWay

\* A step after which the last published text is the same, and the calls in
\* progress are the same but one, keeps the invariant if that call does.
LEMMA OneCallMoves ==
    ASSUME RuntimeInv, PublishInv, NEW t \in LocalThreads, NEW call,
           UNCHANGED lastLocalHash,
           usedIds \subseteq usedIds', bus \subseteq bus',
           \A id \in usedIds : wanted'[id] = wanted[id],
           local' = [local EXCEPT ![t] = call],
           CallInv(call, usedIds', wanted', bus')
    PROVE  PublishInv'
<1>1. local \in [LocalThreads -> LocalCalls]
  BY DEF RuntimeInv, TypeOK
<1>2. ASSUME NEW u \in LocalThreads
      PROVE  CallInv(local'[u], usedIds', wanted', bus')
  <2>1. CASE u = t
    BY <1>1, <2>1
  <2>2. CASE u # t
    <3>1. local'[u] = local[u] /\ CallInv(local[u], usedIds, wanted, bus)
      BY <1>1, <2>2 DEF PublishInv
    <3>2. CallInv(local[u], usedIds', wanted', bus')
      BY <3>1, CallInvGrows
    <3>3. QED
      BY <3>1, <3>2
  <2>3. QED
    BY <2>1, <2>2
<1>3. UnchangedTextWasPublished'
  BY DEF PublishInv, UnchangedTextWasPublished
<1>4. QED
  BY <1>2, <1>3 DEF PublishInv

\* The end of a call that has published nothing.
LEMMA EndLocalKeepsPublished ==
    ASSUME RuntimeInv, PublishInv, NEW t \in LocalThreads, EndLocal(t),
           UNCHANGED <<lastLocalHash, usedIds, wanted>>, bus \subseteq bus'
    PROVE  PublishInv'
<1>1. CallInv(IdleLocal, usedIds', wanted', bus')
  BY DEF CallInv, IdleLocal
<1>2. QED
  BY <1>1, OneCallMoves DEF EndLocal

\* An event starts with all its topics before it.
LEMMA StartPublishKeepsPublished ==
    ASSUME RuntimeInv, PublishInv, NEW t \in LocalThreads, NEW targets,
           targets # << >>,
           StartPublish(t, targets), UNCHANGED <<lastLocalHash, bus>>
    PROVE  PublishInv'
<1>1. PICK id \in OwnIds \ usedIds :
         /\ usedIds' = usedIds \cup {id}
         /\ wanted' = [wanted EXCEPT ![id] = targets]
         /\ local' = [local EXCEPT ![t].pc = "publish", ![t].id = id,
                                   ![t].todo = targets]
         /\ UNCHANGED statusPending
  BY DEF StartPublish
<1> DEFINE call == [local[t] EXCEPT !.pc = "publish", !.id = id, !.todo = targets]
<1>2. /\ local[t] \in LocalCalls /\ local \in [LocalThreads -> LocalCalls]
      /\ wanted \in [OwnIds -> Seq(Topics)] /\ usedIds \subseteq OwnIds
  BY DEF RuntimeInv, TypeOK
<1>3. call.pc = "publish" /\ call.id = id /\ call.todo = targets
  BY <1>2 DEF LocalCalls
<1>4. local' = [local EXCEPT ![t] = call]
  BY <1>1, <1>2
<1> HIDE DEF call
<1>5. /\ wanted'[id] = targets
      /\ \A i \in usedIds : wanted'[i] = wanted[i]
  BY <1>1, <1>2
<1>6. CallInv(call, usedIds', wanted', bus')
  BY <1>1, <1>3, <1>5 DEF CallInv, OnItsWay
<1>7. QED
  BY <1>1, <1>4, <1>5, <1>6, OneCallMoves

\* The beginning of a call publishes nothing.
LEMMA BeginLocalKeepsPublished ==
    ASSUME RuntimeInv, PublishInv, NEW t \in LocalThreads, NEW text, NEW by,
           BeginLocal(t, text, by)
    PROVE  PublishInv'
<1> DEFINE call == [pc   |-> IF text \in cfg.inline THEN "check" ELSE "manifest",
                    text |-> text, by |-> by, todo |-> cfg.publishTo,
                    id   |-> NoEvent]
<1>1. \/ UNCHANGED local
      \/ local' = [local EXCEPT ![t] = call]
  BY DEF BeginLocal
<1>2. UNCHANGED <<lastLocalHash, bus, usedIds, wanted>>
  BY DEF BeginLocal
<1>3. CASE UNCHANGED local
  BY <1>2, <1>3 DEF PublishInv, UnchangedTextWasPublished
<1>4. CASE local' = [local EXCEPT ![t] = call]
  <2>1. CallInv(call, usedIds', wanted', bus')
    BY DEF CallInv
  <2> HIDE DEF call
  <2>2. QED
    BY <1>2, <1>4, <2>1, OneCallMoves
<1>5. QED
  BY <1>1, <1>3, <1>4

LEMMA PublishInvPreserved == RuntimeInv /\ PublishInv /\ [Next]_vars => PublishInv'
<1> SUFFICES ASSUME RuntimeInv, PublishInv, [Next]_vars
             PROVE  PublishInv'
  OBVIOUS
<1>1. ASSUME UNCHANGED <<lastLocalHash, local, bus, usedIds, wanted>>
      PROVE  PublishInv'
  BY <1>1 DEF PublishInv, UnchangedTextWasPublished
<1>2. ASSUME NEW t \in UserTexts, SendText(t)
      PROVE  PublishInv'
  BY <1>2, BeginLocalKeepsPublished DEF SendText, LocalThreads
<1>3. ASSUME WatcherReceives
      PROVE  PublishInv'
  BY <1>3, BeginLocalKeepsPublished DEF WatcherReceives, LocalThreads
<1>4. ASSUME NEW t \in LocalThreads, CheckLocal(t)
      PROVE  PublishInv'
  <2>1. UNCHANGED <<lastLocalHash, bus>>
    BY <1>4 DEF CheckLocal
  <2>2. CASE EndLocal(t) /\ UNCHANGED <<usedIds, wanted>>
    BY <2>1, <2>2, EndLocalKeepsPublished
  <2>3. CASE local[t].todo # << >> /\ StartPublish(t, local[t].todo)
    BY <2>1, <2>3, StartPublishKeepsPublished
  <2>4. QED
    BY <1>4, <2>2, <2>3 DEF CheckLocal
<1>5. ASSUME NEW t \in LocalThreads, CheckManifest(t)
      PROVE  PublishInv'
  <2>1. UNCHANGED <<lastLocalHash, bus>>
    BY <1>5 DEF CheckManifest
  <2>2. CASE EndLocal(t) /\ UNCHANGED <<usedIds, wanted>>
    BY <2>1, <2>2, EndLocalKeepsPublished
  <2>3. CASE cfg.publishTo # << >> /\ StartPublish(t, cfg.publishTo)
    BY <2>1, <2>3, StartPublishKeepsPublished
  <2>4. QED
    BY <1>5, <2>2, <2>3 DEF CheckManifest
<1>6. ASSUME NEW t \in LocalThreads, PublishSucceeds(t)
      PROVE  PublishInv'
  <2> DEFINE call == [local[t] EXCEPT !.todo = Tail(local[t].todo)]
  <2>1. /\ local[t] \in LocalCalls /\ local \in [LocalThreads -> LocalCalls]
        /\ local[t].pc = "publish" /\ local[t].todo # << >>
        /\ bus' = bus \cup {MessageTo(t)}
        /\ UNCHANGED <<lastLocalHash, usedIds, wanted>>
    BY <1>6 DEF PublishSucceeds, RuntimeInv, TypeOK, runtimeVars
  <2>2. local' = [local EXCEPT ![t] = call]
    BY <1>6, <2>1 DEF PublishSucceeds
  <2>3. /\ call.pc = "publish" /\ call.id = local[t].id
        /\ call.text = local[t].text /\ call.todo = Tail(local[t].todo)
    BY <2>1 DEF LocalCalls
  <2>4. local[t].todo \in Seq(Topics)
    BY <2>1 DEF LocalCalls
  <2> HIDE DEF call
  <2>5. ASSUME NEW p \in Entries(local[t].todo)
        PROVE  p \in Entries(Tail(local[t].todo)) \/ p = Head(local[t].todo)
    <3> DEFINE q == local[t].todo
               rest == Tail(q)
    <3>1. /\ Len(q) \in Nat /\ DOMAIN q = 1 .. Len(q)
          /\ Head(q) = q[1]
          /\ rest \in Seq(Topics) /\ Len(rest) = Len(q) - 1
          /\ \A i \in 1 .. Len(rest) : rest[i] = q[i + 1]
      BY <2>1, <2>4, HeadTailProperties, LenProperties
    <3>2. DOMAIN rest = 1 .. (Len(q) - 1)
      BY <3>1, LenProperties
    <3>3. PICK i \in 1 .. Len(q) : q[i] = p
      BY <3>1 DEF Entries
    <3> HIDE DEF q, rest
    <3>4. CASE i = 1
      BY <3>1, <3>3, <3>4 DEF q
    <3>5. CASE i # 1
      <4>1. i - 1 \in 1 .. Len(rest) /\ (i - 1) + 1 = i
        BY <3>1, <3>3, <3>5
      <4>2. rest[i - 1] = p /\ i - 1 \in DOMAIN rest
        BY <3>1, <3>2, <3>3, <4>1
      <4>3. p \in Entries(rest)
        BY <4>2 DEF Entries
      <4>4. QED
        BY <4>3 DEF rest, q
    <3>6. QED
      BY <3>4, <3>5
  <2>6. local[t].id \in usedIds /\ OnItsWay(local[t], wanted, bus)
    BY <2>1 DEF PublishInv, CallInv
  <2>7. \A p \in Entries(wanted[call.id]) :
           \/ p \in Entries(call.todo)
           \/ [topic |-> p, id |-> call.id, text |-> call.text] \in bus'
    BY <2>1, <2>3, <2>5, <2>6 DEF OnItsWay, MessageTo
  <2>8. OnItsWay(call, wanted', bus')
    BY <2>1, <2>3, <2>6, <2>7 DEF OnItsWay
  <2>9. CallInv(call, usedIds', wanted', bus')
    BY <2>1, <2>3, <2>6, <2>8 DEF CallInv
  <2>10. QED
    BY <2>1, <2>2, <2>9, OneCallMoves
<1>7. ASSUME NEW t \in LocalThreads, PublishFails(t)
      PROVE  PublishInv'
  BY <1>7, EndLocalKeepsPublished DEF PublishFails
<1>8. ASSUME NEW t \in LocalThreads, RecordPublished(t)
      PROVE  PublishInv'
  <2>1. /\ local[t].pc = "publish" /\ local[t].todo = << >>
        /\ lastLocalHash' = local[t].text
        /\ UNCHANGED <<bus, usedIds, wanted>>
        /\ local' = [local EXCEPT ![t] = IdleLocal]
    BY <1>8 DEF RecordPublished, EndLocal, outsideVars
  <2>2. local[t].id \in usedIds /\ OnItsWay(local[t], wanted, bus)
    BY <2>1 DEF PublishInv, CallInv
  <2>3. Entries(local[t].todo) = {}
    BY <2>1 DEF Entries
  <2>4. UnchangedTextWasPublished'
    BY <2>1, <2>2, <2>3 DEF OnItsWay, UnchangedTextWasPublished
  <2>5. local \in [LocalThreads -> LocalCalls] /\ IdleLocal.pc = "idle"
    BY DEF RuntimeInv, TypeOK, IdleLocal
  <2>6. \A u \in LocalThreads : local'[u] \in {local[u], IdleLocal}
    BY <2>1, <2>5
  <2>7. \A u \in LocalThreads : CallInv(local'[u], usedIds', wanted', bus')
    BY <2>1, <2>5, <2>6 DEF PublishInv, CallInv
  <2>8. QED
    BY <2>4, <2>7 DEF PublishInv
<1>9. QED
  <2>1. ASSUME \/ \E t \in UserTexts : UserCopies(t)
               \/ WatchPoll \/ WatchGivesUp
               \/ \E m \in Messages : ReceiveMessage(m)
               \/ DecideMessage
               \/ ConsumerWrites \/ ConsumerWriteFails \/ ConsumerRecords
               \/ \E id \in Ids : LookUpPending(id)
               \/ ApplierWrites \/ ApplierWriteFails \/ ApplierRecords
               \/ \E c \in Configs : UpdateConfig(c)
               \/ UNCHANGED vars
        PROVE  UNCHANGED <<lastLocalHash, local, bus, usedIds, wanted>>
    BY <2>1 DEF vars, runtimeVars, threadVars, outsideVars, historyVars,
                UserCopies, WatchPoll, WatchGivesUp, ReceiveMessage,
                DecideMessage, ConsumerWrites, ConsumerWriteFails,
                ConsumerRecords, LookUpPending, ApplierWrites,
                ApplierWriteFails, ApplierRecords, UpdateConfig
  <2>2. QED
    BY <1>1, <1>2, <1>3, <1>4, <1>5, <1>6, <1>7, <1>8, <2>1 DEF Next

\* A text is dropped as unchanged only if one event with it reached every topic
\* of the configuration that event's call had read, whichever publications failed
\* or overlapped and however the configuration changed (runtime.go:483-496,
\* 555-565).
THEOREM UnchangedTextsWerePublished == Spec => []UnchangedTextWasPublished
<1>1. Init => PublishInv
  BY DEF Init, PublishInv, UnchangedTextWasPublished, CallInv, IdleLocal
<1>2. PublishInv => UnchangedTextWasPublished
  BY DEF PublishInv
<1>3. QED
  BY <1>1, <1>2, RuntimeInvariants, PublishInvPreserved, PTL DEF Spec
===============================================================================
