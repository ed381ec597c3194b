--------------------------- MODULE BoundedStringSet ---------------------------
(***************************************************************************)
(* The bounded string set of core/runtime/dedupe.go.  The runtime keeps    *)
(* two of them: recentEvents (event ids already handled) and               *)
(* suppressHashes (hashes of texts it wrote to the clipboard itself).      *)
(*                                                                         *)
(* A set is a record: `set' is the Go map, `order' the slice of insertions *)
(* that trim() evicts from.  Consume() deletes from the map only, so a     *)
(* value may leave a stale entry behind in `order'.                        *)
(*                                                                         *)
(* Operators named Mutant_... are plausible bugs in the definition that    *)
(* follows them; no specification uses them.                               *)
(***************************************************************************)
EXTENDS Subsequences

\* Without its k oldest entries.
DropOldest(order, k) == SubSeq(order, k + 1, Len(order))

EmptyBoundedSet == [set |-> {}, order |-> << >>]

Holds(s, v) == v \in s.set

Mutant_EvictWhenFull(set, order, limit, k) ==
    \/ k = Len(order)
    \/ Cardinality(set \ Entries(SubSeq(order, 1, k))) < limit

\* How many entries the eviction loop of trim() pops: the least number after
\* which the map is within the limit, or all of them.
IsEvictionCount(set, order, limit, k) ==
    \/ k = Len(order)
    \/ Cardinality(set \ Entries(SubSeq(order, 1, k))) <= limit

EvictionCount(set, order, limit) ==
    CHOOSE k \in 0 .. Len(order) :
        /\ IsEvictionCount(set, order, limit, k)
        /\ \A j \in 0 .. (k - 1) : ~ IsEvictionCount(set, order, limit, j)

Mutant_KeepStale(set, order, limit) ==
    IF Len(order) > 2 * limit
    THEN Picked(order, {i \in DOMAIN order : order[i] \notin set})
    ELSE order

\* The second half of trim(): once `order' is more than twice the limit, only
\* the entries whose value is still in the map are kept, each of them.
Compacted(set, order, limit) ==
    IF Len(order) > 2 * limit
    THEN Picked(order, {i \in DOMAIN order : order[i] \in set})
    ELSE order

Trim(s, limit) ==
    LET k    == EvictionCount(s.set, s.order, limit)
        kept == s.set \ Entries(SubSeq(s.order, 1, k))
    IN  [set |-> kept, order |-> Compacted(kept, DropOldest(s.order, k), limit)]

Mutant_AddTwice(s, v, limit) ==
    Trim([set |-> s.set \cup {v}, order |-> Append(s.order, v)], limit)
Mutant_AddRefreshes(s, v, limit) ==
    Trim([set   |-> s.set \cup {v},
          order |-> Append(Picked(s.order, {i \in DOMAIN s.order : s.order[i] # v}), v)], limit)

Add(s, v, limit) ==
    IF v \in s.set THEN s
    ELSE Trim([set |-> s.set \cup {v}, order |-> Append(s.order, v)], limit)

Consume(s, v) == [set |-> s.set \ {v}, order |-> s.order]
===============================================================================
