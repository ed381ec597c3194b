----------------------------- MODULE Subsequences -----------------------------
(***************************************************************************)
(* The one loop that the runtime's bounded sets and the bridge's history   *)
(* lists share: copy the entries of a slice that pass a test, in their     *)
(* order.  SelectSeq says the same, but by recursion, which the provers    *)
(* cannot unfold; Picked is given the indices and finds each place by      *)
(* counting.                                                               *)
(***************************************************************************)
EXTENDS Integers, Sequences, FiniteSets

\* The values a list mentions.
Entries(list) == {list[i] : i \in DOMAIN list}

\* The entries of a list at the indices I, in their order.
Picked(list, I) ==
    [i \in 1 .. Cardinality(I) |->
        list[CHOOSE k \in I : Cardinality(I \cap (1 .. k)) = i]]

NoRepeats(list) == \A i, j \in DOMAIN list : list[i] = list[j] => i = j
===============================================================================
