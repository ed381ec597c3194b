----------------------------- MODULE MCDedupeSet -----------------------------
\* Model-checking instances of DedupeSet; values are interchangeable.
EXTENDS DedupeSet, TLC

ValueSymmetry == Permutations(Values)

\* Picked agrees with the recursive SelectSeq.
Orders == UNION {[1 .. n -> Values] : n \in 0 .. 4}
ASSUME PickedAgrees ==
    \A q \in Orders : \A S \in SUBSET Values :
        Picked(q, {i \in DOMAIN q : q[i] \in S}) = SelectSeq(q, LAMBDA v : v \in S)
===============================================================================
