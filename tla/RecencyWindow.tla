---------------------------- MODULE RecencyWindow ----------------------------
(***************************************************************************)
(* What a deduplication window promises: it holds the Limit most recently  *)
(* observed distinct values, oldest first.  Observing a value that is in   *)
(* the window changes nothing; a new value displaces the oldest one of a   *)
(* full window.                                                            *)
(***************************************************************************)
EXTENDS Naturals, Sequences

CONSTANTS Values,  \* what can be observed
          Limit    \* capacity of the window

VARIABLE window

InWindow(v) == \E i \in DOMAIN window : window[i] = v

Observe(v) ==
    /\ ~ InWindow(v)
    /\ window' = IF Len(window) < Limit
                 THEN Append(window, v)
                 ELSE Append(Tail(window), v)

Init == window = << >>

Next == \E v \in Values : Observe(v)

Spec == Init /\ [][Next]_window
===============================================================================
