-------------------------- MODULE MCRuntimeLifecycle --------------------------
(***************************************************************************)
(* Instances of RuntimeLifecycle: configurations that switch sync and the  *)
(* watcher on and off and that share no, some or all of their topics.      *)
(***************************************************************************)
EXTENDS RuntimeLifecycle, TLC

CONSTANTS a, b, c, w1, w2

MkConfig(enabled, watchIt, topics) ==
    [enabled |-> enabled, autoWatch |-> watchIt, topics |-> topics]

OffA    == MkConfig(FALSE, FALSE, {a})
PlainAB == MkConfig(TRUE, FALSE, {a, b})
WatchAB == MkConfig(TRUE, TRUE, {a, b})
WatchC  == MkConfig(TRUE, TRUE, {c})
PlainAC == MkConfig(TRUE, FALSE, {a, c})

AllConfigs == {OffA, PlainAB, WatchAB, WatchC, PlainAC}

===============================================================================
