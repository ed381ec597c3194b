---------------------------- MODULE AtomicLifecycle ----------------------------
(***************************************************************************)
(* What the host may rely on when it starts, stops and configures a        *)
(* runtime: for what the runtime holds of itself, an operation takes       *)
(* effect as a whole or not at all.  The hub's subscriptions and the       *)
(* adapter's watchers are outside this promise.                            *)
(*                                                                         *)
(* A start, a change of the configuration and a restoration are requests:  *)
(* they are granted, all at once, only if nothing they needed went wrong,  *)
(* and otherwise refused, which changes nothing.  Stopping and disabling   *)
(* take effect at once; only then do they clean up, and whether that goes  *)
(* wrong has no influence.                                                 *)
(***************************************************************************)
CONSTANTS Configs,       \* the configurations the host may ask for
          InitialConfig  \* the first one

VARIABLES on,          \* whether the runtime is started
          config,      \* its configuration
          subscribed,  \* whether it counts itself subscribed
          watching,    \* whether it counts itself watching
          request      \* what is under way

vars == <<on, config, subscribed, watching, request>>

Request(kind, c) == [kind |-> kind, next |-> c, failed |-> FALSE]
NoRequest == Request("none", InitialConfig)

Nothing == request = NoRequest

\* The runtime runs, or not, as a configuration says.
Runs(c) ==
    /\ on' = TRUE /\ config' = c
    /\ subscribed' = c.enabled
    /\ watching' = (c.enabled /\ c.autoWatch)
Halts(c) == on' = FALSE /\ config' = c /\ subscribed' = FALSE /\ watching' = FALSE
Stays == UNCHANGED <<on, config, subscribed, watching>>

Init ==
    /\ on = FALSE /\ config = InitialConfig
    /\ subscribed = FALSE /\ watching = FALSE
    /\ request = NoRequest
-------------------------------------------------------------------------------
(* What takes effect at once. *)

StartDisabled ==
    /\ Nothing /\ ~ on /\ ~ config.enabled
    /\ Runs(config)
    /\ UNCHANGED request

Stop ==
    /\ Nothing
    /\ Halts(config)
    /\ request' \in {NoRequest, Request("stop", config)}

Configure(c) == Nothing /\ ~ on /\ Halts(c) /\ UNCHANGED request

Disable(c) ==
    /\ Nothing /\ on /\ config.enabled /\ ~ c.enabled
    /\ Runs(c)
    /\ request' = Request("disable", c)
-------------------------------------------------------------------------------
(* Requests. *)

AskStart ==
    /\ Nothing /\ ~ on /\ config.enabled
    /\ request' = Request("start", config)
    /\ Stays

AskUpdate(c) ==
    /\ Nothing /\ on /\ (config.enabled => c.enabled)
    /\ request' = Request("update", c)
    /\ Stays

AskRestore ==
    /\ Nothing /\ on /\ config.enabled
    /\ request' = Request("restore", config)
    /\ Stays

\* Something the operation needs goes wrong.
GoWrong ==
    /\ ~ Nothing
    /\ request' = [request EXCEPT !.failed = TRUE]
    /\ Stays

Pending == request.kind \in {"start", "update", "restore"}

Grant ==
    /\ Pending /\ ~ request.failed
    /\ Runs(request.next)
    /\ request' = NoRequest

Refuse ==
    /\ Pending /\ request.failed
    /\ request' = NoRequest
    /\ Stays

\* The end of the clean-up after a stop or a disabling.
CleanedUp ==
    /\ request.kind \in {"stop", "disable"}
    /\ request' = NoRequest
    /\ Stays

Next ==
    \/ StartDisabled \/ Stop \/ AskStart \/ AskRestore
    \/ \E c \in Configs : Configure(c) \/ Disable(c) \/ AskUpdate(c)
    \/ GoWrong \/ Grant \/ Refuse \/ CleanedUp

Spec == Init /\ [][Next]_vars
===============================================================================
