---------------------------- MODULE MCEngineClient ----------------------------
(***************************************************************************)
(* An instance of EngineClient: two devices on one endpoint, and one of    *)
(* them with sync disabled on another.                                     *)
(***************************************************************************)
EXTENDS EngineClient

CONSTANTS d1, d2, hub1, hub2

Home  == [device |-> d1, endpoint |-> hub1, enabled |-> TRUE]
Other == [device |-> d2, endpoint |-> hub1, enabled |-> TRUE]
Away  == [device |-> d1, endpoint |-> hub2, enabled |-> FALSE]

AllConfigs == {Home, Other, Away}
===============================================================================
