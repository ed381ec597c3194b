--------------------------- MODULE MCMobileClipboard ---------------------------
(***************************************************************************)
(* An instance of MobileClipboard: two remote texts, one of the user, and  *)
(* queues for two decisions.                                               *)
(***************************************************************************)
EXTENDS MobileClipboard

MkPolicy(mode, watch) == [mode |-> mode, watch |-> watch]

SomePolicies == {MkPolicy("off", TRUE), MkPolicy("ask", FALSE),
                 MkPolicy("auto", FALSE), MkPolicy("auto", TRUE)}
===============================================================================
