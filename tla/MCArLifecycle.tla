--------------------------- MODULE MCArLifecycle ---------------------------
(* Model-checking instances of ArLifecycle: one or two controllers, each AR *)
(* on an activity of its own, and an activity l1 that only asks the        *)
(* endpoint mapper.                                                        *)
EXTENDS ArLifecycle, TLC

CONSTANTS u1, u2, c1, c2, l1

OneAct  == u1 :> c1
TwoActs == (u1 :> c1) @@ (u2 :> c2)
=============================================================================
