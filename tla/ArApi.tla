------------------------------- MODULE ArApi -------------------------------
(***************************************************************************)
(* What the stack promises the application about the life of an AR: the    *)
(* order in which the events of one AREP reach the pnet_state_ind()        *)
(* callback (include/pnet_api.h, pnet_event_values_t).  A connection       *)
(* starts, its parameters end, the application is ready, data flows; it    *)
(* may be aborted at any point, and the AREP may then be used again.       *)
(***************************************************************************)
CONSTANT Areps

VARIABLE told      \* per AREP: the last event, "none" before and after an AR

Phases == {"none", "STARTUP", "PRMEND", "APPLRDY", "DATA"}

Init == told = [a \in Areps |-> "none"]

Tell(a, from, to) == told[a] \in from /\ told' = [told EXCEPT ![a] = to]

Startup(a) == Tell(a, {"none"}, "STARTUP")
PrmEnd(a)  == Tell(a, {"STARTUP"}, "PRMEND")
\* The application asks again when there was no session for its request.
ApplRdy(a) == Tell(a, {"PRMEND", "APPLRDY"}, "APPLRDY")
Data(a)    == Tell(a, {"APPLRDY"}, "DATA")

\* One event of the stack, such as a change of the IP address, may abort many.
Abort(S) == told' = [a \in Areps |-> IF a \in S THEN "none" ELSE told[a]]

Next ==
  \/ \E a \in Areps : Startup(a) \/ PrmEnd(a) \/ ApplRdy(a) \/ Data(a)
  \/ \E S \in SUBSET Areps : Abort(S)

Spec == Init /\ [][Next]_told
=============================================================================
