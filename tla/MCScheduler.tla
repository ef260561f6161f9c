---------------------------- MODULE MCScheduler ----------------------------
(* Model-checking instances of Scheduler.                                  *)
EXTENDS Scheduler

CONSTANTS main, eth, h1, h2, h3

\* h1 and h2 belong to the main thread and share a name, as the "cpm" timers of
\* two IOCRs do.  h3 is dcp_identresp_timeout: an Ethernet thread adds it and
\* nobody removes it.
MainNames    == (h1 :> "cpm") @@ (h2 :> "cpm") @@ (h3 :> "dcp_identresp")
MainAdders   == [h \in Handles |-> IF h = h3 THEN {eth} ELSE {main}]
MainRemovers == [h \in Handles |-> IF h = h3 THEN {} ELSE {main}]
CpmSymmetry  == Permutations({h1, h2})

\* Two handles of the main thread, for liveness.
FewNames     == (h1 :> "cpm") @@ (h2 :> "cpm")
FewThreads   == [h \in Handles |-> {main}]

\* h1 is dcp_sam_timeout: the Ethernet thread restarts it on every DCP Set.
SamNames     == (h1 :> "dcp_sam")
SamThreads   == [h \in Handles |-> {eth}]
=============================================================================
