------------------------------- MODULE MCCpm -------------------------------
(* Model-checking instances of Cpm.                                        *)
EXTENDS Cpm

\* The two threads take turns, or every access but the closing of the AR may
\* fall into a frame handler.
MainRaces == {{}, {"count", "stop"}}
StopRaces == {{"stop"}}
=============================================================================
