------------------------------- MODULE MCDiag -------------------------------
(* Model-checking instances of Diag with Ppm.                               *)
EXTENDS Diag, TLC

CONSTANTS MaxNow

\* 1.5 ticks, which is rounded, and 2.
TwoArs == [a \in {"a1", "a2"} |-> IF a = "a1" THEN 3 ELSE 4]
OneAr == [a \in {"a1"} |-> 4]

\* A behaviour is about the clock and the frames, or about diagnoses: each goes
\* to its own depth.
Bounded ==
  \/ now <= MaxNow /\ calls = 0 /\ \A s \in DOMAIN owner : owner[s] = NoAr
  \/ now = 0 /\ writes = 0 /\ ~ppm["a2"].created /\ "PROVIDER" \notin ppm["a1"].status
=============================================================================
