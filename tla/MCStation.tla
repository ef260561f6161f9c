------------------------------ MODULE MCStation ------------------------------
(* Model-checking instances of Dcp with Settings.                            *)
EXTENDS Dcp

Configured == [name |-> "a", ip |-> 1]

\* The name and the address are independent of the location but for the resets
\* and the background thread: no behaviour changes both otherwise.
OneAtATime ==
  \/ dev.by \in {"file", "reset"} /\ ~dev.unsaved
  \/ dev.cur = dev.nonvol /\ dev.cur \in {Configured, [name |-> "", ip |-> 0]}

\* A behaviour is about the settings, with one controller that stays and whose first
\* frame after power-on is a Get; or about DCP, with the background thread at rest.
Bounded ==
  \/ /\ OneAtATime /\ ident = NoIdent /\ main = "idle"
     /\ sam.mac = {"m1"} \/ dev = Started(file)
  \/ inputs <= MaxBefore /\ bg.at = "wait" /\ dev.by = "file" /\ dev.ars = {}
=============================================================================
