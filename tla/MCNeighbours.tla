----------------------------- MODULE MCNeighbours -----------------------------
(* Peers that are the wanted one, one of another name, one whose name is only  *)
(* the beginning of the wanted one, and one that is believed for long.         *)
EXTENDS Neighbours

MCInfos ==
  {[station |-> {"dut"}, port |-> {"port-001"}, long |-> FALSE],
   [station |-> {"du"}, port |-> {}, long |-> FALSE],
   [station |-> {"plc"}, port |-> {"port-002"}, long |-> TRUE]}
MCWanted == {[station |-> "dut", port |-> "port-001"]}
MCBegins == {<<"du", "dut">>}
=============================================================================
