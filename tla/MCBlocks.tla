------------------------------ MODULE MCBlocks ------------------------------
(* Model-checking instances of BlockWriter with the blocks of RecordBlocks. *)
EXTENDS RecordBlocks

It(usi, maint, len) == [usi |-> usi, maint |-> maint, len |-> len]
S(n, id, items) == [nbr |-> n, ident |-> id, items |-> items]
Slot(n, id, subs) == [nbr |-> n, ident |-> id, subs |-> subs]
E1(n, id) == [nbr |-> n, ident |-> id]

\* Slot 0 is the device's access point; a submodule of slot 1 has diagnosis
\* of all kinds, the other none.
Items == << It(UsiChannel, "FAULT", 0), It(UsiExtended, "REQUIRED", 0), It(16, "FAULT", 50),
            It(UsiQualified, "DEMANDED", 0), It(UsiChannel, "REQUIRED", 0), It(16, "FAULT", 3) >>
Dev == << [nbr |-> 0, slots |->
            << Slot(0, 1, <<S(1, 1, <<>>)>>),
               Slot(1, 2, <<S(1, 1, Items), S(2, 2, <<It(UsiChannel, "FAULT", 0)>>)>>) >>] >>
\* What two ARs expect: all of it, and one of another kind in a missing slot.
ExpAll  == << [nbr |-> 0, modules |-> << Slot(0, 1, <<E1(1, 1)>>), Slot(1, 2, <<E1(1, 1), E1(2, 1)>>) >>] >>
ExpSome == << [nbr |-> 0, modules |-> << Slot(1, 1, <<E1(1, 1)>>), Slot(2, 2, <<E1(1, 1)>>) >>] >>

Diff == << << [noModule |-> FALSE, subs |-> <<1, 2>>], [noModule |-> TRUE, subs |-> <<>>] >> >>
Ar(exp, name) ==
  [refused |-> FALSE, iocrs |-> <<1, 2>>, diff |-> Diff, rpcServer |-> TRUE, startupMode |-> TRUE,
   deviceName |-> name, vendor |-> <<>>, name |-> name, exp |-> exp, iosar |-> FALSE]
Ars == {Ar(ExpAll, 7), [Ar(ExpSome, 12) EXCEPT !.diff = <<>>, !.startupMode = FALSE, !.iosar = TRUE]}

Peer == {[known |-> TRUE, port |-> 8, station |-> 5], [known |-> FALSE, port |-> 0, station |-> 0]}
Logs == {[put |-> 2, wrap |-> FALSE], [put |-> 0, wrap |-> FALSE]}
WrappedLogs == {[put |-> 1, wrap |-> TRUE]}
At   == {[api |-> 0, slot |-> 1, sub |-> 1], [api |-> 0, slot |-> 2, sub |-> 1], [api |-> 1, slot |-> 0, sub |-> 1]}

R == [len |-> 5, dev |-> Dev, log |-> [put |-> 2, wrap |-> FALSE], size |-> 3, scope |-> "AR",
      at |-> [api |-> 0, slot |-> 1, sub |-> 1], ar |-> Ar(ExpAll, 7), filter |-> "ALL",
      ars |-> <<Ar(ExpAll, 7), Ar(ExpSome, 12)>>, peer |-> [known |-> TRUE, port |-> 8, station |-> 5]]

Plain == {"im0Filter", "im0", "im1", "im2", "im3", "im4", "diff", "portAdjust", "portCheck", "ports",
          "statistics", "interfaceAdjust", "interface", "input", "output", "user", "unknown"}
Reads ==
  {ReadResponse(i, R) : i \in Plain}
  \cup {ReadResponse("portReal", [R EXCEPT !.peer = p]) : p \in Peer}
  \cup {ReadResponse("logBook", [R EXCEPT !.log = l]) : l \in Logs}
  \cup {ReadResponse("arData", [R EXCEPT !.scope = s]) : s \in {"DEVICE", "API"}}
  \cup {ReadResponse(i, [R EXCEPT !.scope = s, !.ar = a, !.at = t]) :
          i \in {"exp", "real"}, s \in {"SUBSLOT", "SLOT", "AR", "API", "DEVICE"}, a \in Ars, t \in At}
  \cup {ReadResponse("diagnosis", [R EXCEPT !.scope = s, !.ar = a, !.filter = f]) :
          s \in {"SUBSLOT", "SLOT", "AR", "API", "DEVICE"}, a \in Ars, f \in DiagFilter}

Others ==
  {ConnectResponse(a) : a \in Ars}
  \cup {ConnectResponse([a EXCEPT !.refused = TRUE]) : a \in Ars}
  \cup {DceRpcHeader \o ControlBlock, DceRpcHeader \o WriteResult, LookupResponse(0), LookupResponse(1)}
  \cup {AlarmFixed \o AlarmBlock([notification |-> n, maint |-> mt, item |-> i]) :
          n \in BOOLEAN, mt \in BOOLEAN, i \in ToSet(Items) \cup {It(0, "FAULT", 0)}}

MainRecords == Reads \cup Others
\* The log book before and after its ring has wrapped.
LogRecords == {ReadResponse("logBook", [R EXCEPT !.log = l]) : l \in Logs \cup WrappedLogs}
=============================================================================
