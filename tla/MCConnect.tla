----------------------------- MODULE MCConnect -----------------------------
(* Model-checking instances of ConnectRequest: a request that is in order,  *)
(* and all those that differ from it in one thing.                          *)
EXTENDS ConnectRequest

D(dir, len) == [dir |-> dir, len |-> len, iops |-> 1, iocs |-> 1]
S(n, type, desc) ==
  [sub |-> n, type |-> type, desc |-> desc, sharedInput |-> FALSE, reduceInput |-> FALSE,
   reduceOutput |-> FALSE, discardIoxs |-> FALSE]
At(slot, n, offset) == [slot |-> slot, sub |-> n, offset |-> offset]

Dap   == S(1, "NO_IO", <<D("INPUT", 0)>>)
Both  == S(1, "IO", <<D("INPUT", 2), D("OUTPUT", 1)>>)
Out   == S(2, "OUTPUT", <<D("OUTPUT", 2)>>)
Slot0 == [api |-> 0, slot |-> 0, ident |-> 1, subs |-> <<Dap>>]
Slot1 == [api |-> 0, slot |-> 1, ident |-> 2, subs |-> <<Both, Out>>]
MainPlugged == {<<0, 1>>, <<1, 1>>, <<1, 2>>}

Param(uuid) ==
  [type |-> "IOCAR_SINGLE", uuid |-> uuid, macIsGroup |-> FALSE, macIsZero |-> FALSE,
   objectKnown |-> TRUE, state |-> 1, paramServer |-> "CM_INITIATOR", deviceAccess |-> FALSE,
   companion |-> 0, activityTimeout |-> 100, nameLen |-> 3, nameVisible |-> TRUE,
   startupMode |-> FALSE, udpPort |-> 34964]
Cr(type, id, data, iocs) ==
  [type |-> type, ltField |-> "PROFINET", rtClass |-> 1, reserved |-> FALSE, sdu |-> 40,
   frameId |-> id, clock |-> 32, ratio |-> 2, phase |-> 1, sendOffset |-> BestEffort,
   hold |-> 3, vlan |-> 0, priority |-> 6, groupMac |-> FALSE,
   apis |-> <<[api |-> 0, data |-> data, iocs |-> iocs]>>, objects |-> <<>>]
InData  == <<At(0, 1, 0), At(1, 1, 1)>>
InIocs  == <<At(1, 1, 4), At(1, 2, 5)>>
OutData == <<At(1, 1, 0), At(1, 2, 2)>>
OutIocs == <<At(0, 1, 5), At(1, 1, 6)>>
In  == Cr("INPUT", 49153, InData, InIocs)
Ou  == Cr("OUTPUT", NoFrameId, OutData, OutIocs)
Al  == [type |-> 1, ltField |-> "PROFINET", udp |-> FALSE, timeoutFactor |-> 1, retries |-> 3,
        maxLength |-> 200, vlanHigh |-> 0, priorityHigh |-> 6, vlanLow |-> 0, priorityLow |-> 5]

\* Blocks with the header they should have.
Right(b) == [b EXCEPT !.len = Size(b) + 2]
BAr(p)    == Right([kind |-> "ar", len |-> 0, version |-> TRUE, param |-> p])
BCr(c)    == Right([kind |-> "iocr", len |-> 0, version |-> TRUE, cr |-> c])
BExp(m)   == Right([kind |-> "exp", len |-> 0, version |-> TRUE, modules |-> m])
BAl(a)    == Right([kind |-> "alarm", len |-> 0, version |-> TRUE, alarm |-> a])
BRpc(p)   == Right([kind |-> "rpc", len |-> 0, version |-> TRUE, port |-> p])
BUnknown  == [kind |-> "unknown", len |-> 2, version |-> TRUE]

Total(blocks) == FoldLeft(LAMBDA n, b : n + 6 + Size(b), 0, blocks)
Req(blocks) == [blocks |-> blocks, bytes |-> Total(blocks), args |-> Total(blocks)]
Blocks(p, i, o, exp, al) == <<BAr(p), BCr(i), BCr(o)>> \o exp \o <<BAl(al)>>
Exp == <<BExp(<<Slot0>>), BExp(<<Slot1>>)>>
P == Param("u1")
Good == Blocks(P, In, Ou, Exp, Al)

OfParam(p) == Req(Blocks(p, In, Ou, Exp, Al))
OfIn(c)    == Req(Blocks(P, c, Ou, Exp, Al))
OfOut(c)   == Req(Blocks(P, In, c, Exp, Al))
OfExp(e)   == Req(Blocks(P, In, Ou, e, Al))
OfAlarm(a) == Req(Blocks(P, In, Ou, Exp, a))
OfSlot1(subs) == OfExp(<<BExp(<<Slot0, [Slot1 EXCEPT !.subs = subs]>>)>>)
OutAt(data, iocs) == OfOut(Cr("OUTPUT", NoFrameId, data, iocs))
InAt(data, iocs)  == OfIn(Cr("INPUT", 49153, data, iocs))

Ars == {OfParam(p) : p \in {[P EXCEPT !.type = "IOSAR"], [P EXCEPT !.uuid = "nil"],
          [P EXCEPT !.deviceAccess = TRUE], [P EXCEPT !.activityTimeout = 1001],
          [P EXCEPT !.nameLen = 0], [P EXCEPT !.startupMode = TRUE]}}
Crs == {OfIn(c) : c \in {[In EXCEPT !.type = "RESERVED"], [In EXCEPT !.rtClass = 3, !.frameId = 256],
          [In EXCEPT !.sdu = 1441], [In EXCEPT !.frameId = 0], [In EXCEPT !.clock = 3],
          [In EXCEPT !.ratio = 513], [In EXCEPT !.ratio = 256, !.clock = 128],
          [In EXCEPT !.phase = 3], [In EXCEPT !.sendOffset = 999999],
          [In EXCEPT !.sendOffset = 1000000], [In EXCEPT !.hold = 961], [In EXCEPT !.hold = 960],
          [In EXCEPT !.clock = 4, !.ratio = 1], [In EXCEPT !.apis = <<>>],
          [In EXCEPT !.apis = @ \o @]}}
\* One place is moved over all of the frame and to its end.
Moved == {OutAt(<<At(1, 1, 0), At(1, 2, n)>>, OutIocs) : n \in 0 .. 7 \cup {37, 38}}
         \cup {OutAt(OutData, <<At(0, 1, n), At(1, 1, 6)>>) : n \in 0 .. 7 \cup {39, 40}}
         \cup {InAt(<<At(0, 1, 0), At(1, 1, n)>>, InIocs) : n \in 0 .. 7}
         \cup {InAt(InData, <<At(1, 1, n), At(1, 2, 5)>>) : n \in 0 .. 5}
Listings == {OutAt(OutData \o <<At(1, 2, 8)>>, OutIocs), OutAt(OutData, OutIocs \o <<At(1, 2, 8)>>),
             OutAt(<<At(0, 1, 0)>> \o OutData, OutIocs), OutAt(<<>>, <<>>),
             OutAt(<<At(1, 2, 2)>>, <<At(0, 1, 5)>>), InAt(<<At(0, 1, 0)>>, <<>>),
             Req(Blocks(P, Cr("INPUT", 49153, InData, <<At(1, 1, 4)>>),
                        Cr("OUTPUT", NoFrameId, <<At(1, 1, 0)>>, OutIocs), Exp, Al))}
Expected == {OfSlot1(s) : s \in {<<>>, <<Both>>, <<Both, Both, Out>>, <<Both, [Out EXCEPT !.sub = 9]>>,
               <<Both, [Out EXCEPT !.desc = <<D("INPUT", 2)>>]>>,
               <<Both, [Out EXCEPT !.desc = <<D("OUTPUT", 1440)>>]>>,
               <<[Both EXCEPT !.discardIoxs = TRUE], Out>>}}
            \cup {OfExp(<<BExp(<<Slot0, Slot1, Slot1>>)>>), OfExp(<<>>),
                  OfExp(<<BExp(<<[Slot1 EXCEPT !.api = 1]>>), BExp(<<Slot0>>)>>),
                  OfExp(<<BExp(<<Slot0, Slot1, [Slot1 EXCEPT !.slot = 2]>>)>>)}
Headers == {Req([Good EXCEPT ![i].len = @ + n]) : i \in DOMAIN Good, n \in {-1, 1}}
           \cup {[Req(Good) EXCEPT !.bytes = n] : n \in {0, 5, 70, 150}}
           \cup {[Req(Good) EXCEPT !.args = @ - 1], Req(<<>>), Req(Tail(Good)), Req(Good \o <<BAr(P)>>),
                 Req(Good \o <<BUnknown>>), Req(Good \o <<BAl(Al)>>), Req(Good \o <<BCr(In)>>),
                 Req(Good \o <<BRpc(1023)>>), OfAlarm([Al EXCEPT !.retries = 2])}
\* Those that are accepted, for the sequences of Connects.
More == {Req(Good), Req(Good \o <<BRpc(1024)>>), OfParam(Param("u2")), OfParam(Param("u3")),
         Req(<<BAr(Param("u2")), BCr(In), BCr(Ou), BCr([Ou EXCEPT !.rtClass = 2])>> \o Exp \o <<BAl(Al)>>),
         Req(<<BAr(Param("u3")), BCr(In), BCr(Ou), BCr(Ou)>> \o Exp \o <<BAl(Al)>>)}

MainRequests == Ars \cup Crs \cup Moved \cup Listings \cup Expected \cup Headers \cup More
=============================================================================
