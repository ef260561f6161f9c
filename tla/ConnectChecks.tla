--------------------------- MODULE ConnectChecks ---------------------------
(***************************************************************************)
(* The checks of pf_cmdev_check_apdu(): what a Connect may ask for, and    *)
(* where in the frames of its IOCRs the data of each submodule is.  Pure   *)
(* operators over the AR that was read from the request:                   *)
(*                                                                         *)
(*   ar.param   the AR block        ar.exp    APIs, modules, submodules    *)
(*   ar.iocrs   the IOCR blocks     ar.alarm  the alarm CR block           *)
(*                                                                         *)
(* Every fault of a block is answered with an error of that block: which   *)
(* of the numbers of its fields the error has is left out.                 *)
(***************************************************************************)
EXTENDS Integers, SequencesExt

CONSTANTS
  MinInterval,  \* min_device_interval: the shortest cycle, in 31.25 us
  Plugged       \* the <<slot, subslot>> that are plugged when it is checked

Min2(a, b) == IF a < b THEN a ELSE b
Entry(seq, Test(_)) == SelectSeq(seq, Test)
AnyOf(seq, Test(_)) == \E i \in DOMAIN seq : Test(seq[i])

-----------------------------------------------------------------------------
(* The AR block.                                                           *)

ArParamFaulty(p) ==
  \/ p.type # "IOCAR_SINGLE"
  \/ p.uuid = "nil"
  \/ p.macIsGroup \/ ~p.objectKnown
  \/ p.state # 1 \/ p.paramServer = "EXTERNAL"
  \/ p.deviceAccess /\ p.type # "IOSAR"
  \/ p.companion = 3
  \/ p.activityTimeout \notin 1 .. 1000
  \/ p.nameLen \notin 1 .. 240 \/ ~p.nameVisible

-----------------------------------------------------------------------------
(* The IOCR block.                                                         *)

RtClass == [RT1 |-> 1, RT2 |-> 2, RT3 |-> 3, UDP |-> 4, STREAM |-> 5]
IsUdp(c)   == c.rtClass = RtClass.UDP
IsCyclic(c) == c.rtClass \in {RtClass.RT1, RtClass.RT2, RtClass.RT3}
Multicast == {"MC_PROVIDER", "MC_CONSUMER"}

FrameIds(c) ==
  CASE c.rtClass = RtClass.RT3 -> 256 .. 32767
    [] c.type \in Multicast /\ c.rtClass = RtClass.RT2 -> 48128 .. 49151
    [] c.type \in Multicast /\ c.rtClass \in {RtClass.RT1, RtClass.UDP} -> 63488 .. 64511
    [] c.type = "INPUT" /\ c.rtClass = RtClass.RT2 -> 32768 .. 48127
    [] c.type = "INPUT" /\ c.rtClass \in {RtClass.RT1, RtClass.UDP} -> 49152 .. 63487
    [] OTHER -> 0 .. 65535

\* data_hold_factor * reduction_ratio * send_clock_factor * 1000 in 32 bits,
\* divided by 32: the time in us.  A multiple of 1000 is one of 8, so 29 bits
\* of the rest are kept, which are multiplied in two halves.
Bits29 == 536870912
Times125(x) ==
  LET hi == x \div 32768  lo == x % 32768
  IN (((hi * 125) % 16384) * 32768 + lo * 125) % Bits29
HoldTime(c) ==
  LET x == ((c.hold * c.ratio) % (Bits29 \div c.clock)) * c.clock
  IN Times125(x) \div 4

RatioFaulty(c) ==
  LET most == IF IsUdp(c) THEN 16384 ELSE 512
  IN \/ c.ratio \notin 1 .. most
     \/ c.ratio >= most \div 2 /\ c.clock > 64
     \/ c.ratio = most /\ c.clock > 32

\* A frame is sent in the phase it asks for, or as well as possible.
BestEffort == -1   \* 0xffffffff
OffsetFaulty(c) ==
  c.sendOffset # BestEffort /\ (\/ c.sendOffset >= c.clock * 31250
                                \/ c.sendOffset >= 4000000)

Clocks == {1, 2, 4, 8, 16, 32, 64, 128}
IocrFaulty(p, c) ==
  \/ p.deviceAccess
  \/ c.type \notin {"INPUT", "OUTPUT"} \cup Multicast
  \/ c.ltField # (IF IsUdp(c) THEN "IP" ELSE "PROFINET")
  \/ c.rtClass \notin (IF p.startupMode THEN RtClass.RT2 ELSE RtClass.RT1) .. RtClass.STREAM
  \/ c.reserved
  \/ c.sdu \notin (IF IsUdp(c) THEN 12 ELSE 40) .. 1440
  \/ c.frameId \notin FrameIds(c) /\ c.type # "OUTPUT"
  \/ c.clock \notin Clocks
  \/ (IsCyclic(c) \/ IsUdp(c)) /\ RatioFaulty(c)
  \/ c.phase = 0 \/ c.phase > c.ratio
  \/ OffsetFaulty(c)
  \/ c.hold \notin 1 .. 7680
  \/ IsUdp(c) /\ HoldTime(c) > 61440000
  \/ IsCyclic(c) /\ HoldTime(c) > 1920000
  \/ c.vlan # 0 \/ c.priority # 6
  \/ c.type \in Multicast /\ ~c.groupMac
  \/ c.apis = <<>>
  \/ IsUdp(c) /\ (~p.macIsZero \/ p.udpPort <= 1023)

\* All IOCRs that were read, and that none is faster than the device.
IocrsFaulty(ar) == \E i \in DOMAIN ar.iocrs : IocrFaulty(ar.param, ar.iocrs[i])
TooFast(ar) ==
  \E i \in DOMAIN ar.iocrs : MinInterval > ar.iocrs[i].clock * ar.iocrs[i].ratio

-----------------------------------------------------------------------------
(* The expected modules and submodules.                                    *)

\* pf_cmdev_get_exp_api(), _mod() and _sub(): the first of the number.
ExpSub(exp, at) ==
  LET apis == Entry(exp, LAMBDA a : a.api = at.api)
      mods == IF apis = <<>> THEN <<>> ELSE Entry(apis[1].modules, LAMBDA m : m.slot = at.slot)
      subs == IF mods = <<>> THEN <<>> ELSE Entry(mods[1].subs, LAMBDA s : s.sub = at.sub)
  IN IF subs = <<>> THEN <<>> ELSE <<subs[1]>>

\* Submodules by their data: without, with input, with output, with both.
HasOutput == {"OUTPUT", "IO"}
Directions(s) == [i \in DOMAIN s.desc |-> s.desc[i].dir]
DescriptorsFit(s) ==
  CASE s.type = "OUTPUT" -> Directions(s) = <<"OUTPUT">>
    [] s.type = "IO"     -> Len(s.desc) = 2 /\ ToSet(Directions(s)) = {"INPUT", "OUTPUT"}
    [] OTHER             -> Directions(s) = <<"INPUT">>

DescriptorFaulty(s, d) ==
  \/ d.dir \notin {"INPUT", "OUTPUT"}
  \/ d.dir = "INPUT" /\ s.type = "OUTPUT"
  \/ d.dir = "OUTPUT" /\ s.type \notin HasOutput
  \/ d.len > 1439 \/ (s.type = "NO_IO" /\ d.len # 0)
  \/ d.iops # 1 \/ d.iocs # 1

\* An IOCR has data or a consumer status of the submodule.
Mentions(c, at) ==
  AnyOf(c.apis, LAMBDA a : /\ a.api = at.api
                           /\ AnyOf(a.data \o a.iocs, LAMBDA e : e.slot = at.slot /\ e.sub = at.sub))

SubFaulty(ar, api, mod, i) ==
  LET s == mod.subs[i]
      at == [api |-> api, slot |-> mod.slot, sub |-> s.sub]
  IN \/ \E j \in 1 .. i - 1 : mod.subs[j].sub = s.sub
     \/ ~AnyOf(ar.iocrs, LAMBDA c : Mentions(c, at))
     \/ s.sub > 40959 \/ <<mod.slot, s.sub>> \notin Plugged
     \/ s.sub >= 32768 /\ api # 0
     \/ ~DescriptorsFit(s)
     \/ s.type = "OUTPUT" /\ s.sharedInput
     \/ s.reduceInput /\ s.type \in {"INPUT", "IO"}
     \/ s.reduceOutput /\ s.type \in HasOutput
     \/ s.discardIoxs /\ s.type # "IO"
     \/ \E d \in DOMAIN s.desc : DescriptorFaulty(s, s.desc[d])

ModuleFaulty(ar, api, i) ==
  LET mod == api.modules[i]
  IN \/ \E j \in 1 .. i - 1 : api.modules[j].slot = mod.slot
     \/ mod.slot > 32767
     \/ \A p \in Plugged : p[1] # mod.slot
     \/ mod.ident = 0 \/ mod.subs = <<>>
     \/ \E s \in DOMAIN mod.subs : SubFaulty(ar, api.api, mod, s)

ExpFaulty(ar) ==
  \/ ~ar.param.deviceAccess /\ ar.exp = <<>>
  \/ \E a \in DOMAIN ar.exp : \E m \in DOMAIN ar.exp[a].modules : ModuleFaulty(ar, ar.exp[a], m)

-----------------------------------------------------------------------------
(* Where the data is: one object for each submodule of an IOCR.            *)

DirectionOf(c) == IF c.type \in {"INPUT", "MC_PROVIDER"} THEN "INPUT" ELSE "OUTPUT"
\* The descriptor that has the lengths of a status: that of a consumer is
\* sent against the direction of the data it is about.
DescriptorDirection(type, dir, status) ==
  LET asInput == (dir = "INPUT" /\ status = "IOPS") \/ (dir = "OUTPUT" /\ status = "IOCS")
  IN CASE type = "IO"     -> IF asInput THEN "INPUT" ELSE "OUTPUT"
       [] type = "OUTPUT" -> IF asInput THEN "NONE" ELSE "OUTPUT"
       [] OTHER           -> IF asInput THEN "INPUT" ELSE "NONE"
Descriptor(s, dir, status) ==
  Entry(s.desc, LAMBDA d : d.dir = DescriptorDirection(s.type, dir, status))

\* The entries of all APIs of an IOCR, in order.
Listed(c, what) ==
  FlattenSeq([a \in DOMAIN c.apis |->
    [i \in DOMAIN c.apis[a][what] |->
       [api |-> c.apis[a].api, slot |-> c.apis[a][what][i].slot,
        sub |-> c.apis[a][what][i].sub, offset |-> c.apis[a][what][i].offset]]])

Area(from, len) == [from |-> from, len |-> len]
None == Area(0, 0)
SameSub(x, y) == x.api = y.api /\ x.slot = y.slot /\ x.sub = y.sub
NewObject(e) == [api |-> e.api, slot |-> e.slot, sub |-> e.sub,
                 data |-> None, iops |-> None, iocs |-> None]
\* The object of the entry's submodule is changed, or a new one is added.
WithObject(objects, e, Change(_)) ==
  IF AnyOf(objects, LAMBDA o : SameSub(o, e))
  THEN LET i == SelectInSeq(objects, LAMBDA o : SameSub(o, e))
       IN [objects EXCEPT ![i] = Change(objects[i])]
  ELSE Append(objects, Change(NewObject(e)))

PutData(s, d, dir, e, o) ==
  LET reduced == IF dir = "INPUT" THEN s.reduceInput ELSE s.reduceOutput
      data == IF reduced \/ s.discardIoxs THEN None ELSE Area(e.offset, d.len)
  IN [o EXCEPT !.data = data,
               !.iops = IF s.discardIoxs THEN None ELSE Area(data.from + data.len, d.iops)]
PutIocs(s, d, e, o) ==
  [o EXCEPT !.iocs = IF s.discardIoxs THEN None ELSE Area(e.offset, d.iocs)]

\* An entry whose submodule has no descriptor for it is passed over.
SetupDataIops(ar, c) ==
  LET dir == DirectionOf(c)
      add(objects, e) ==
        LET s == ExpSub(ar.exp, e)
            d == IF s = <<>> THEN <<>> ELSE Descriptor(s[1], dir, "IOPS")
        IN IF d = <<>> THEN objects
           ELSE WithObject(objects, e, LAMBDA o : PutData(s[1], d[1], dir, e, o))
  IN FoldLeft(add, <<>>, Listed(c, "data"))
SetupIocs(ar, c, objects) ==
  LET add(objs, e) ==
        LET s == ExpSub(ar.exp, e)
            d == IF s = <<>> THEN <<>> ELSE Descriptor(s[1], DirectionOf(c), "IOCS")
        IN IF d = <<>> THEN objs
           ELSE WithObject(objs, e, LAMBDA o : PutIocs(s[1], d[1], e, o))
  IN FoldLeft(add, objects, Listed(c, "iocs"))
SetupDesc(ar, c) == SetupIocs(ar, c, SetupDataIops(ar, c))

\* It fails, without an error, when a submodule is not expected.
SetupFails(ar) ==
  \E i \in DOMAIN ar.iocrs :
    AnyOf(Listed(ar.iocrs[i], "data") \o Listed(ar.iocrs[i], "iocs"),
          LAMBDA e : ExpSub(ar.exp, e) = <<>>)

-----------------------------------------------------------------------------
(* The final check of the frames.                                          *)

\* pf_cmdev_check_no_straddle()
Apart(a, b) ==
  a.len > 0 /\ b.len > 0 =>
    IF a.from <= b.from THEN a.from + a.len <= b.from ELSE b.from + b.len <= a.from

Areas(o) == {o.data, o.iops, o.iocs}
\* Mutant: only the data of two submodules are compared, not their statuses.
OverlapsOfData(objects, i) ==
  \E j \in 1 .. i - 1 : ~Apart(objects[i].data, objects[j].data)

\* pf_cmdev_check_iocr_overlap(): with the objects before it, not with itself.
Overlaps(objects, i) ==
  \E j \in 1 .. i - 1 : \E a \in Areas(objects[i]), b \in Areas(objects[j]) : ~Apart(a, b)

Once(list, e) == Cardinality({i \in DOMAIN list : list[i].slot = e.slot /\ list[i].sub = e.sub}) = 1

ListFaulty(ar, c, a, what) ==
  LET list == a[what]
      sub(e) == ExpSub(ar.exp, [api |-> a.api, slot |-> e.slot, sub |-> e.sub])
      against(s) ==
        IF what = "data"
        THEN \/ s.type \notin HasOutput /\ c.type \in {"OUTPUT", "MC_CONSUMER"}
             \/ s.type = "OUTPUT" /\ c.type \in {"INPUT", "MC_PROVIDER"}
        ELSE \/ s.type \notin HasOutput /\ c.type = "INPUT"
             \/ s.type = "OUTPUT" /\ c.type = "OUTPUT"
             \/ s.type = "IO" /\ Len(s.desc) # 2
  IN AnyOf(list, LAMBDA e : \/ ~Once(list, e)
                            \/ sub(e) = <<>>
                            \/ sub(e) # <<>> /\ against(sub(e)[1]))

ApiFaulty(ar, c, a) ==
  \/ ~AnyOf(ar.exp, LAMBDA x : x.api = a.api)
  \/ a.data = <<>> /\ a.iocs = <<>>
  \/ ListFaulty(ar, c, a, "data") \/ ListFaulty(ar, c, a, "iocs")

FrameFaulty(c) ==
  \E i \in DOMAIN c.objects :
    \/ \E a \in Areas(c.objects[i]) : a.from + a.len > c.sdu
    \/ Overlaps(c.objects, i)

\* pf_cmdev_check_iocr_apis()
LayoutFaulty(ar) ==
  \E i \in DOMAIN ar.iocrs :
    \/ AnyOf(ar.iocrs[i].apis, LAMBDA a : ApiFaulty(ar, ar.iocrs[i], a))
    \/ FrameFaulty(ar.iocrs[i])

-----------------------------------------------------------------------------
(* The rest of the blocks.                                                 *)

CountFaulty(ar) ==
  \/ ~ar.param.deviceAccess /\ (\A i \in DOMAIN ar.iocrs : ar.iocrs[i].type # "INPUT")
  \/ ~ar.param.deviceAccess /\ (\A i \in DOMAIN ar.iocrs : ar.iocrs[i].type # "OUTPUT")
  \/ ~ar.param.deviceAccess /\ ar.nbrAlarm # 1
  \/ AnyOf(ar.iocrs, LAMBDA c : c.rtClass = RtClass.RT3)

AlarmFaulty(p, al) ==
  \/ p.deviceAccess
  \/ al.type # 1
  \/ al.ltField # (IF al.udp THEN "IP" ELSE "PROFINET")
  \/ al.timeoutFactor \notin 1 .. 100
  \/ al.retries \notin 3 .. 15
  \/ al.maxLength \notin 200 .. 1432
  \/ al.vlanHigh # 0 \/ al.priorityHigh # 6
  \/ al.vlanLow # 0 \/ al.priorityLow # 5

RpcFaulty(port) == port < 1024
=============================================================================
