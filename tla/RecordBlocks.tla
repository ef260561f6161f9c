---------------------------- MODULE RecordBlocks ----------------------------
(***************************************************************************)
(* What pf_block_writer.c puts for each kind of block, as the sequence of  *)
(* its fields: integers with their size, areas, strings, padding, and the  *)
(* number of entries of each list.  Which fields are put depends on the    *)
(* device's tree, on what the AR expects, on the diagnosis of a submodule  *)
(* and on the log book, which are parameters here.                         *)
(*                                                                         *)
(*   dev  the APIs of the device, an API's slots and a slot's submodules:  *)
(*        [id, slots], [nbr, ident, subs], [nbr, ident, items]             *)
(*   exp  the same of what an AR expects: [id, modules], [nbr, ident, subs]*)
(***************************************************************************)
EXTENDS Integers, SequencesExt

\* The fields a record is built from.
Num(w)       == [kind |-> "int", size |-> w]
Mem(w)       == [kind |-> "mem", size |-> w]
Str(w, len)  == [kind |-> "str", size |-> w, len |-> len]
Align(w)     == [kind |-> "align", size |-> w, base |-> "block"]
AlignZero(w) == [kind |-> "align", size |-> w, base |-> "zero"]
Open         == [kind |-> "open", what |-> "block"]
Data         == [kind |-> "open", what |-> "data"]
Body         == [kind |-> "body"]
Close        == [kind |-> "close"]
CloseIfAny   == [kind |-> "closeIfAny"]
Count(n)     == [kind |-> "count", size |-> 2, n |-> n]
One          == [kind |-> "one"]
All          == [kind |-> "all"]
\* What is put only if more than n bytes are left.
IfRoom(n, fields) == [kind |-> "ifRoom", size |-> n, fields |-> fields]

U8  == <<Num(1)>>
U16 == <<Num(2)>>
U32 == <<Num(4)>>
Pad(n)  == <<Num(n)>>
Area(n) == <<Mem(n)>>

Block(body) == <<Open>> \o body \o <<Close>>
\* A list of which n entries are announced, and one that is counted.
CountedAs(n, entries) ==
  <<Count(n)>> \o FlattenSeq([i \in DOMAIN entries |-> <<One>> \o entries[i]]) \o <<All>>
Counted(entries) == CountedAs(Len(entries), entries)
Each(Op(_), seq) == [i \in DOMAIN seq |-> Op(seq[i])]
PutAll(Op(_), seq) == FlattenSeq(Each(Op, seq))
\* The entry with a number, as a sequence of at most one.
Entry(seq, nbr) == LET s == SelectSeq(seq, LAMBDA e : e.nbr = nbr)
                   IN IF s = <<>> THEN s ELSE <<s[1]>>

Uuid       == U32 \o U16 \o U16 \o Area(8)
RpcUuid    == U32 \o U16 \o U16 \o U8 \o U8 \o Area(6)
Mac        == Area(6)
PnetStatus == U32
TimeStamp  == U16 \o U16 \o U32

-----------------------------------------------------------------------------
(* The response to a Connect.                                              *)

ArResult      == Block(U16 \o Uuid \o U16 \o Mac \o U16)
IocrResult    == Block(U16 \o U16 \o U16)
AlarmCrResult == Block(U16 \o U16 \o U16)
ArRpcResult   == Block(U16)
ArServerResult(name) == Block(U16 \o Area(name) \o <<Align(4)>>)
ArVendorResult(len)  == Block(U32 \o U32 \o U16 \o Area(len) \o <<Align(4)>>)

SubmoduleDiff(s) == U16 \o U32 \o U16
\* For an empty slot a 32-bit 0 stands where the others have their number.
ModuleDiff(m) ==
  U16 \o U32 \o U16 \o (IF m.noModule THEN U32 \o PutAll(SubmoduleDiff, m.subs)
                        ELSE Counted(Each(SubmoduleDiff, m.subs)))
ApiDiff(a)    == U32 \o Counted(Each(ModuleDiff, a))
ArDiff(apis)  == IF apis = <<>> THEN <<>> ELSE Block(Counted(Each(ApiDiff, apis)))

\* The NDR header: its args_length is that of the blocks that follow.
NdrHeader == U32 \o U32 \o U32 \o U32
ConnectResponse(ar) ==
  PnetStatus \o NdrHeader \o <<Data>>
  \o (IF ar.refused THEN <<>>
      ELSE ArResult \o PutAll(LAMBDA c : IocrResult, ar.iocrs) \o AlarmCrResult
           \o ArDiff(ar.diff)
           \o (IF ar.rpcServer THEN ArRpcResult ELSE <<>>)
           \o (IF ar.startupMode THEN ArServerResult(ar.deviceName) ELSE <<>>)
           \o PutAll(ArVendorResult, ar.vendor))
  \o <<Close>>

ControlBlock == Block(U8 \o U8 \o Uuid \o U16 \o U16 \o U16 \o U16)
DceRpcHeader ==
  U8 \o U8 \o U8 \o U8 \o U8 \o U8 \o U8 \o U8 \o Uuid \o Uuid \o Uuid
  \o U32 \o U32 \o U32 \o U16 \o U16 \o U16 \o U16 \o U16 \o U8 \o U8

-----------------------------------------------------------------------------
(* ARData: the ARs of the device, or the one that reads, for one API.      *)

Iocr(c) == U32 \o U16 \o U16 \o U16 \o U8 \o U8
\* All APIs are announced although those of other numbers are left out.
OneAr(ar, apis) ==
  Uuid \o Uuid \o Uuid \o U32 \o U16 \o U16 \o U16 \o U16 \o U16 \o U16
  \o U16 \o Area(ar.name) \o <<AlignZero(4)>>
  \o U16 \o <<AlignZero(4)>>
  \o <<Count(Len(ar.iocrs)), AlignZero(4)>>
  \o FlattenSeq([i \in DOMAIN ar.iocrs |-> <<One>> \o Iocr(ar.iocrs[i])]) \o <<All>>
  \o <<Count(Len(ar.exp)), AlignZero(4)>>
  \o FlattenSeq([i \in DOMAIN apis |-> <<One>> \o U32]) \o <<All>>
  \o U16 \o <<AlignZero(4)>>
ArDataBlock(ars) ==
  <<Open, Body>> \o (IF ars = <<>> THEN <<>> ELSE Counted(ars)) \o <<CloseIfAny>>
ArDataOfDevice(ars)   == ArDataBlock([i \in DOMAIN ars |-> OneAr(ars[i], ars[i].exp)])
ArDataOfApi(ar, api)  ==
  LET apis == SelectSeq(ar.exp, LAMBDA a : a.nbr = api)
  IN ArDataBlock([i \in DOMAIN apis |-> OneAr(ar, apis)])

-----------------------------------------------------------------------------
(* RealIdentificationData and APIData.                                     *)

SubslotData(s) == U16 \o U32
SlotData(slot, subs) == U16 \o U32 \o Counted(Each(SubslotData, subs))
\* The submodules of a slot that an AR expects, whatever their ident.
SubsExpected(slot, subs) ==
  FlattenSeq([i \in DOMAIN subs |-> Entry(slot.subs, subs[i].nbr)])
ApiData(slots) == U32 \o Counted(slots)
ApiDataReal(api) ==
  ApiData(Each(LAMBDA s : SlotData(s, s.subs), api.slots))
ApiDataExpected(api, exp) ==
  ApiData(FlattenSeq([i \in DOMAIN exp.modules |->
            Each(LAMBDA s : SlotData(s, SubsExpected(s, exp.modules[i].subs)),
                 Entry(api.slots, exp.modules[i].nbr))]))

RealDeviceData(dev, scope, exp, at) ==
  LET api  == Entry(dev, at.api)
      slot == IF api = <<>> THEN <<>> ELSE Entry(api[1].slots, at.slot)
      sub  == IF slot = <<>> THEN <<>> ELSE Entry(slot[1].subs, at.sub)
      only(slots) == Counted(<<ApiData(slots)>>)
  IN CASE scope = "AR" ->
            Counted(FlattenSeq([i \in DOMAIN exp |->
              Each(LAMBDA a : ApiDataExpected(a, exp[i]), Entry(dev, exp[i].nbr))]))
       [] scope = "DEVICE" -> Counted(Each(LAMBDA a : U32, dev))
       [] scope = "API" /\ api # <<>> -> Counted(<<ApiDataReal(api[1])>>)
       [] scope = "SLOT" /\ slot # <<>> ->
            only(<<SlotData(slot[1], slot[1].subs)>>)
       [] scope = "SUBSLOT" /\ sub # <<>> -> only(<<SlotData(slot[1], sub)>>)
       [] OTHER -> <<>>

RealIdentData(dev, scope, exp, at) ==
  <<Open, Body>> \o RealDeviceData(dev, scope, exp, at) \o <<CloseIfAny>>

-----------------------------------------------------------------------------
(* ExpectedIdentificationData.                                             *)

ExpSubmoduleData(s) == U16 \o U32
ExpModuleData(m, subs) == U16 \o U32 \o Counted(Each(ExpSubmoduleData, subs))
ExpApiData(a, modules) == U32 \o Counted(modules)
ExpIdentData(scope, exp, at) ==
  LET whole(m) == ExpModuleData(m, m.subs)
      api == Entry(exp, at.api)
      mod == IF api = <<>> THEN <<>> ELSE Entry(api[1].modules, at.slot)
      sub == IF mod = <<>> THEN <<>> ELSE Entry(mod[1].subs, at.sub)
      only(modules) == Counted(<<ExpApiData(api[1], modules)>>)
  IN Block(CASE scope = "AR" ->
                  Counted(Each(LAMBDA a : ExpApiData(a, Each(whole, a.modules)), exp))
             [] scope = "SLOT" /\ mod # <<>> -> only(<<whole(mod[1])>>)
             [] scope = "SUBSLOT" /\ sub # <<>> -> only(<<ExpModuleData(mod[1], sub)>>)
             [] OTHER -> Counted(<<>>))

-----------------------------------------------------------------------------
(* I&M data and the log book.                                              *)

\* Two blocks, of the submodules and of the device: subslot 1 of slot 0.
Im0FilterData(dev) ==
  LET at == [api |-> 0, slot |-> 0, sub |-> 1]
      one == RealDeviceData(dev, "SUBSLOT", <<>>, at)
  IN Block(one) \o Block(one)

\* The strings fill their buffers whatever their lengths.
Im0(len) == Block(U8 \o U8 \o <<Str(21, len), Str(17, len)>> \o U16
                  \o U8 \o U8 \o U8 \o U8 \o U16 \o U16 \o U16 \o U8 \o U8 \o U16)
Im1(len) == Block(<<Str(33, len), Str(23, len)>>)
Im2(len) == Block(<<Str(17, len)>>)
Im3(len) == Block(<<Str(55, len)>>)
RecordDataRead(len)  == Block(Area(len))
RecordDataWrite(len) == Block(Area(len))

\* The ring: all of its entries are announced once it has wrapped, the one
\* that is the next to be overwritten is not put.
LogBookEntries(log, size) == IF log.wrap THEN size - 1 ELSE log.put
LogBookData(log, size) ==
  Block(TimeStamp \o CountedAs(IF log.wrap THEN size ELSE log.put,
          [i \in 1 .. LogBookEntries(log, size) |-> TimeStamp \o Uuid \o PnetStatus \o U32]))

-----------------------------------------------------------------------------
(* Diagnosis: one block for each USI a submodule has items of.             *)

UsiChannel   == 32768   \* 0x8000 PF_USI_CHANNEL_DIAGNOSIS
UsiExtended  == 32770   \* 0x8002
UsiQualified == 32771   \* 0x8003

DiagItem(it) ==
  CASE it.usi = UsiChannel   -> U16 \o U16 \o U16
    [] it.usi = UsiExtended  -> U16 \o U16 \o U16 \o U16 \o U32
    [] it.usi = UsiQualified -> U16 \o U16 \o U16 \o U16 \o U32 \o U32
    [] OTHER                 -> Area(it.len)

\* Manufacturer's items count as faults and as both kinds of maintenance.
DiagFilter == {"FAULT_STD", "FAULT_ALL", "ALL", "M_REQ", "M_DEM"}
Passes(filter, it) ==
  CASE filter = "FAULT_STD" -> it.usi >= UsiChannel
    [] filter = "ALL"       -> TRUE
    [] filter = "FAULT_ALL" -> it.usi < UsiChannel \/ it.maint = "FAULT"
    [] filter = "M_REQ"     -> it.usi < UsiChannel \/ it.maint = "REQUIRED"
    [] OTHER                -> it.usi < UsiChannel \/ it.maint = "DEMANDED"

DiagList(items, filter, usi) ==
  <<Open>> \o U32 \o U16 \o U16 \o U16 \o U16 \o U16 \o <<Body>>
  \o PutAll(DiagItem, SelectSeq(items, LAMBDA it : Passes(filter, it) /\ it.usi = usi))
  \o <<CloseIfAny>>

DiagSubslot(filter, sub) ==
  PutAll(LAMBDA usi : DiagList(sub.items, filter, usi),
         SetToSortSeq({it.usi : it \in ToSet(sub.items)}, <))
DiagSlot(filter, slot) == PutAll(LAMBDA s : DiagSubslot(filter, s), slot.subs)
\* Of an expected module only the submodules that are of the expected kind.
DiagArSlot(filter, slot, mod) ==
  FlattenSeq([i \in DOMAIN mod.subs |->
    PutAll(LAMBDA s : DiagSubslot(filter, s),
           SelectSeq(Entry(slot.subs, mod.subs[i].nbr),
                     LAMBDA s : s.ident = mod.subs[i].ident))])
DiagApi(filter, api) == PutAll(LAMBDA s : DiagSlot(filter, s), api.slots)

SlotAt(dev, at) == LET a == Entry(dev, at.api)
                   IN IF a = <<>> THEN <<>> ELSE Entry(a[1].slots, at.slot)
DiagnosisSubslot(dev, filter, exp, at) ==
  LET slot == SlotAt(dev, at)
      sub  == IF slot = <<>> THEN <<>> ELSE Entry(slot[1].subs, at.sub)
      mod  == SlotAt([i \in DOMAIN exp |-> [nbr |-> exp[i].nbr, slots |-> exp[i].modules]], at)
      esub == IF mod = <<>> THEN <<>> ELSE Entry(mod[1].subs, at.sub)
      other == esub # <<>> /\ (\/ mod[1].ident # slot[1].ident
                               \/ esub[1].ident # sub[1].ident)
  IN IF sub = <<>> \/ other THEN <<>> ELSE DiagSubslot(filter, sub[1])
DiagnosisSlot(dev, filter, exp, at) ==
  LET slot == SlotAt(dev, at)
      mod  == SlotAt([i \in DOMAIN exp |-> [nbr |-> exp[i].nbr, slots |-> exp[i].modules]], at)
  IN CASE slot = <<>> -> <<>>
       [] mod = <<>>  -> DiagSlot(filter, slot[1])
       [] mod # <<>> /\ mod[1].ident = slot[1].ident -> DiagArSlot(filter, slot[1], mod[1])
       [] OTHER -> <<>>
DiagnosisAr(dev, filter, exp) ==
  FlattenSeq([i \in DOMAIN exp |->
    FlattenSeq([j \in DOMAIN exp[i].modules |->
      LET m == exp[i].modules[j]
          s == SlotAt(dev, [api |-> exp[i].nbr, slot |-> m.nbr])
      IN IF s # <<>> /\ s[1].ident = m.ident THEN DiagArSlot(filter, s[1], m) ELSE <<>>])])
DiagnosisApi(dev, filter, at) == PutAll(LAMBDA a : DiagApi(filter, a), Entry(dev, at.api))
DiagnosisDevice(dev, filter)  == PutAll(LAMBDA a : DiagApi(filter, a), dev)

-----------------------------------------------------------------------------
(* Alarms.                                                                 *)

AlarmFixed  == U16 \o U16 \o U8 \o U8 \o U16 \o U16
MaintStatus == U16 \o Block(U8 \o U8 \o U32)
AlarmBlock(al) ==
  Block(U16 \o U32 \o U16 \o U16
        \o (IF al.notification THEN U32 \o U32 ELSE <<>>) \o U16
        \o CASE ~al.notification -> PnetStatus
             [] al.notification /\ al.item.usi = 0 -> <<>>
             [] al.notification /\ al.item.usi >= UsiChannel ->
                  (IF al.maint THEN MaintStatus ELSE <<>>) \o U16 \o DiagItem(al.item)
             [] OTHER -> U16 \o DiagItem(al.item))

-----------------------------------------------------------------------------
(* Input and output data of a submodule, and the records of the ports.     *)

SubstituteData(iocs, iops, len) == Block(U16 \o Area(iocs) \o Area(len) \o Area(iops))
OutputData(iocs, iops, len) ==
  Block(U16 \o U8 \o U8 \o U16 \o Area(iocs) \o Area(len) \o Area(iops)
        \o SubstituteData(iocs, iops, len))
InputData(iocs, iops, len) ==
  Block(U8 \o Area(iocs) \o U8 \o Area(iops) \o U16 \o Area(len))

\* The inner header has its length from the start: it is not patched.
PdportDataCheck(port, station) ==
  Block(Pad(2) \o U16 \o U16 \o Pad(6)
        \o U8 \o U8 \o Area(port) \o U8 \o Area(station) \o <<Align(4)>>)
PdportDataReal(name, peer) ==
  Block(Pad(2) \o U16 \o U16 \o U8 \o Area(name) \o U8 \o Pad(2)
        \o (IF peer.known THEN U8 \o Area(peer.port) \o U8 \o Area(peer.station)
                               \o <<Align(4)>> \o U32 \o Mac \o Pad(2) ELSE <<>>)
        \o U16 \o Pad(2) \o U32 \o U32 \o U16 \o Pad(2) \o U32)
PdportStatistics == Block(Pad(2) \o U32 \o U32 \o U32 \o U32 \o U32 \o U32)
PdinterfaceDataReal(station) ==
  Block(U8 \o Area(station) \o <<Align(4)>> \o Mac \o Pad(2) \o U32 \o U32 \o U32)
MultiblockInterface(station) ==
  Block(Pad(2) \o U32 \o U16 \o U16 \o PdinterfaceDataReal(station) \o PdportStatistics)
MultiblockPort(name, peer) ==
  Block(Pad(2) \o U32 \o U16 \o U16 \o PdportDataReal(name, peer) \o PdportStatistics)
PeerToPeerBoundary == Block(Pad(2) \o U32 \o U16 \o Pad(2))
PdportDataAdj      == Block(Pad(2) \o U16 \o U16 \o PeerToPeerBoundary)
PdInterfaceAdj     == Block(Pad(2) \o U32 \o <<Align(4)>>)

-----------------------------------------------------------------------------
(* The answer of the endpoint mapper: a handle, and at most one entry.     *)

FloorUuid == U16 \o U8 \o RpcUuid \o U16 \o U16 \o U16
FloorRpc  == U16 \o U8 \o U16 \o U16
FloorUdp  == U16 \o U8 \o U16 \o U16
FloorIp   == U16 \o U8 \o U16 \o U32
Annotation == Area(64)
TowerEntry == U32 \o U32 \o U32 \o Annotation \o U32 \o U32 \o U16
              \o FloorUuid \o FloorUuid \o FloorRpc \o FloorUdp \o FloorIp
RpcHandle  == U32 \o RpcUuid
EpmEntry(n) == U32 \o U32 \o U32 \o (IF n > 0 THEN RpcUuid \o TowerEntry ELSE <<>>)
\* Aligned from its start, as a block is, but without a header.
LookupResponse(n) ==
  <<Data>> \o RpcHandle \o U32 \o EpmEntry(n) \o <<Align(2)>> \o U32 \o <<Close>>

-----------------------------------------------------------------------------
(* Reads and writes.                                                       *)

WriteResult == Block(U16 \o Uuid \o U32 \o U16 \o U16 \o U8 \o U8 \o U16 \o U32
                     \o U16 \o U16 \o PnetStatus \o Pad(16))
ReadResult  == Block(U16 \o Uuid \o U32 \o U16 \o U16 \o U8 \o U8 \o U16 \o U32
                     \o U16 \o U16 \o Pad(20))

\* pf_cmrdr_rm_read_ind(): what the index asks for.  The I&M data are put
\* only if all of the structure they come from would fit.
ReadIm(index, r) ==
  CASE index = "im0Filter" -> Im0FilterData(r.dev)
    [] index = "im0" -> <<IfRoom(56, Im0(r.len))>>
    [] index = "im1" -> <<IfRoom(56, Im1(r.len))>>
    [] index = "im2" -> <<IfRoom(17, Im2(r.len))>>
    [] index = "im3" -> <<IfRoom(55, Im3(r.len))>>
    [] OTHER         -> <<IfRoom(54, RecordDataRead(54))>>

ReadIdent(index, r) ==
  CASE index = "exp"  -> ExpIdentData(r.scope, r.ar.exp, r.at)
    [] index = "diff" -> ArDiff(r.ar.diff)
    [] OTHER -> RealIdentData(r.dev, IF r.scope = "AR" /\ r.ar.iosar THEN "NONE" ELSE r.scope,
                              r.ar.exp, r.at)

ReadData(index, r) ==
  CASE index = "input"  /\ r.len > 0 -> InputData(1, 1, r.len)
    [] index = "output" /\ r.len > 0 -> OutputData(1, 1, r.len)
    [] OTHER -> <<>>

ReadDiagnosis(r) ==
  CASE r.scope = "SUBSLOT" -> DiagnosisSubslot(r.dev, r.filter, r.ar.exp, r.at)
    [] r.scope = "SLOT"    -> DiagnosisSlot(r.dev, r.filter, r.ar.exp, r.at)
    [] r.scope = "AR"      -> DiagnosisAr(r.dev, r.filter, r.ar.exp)
    [] r.scope = "API"     -> DiagnosisApi(r.dev, r.filter, r.at)
    [] r.scope = "DEVICE"  -> DiagnosisDevice(r.dev, r.filter)

ReadPort(index, r) ==
  CASE index = "portReal"        -> PdportDataReal(r.len, r.peer)
    [] index = "portAdjust"      -> PdportDataAdj
    [] index = "portCheck"       -> PdportDataCheck(r.peer.port, r.peer.station)
    [] index = "ports"           -> MultiblockInterface(r.len) \o MultiblockPort(r.len, r.peer)
    [] index = "statistics"      -> PdportStatistics
    [] index = "interfaceAdjust" -> PdInterfaceAdj
    [] OTHER                     -> PdinterfaceDataReal(r.len)

ImIndex    == {"im0Filter", "im0", "im1", "im2", "im3", "im4"}
IdentIndex == {"exp", "real", "diff"}
PortIndex  == {"portReal", "portAdjust", "portCheck", "ports", "statistics",
               "interfaceAdjust", "interface"}
\* No data for an index that is not known.
RecordData(index, r) ==
  CASE index = "user"       -> Area(r.len)
    [] index \in ImIndex    -> ReadIm(index, r)
    [] index \in IdentIndex -> ReadIdent(index, r)
    [] index \in PortIndex  -> ReadPort(index, r)
    [] index = "diagnosis"  -> ReadDiagnosis(r)
    [] index = "logBook"    -> LogBookData(r.log, r.size)
    [] index = "arData"     -> IF r.scope = "DEVICE" THEN ArDataOfDevice(r.ars)
                               ELSE ArDataOfApi(r.ar, r.at.api)
    [] OTHER -> ReadData(index, r)

ReadResponse(index, r) == ReadResult \o <<Data>> \o RecordData(index, r) \o <<Close>>
=============================================================================
