--------------------------- MODULE ConnectRequest ---------------------------
(***************************************************************************)
(* A Connect from the first byte of its arguments to the answer: the       *)
(* blocks are read one after the other (pf_cmrpc_rm_connect_interpret_ind  *)
(* with pf_block_reader.c), then the AR is checked, its frame ids are      *)
(* chosen, the application is asked, and the AR is kept or released.       *)
(* Several controllers connect and release one after the other.            *)
(***************************************************************************)
EXTENDS ConnectChecks

CONSTANTS
  Requests,     \* the Connects that may come: see Request below
  MaxAr,        \* PNET_MAX_AR; there is one AR more, to answer with
  MaxCr,        \* PNET_MAX_CR
  MaxApi, MaxSlots, MaxSubslots,  \* the room for what an AR expects
  MaxEntries,   \* entries of an IOCR's list
  MaxConnects   \* bound: Connects in a behaviour

ASSUME ConnectAssumption ==
  /\ {MaxAr, MaxCr, MaxApi, MaxSlots, MaxSubslots, MaxEntries, MaxConnects} \subseteq Nat
  /\ MaxAr > 0

\* A request is its blocks, the number of bytes that came and the length of
\* its arguments.  A block is [kind, len, version, ...]: len is the length
\* its header says, version whether it is the right one.

VARIABLES
  stage,    \* what is done next
  req, ix, pos,  \* the request, its next block and *p_pos
  ar,       \* the AR that is built
  mine,     \* its index
  ars,      \* the ARs of the stack: NoAr, or what they agreed on
  why,      \* rpc_result: the part that is to blame
  ret,      \* the return value
  connects

vars == <<stage, req, ix, pos, ar, mine, ars, why, ret, connects>>

NoAr == [used |-> FALSE]
NoError == "NOERROR"
NoParam == [uuid |-> "nil", deviceAccess |-> FALSE, startupMode |-> FALSE,
            macIsZero |-> TRUE, udpPort |-> 0]   \* zeros
NewAr == [used |-> TRUE, param |-> NoParam, nbrParam |-> 0, iocrs |-> <<>>, exp |-> <<>>,
          alarm |-> <<>>, nbrAlarm |-> 0, rpc |-> <<>>]
NoRequest == [blocks |-> <<>>, bytes |-> 0, args |-> 0]

Init ==
  /\ stage = "idle" /\ req = NoRequest /\ ix = 1 /\ pos = 0
  /\ ar = NoAr /\ mine = 0 /\ ars = [a \in 1 .. MaxAr |-> NoAr]
  /\ why = NoError /\ ret = 0 /\ connects = 0

-----------------------------------------------------------------------------
(* Lengths of blocks, in bytes.                                            *)

HeaderLength == 6
SizeOfSubs(subs) == FoldLeft(LAMBDA n, s : n + 8 + 6 * Len(s.desc), 0, subs)
\* What the reader takes from the request for the block's contents.
Size(b) ==
  CASE b.kind = "ar"    -> 52 + Min2(b.param.nameLen, 240)
    [] b.kind = "iocr"  -> 40 + FoldLeft(LAMBDA n, a : n + 8 + 6 * (Len(a.data) + Len(a.iocs)), 0, b.cr.apis)
    [] b.kind = "exp"   -> 2 + FoldLeft(LAMBDA n, e : n + 14 + SizeOfSubs(e.subs), 0, b.modules)
    [] b.kind = "alarm" -> 20
    [] b.kind = "rpc"   -> 2
    [] OTHER            -> 0

HeaderFits(b) == pos + b.len + 4 <= req.bytes
\* pf_check_block_header()
HeaderRight(b) == b.len = Size(b) + 2 /\ b.version

-----------------------------------------------------------------------------
(* The blocks.                                                             *)

Refuse(blame) ==
  /\ stage' = "answer" /\ ret' = -1 /\ why' = blame
  /\ UNCHANGED <<ar, pos, ix>>
Accept(changed) ==
  /\ ar' = changed
  /\ pos' = pos + HeaderLength + Size(req.blocks[ix]) /\ ix' = ix + 1
  /\ UNCHANGED <<stage, ret, why>>

ReadAr(b) ==
  IF ix # 1 \/ ~HeaderRight(b) THEN Refuse("AR")
  ELSE Accept([ar EXCEPT !.param = b.param, !.nbrParam = @ + 1])

\* pf_get_iocr_param() checks the IOCRs before this one: this one is not yet
\* counted.  The last is checked with all of the AR.
ReadIocr(b) ==
  CASE Len(ar.iocrs) >= MaxCr -> Refuse("CMRPC")
    [] Len(ar.iocrs) < MaxCr /\ IocrsFaulty(ar) -> Refuse("IOCR")
    [] Len(ar.iocrs) < MaxCr /\ ~IocrsFaulty(ar) /\
         (\/ Len(b.cr.apis) > MaxApi
          \/ AnyOf(b.cr.apis, LAMBDA a : Len(a.data) > MaxEntries \/ Len(a.iocs) > MaxEntries)) ->
         Refuse("CMRPC")
    [] OTHER -> IF ar.param.deviceAccess THEN Refuse("CMRPC")
                ELSE IF ~HeaderRight(b) THEN Refuse("IOCR")
                ELSE Accept([ar EXCEPT !.iocrs = Append(@, b.cr)])

\* pf_get_exp_api_module(): the modules of a block, each with its API.  The
\* API a module is filed under is the last that was found: that of another
\* module of the block, once there was one.
FileModule(f, e) ==
  LET known == SelectInSeq(f.exp, LAMBDA a : a.api = e.api)
      at == IF known # 0 THEN known ELSE f.at
      new == at = 0 /\ Len(f.exp) < MaxApi
      exp == IF new THEN Append(f.exp, [api |-> e.api, modules |-> <<>>]) ELSE f.exp
      to == IF new THEN Len(exp) ELSE at
      m == [slot |-> e.slot, ident |-> e.ident, subs |-> e.subs]
  IN IF \/ f.full \/ to = 0
        \/ Len(exp[to].modules) >= MaxSlots
        \/ Len(e.subs) > MaxSubslots
     THEN [f EXCEPT !.full = TRUE]
     ELSE [exp |-> [exp EXCEPT ![to] = [@ EXCEPT !.modules = Append(@, m)]],
           at |-> to, full |-> FALSE]

ReadExp(b) ==
  LET f == FoldLeft(FileModule, [exp |-> ar.exp, at |-> 0, full |-> FALSE], b.modules)
      cut == pos + HeaderLength + Size(b) > req.bytes
  IN CASE f.full \/ cut -> Refuse("CMRPC")
       [] ~f.full /\ ~cut /\ ar.param.deviceAccess -> Refuse("CMRPC")
       [] OTHER -> IF HeaderRight(b) THEN Accept([ar EXCEPT !.exp = f.exp])
                   ELSE Refuse("EXP")

ReadAlarm(b) ==
  IF ar.param.deviceAccess THEN Refuse("CMRPC")
  ELSE IF ~HeaderRight(b) THEN Refuse("ALARM")
  ELSE Accept([ar EXCEPT !.alarm = <<b.alarm>>, !.nbrAlarm = @ + 1])

ReadRpc(b) ==
  IF ar.param.deviceAccess THEN Refuse("CMRPC")
  ELSE IF ~HeaderRight(b) THEN Refuse("RPC")
  ELSE Accept([ar EXCEPT !.rpc = <<b.port>>])

MoreBlocks == pos + HeaderLength <= req.bytes /\ ix <= Len(req.blocks)
ReadBlock ==
  /\ stage = "read" /\ MoreBlocks
  /\ LET b == req.blocks[ix]
     IN \/ ~HeaderFits(b) /\ Refuse("CMRPC")
        \/ HeaderFits(b) /\ b.kind = "ar" /\ ReadAr(b)
        \/ HeaderFits(b) /\ b.kind = "iocr" /\ ReadIocr(b)
        \/ HeaderFits(b) /\ b.kind = "exp" /\ ReadExp(b)
        \/ HeaderFits(b) /\ b.kind = "alarm" /\ ReadAlarm(b)
        \/ HeaderFits(b) /\ b.kind = "rpc" /\ ReadRpc(b)
        \/ HeaderFits(b) /\ b.kind = "unknown" /\ Refuse("CMRPC")
  /\ UNCHANGED <<req, mine, ars, connects>>

\* All of the input has to be read, and as much as the NDR header says.
ReadEnd ==
  /\ stage = "read" /\ ~MoreBlocks
  /\ IF pos # req.bytes \/ pos # req.args THEN Refuse("CMRPC")
     ELSE stage' = "uuid" /\ UNCHANGED <<ar, pos, ix, ret, why>>
  /\ UNCHANGED <<req, mine, ars, connects>>

-----------------------------------------------------------------------------
(* The AR.                                                                 *)

\* pf_ar_allocate(): the last index is not an AREP, it only gives the answer.
FirstFree == IF \E a \in DOMAIN ars : ~ars[a].used
             THEN CHOOSE a \in DOMAIN ars : ~ars[a].used /\ \A b \in 1 .. a - 1 : ars[b].used
             ELSE MaxAr + 1

Connect(r) ==
  /\ stage = "idle" /\ connects < MaxConnects
  /\ connects' = connects + 1
  /\ stage' = "read" /\ req' = r /\ ix' = 1 /\ pos' = 0
  /\ mine' = FirstFree /\ ar' = NewAr
  /\ why' = NoError /\ ret' = 0
  /\ UNCHANGED ars

\* An AR of the same UUID: it is aborted, and the Connect is refused.
SameUuid(uuid) == {a \in DOMAIN ars : ars[a].used /\ ars[a].param.uuid = uuid}
FindUuid ==
  /\ stage = "uuid"
  /\ IF SameUuid(ar.param.uuid) # {}
     THEN /\ Refuse("CMDEV")
          /\ LET old == CHOOSE a \in SameUuid(ar.param.uuid) : \A b \in SameUuid(ar.param.uuid) : a <= b
             IN ars' = [ars EXCEPT ![old] = NoAr]
     ELSE /\ IF mine > MaxAr THEN Refuse("CMRPC")
             ELSE stage' = "param" /\ UNCHANGED <<ar, pos, ix, ret, why>>
          /\ UNCHANGED ars
  /\ UNCHANGED <<req, mine, connects>>

\* pf_cmdev_check_apdu(): one check after the other.
Check(at, next, faulty, blame) ==
  /\ stage = at
  /\ IF faulty THEN Refuse(blame)
     ELSE stage' = next /\ UNCHANGED <<ar, pos, ix, ret, why>>
  /\ UNCHANGED <<req, mine, ars, connects>>

\* Without an AR block there is nothing to check, and no error.
CheckParam ==
  \/ stage = "param" /\ ar.nbrParam = 0 /\ Check("param", "iocrs", TRUE, why)
  \/ stage = "param" /\ ar.nbrParam > 0 /\ Check("param", "iocrs", ArParamFaulty(ar.param), "AR")
CheckIocrs == Check("iocrs", "exp", IocrsFaulty(ar) \/ TooFast(ar), "IOCR")
CheckExp   == Check("exp", "setup", ExpFaulty(ar), "EXP")
SetUp ==
  /\ stage = "setup"
  /\ IF SetupFails(ar) THEN Refuse(why)
     ELSE /\ ar' = LET laidOut(i) == [ar.iocrs[i] EXCEPT !.objects = SetupDesc(ar, ar.iocrs[i])]
                   IN [ar EXCEPT !.iocrs = [i \in DOMAIN ar.iocrs |-> laidOut(i)]]
          /\ stage' = "layout" /\ UNCHANGED <<pos, ix, ret, why>>
  /\ UNCHANGED <<req, mine, ars, connects>>
CheckLayout == Check("layout", "counts", LayoutFaulty(ar), "IOCR")
CheckCounts == Check("counts", "alarm", CountFaulty(ar), "CMRPC")
CheckAlarm  == Check("alarm", "rpc", ar.nbrAlarm > 0 /\ AlarmFaulty(ar.param, ar.alarm[1]), "ALARM")
CheckRpc    == Check("rpc", "frames", ar.rpc # <<>> /\ RpcFaulty(ar.rpc[1]), "RPC")

\* pf_cmdev_fix_frame_id(): for each OUTPUT that asks for one, the first id of
\* its class that no IOCR of any AR has, this AR's own among them.
NoFrameId == 65535
StartOf(c) == CASE IsUdp(c) \/ c.rtClass = RtClass.RT1 -> 49152
                [] c.rtClass = RtClass.RT2 -> 32768
                [] c.rtClass = RtClass.RT3 -> 256
                [] OTHER -> 0   \* 0xffff is its own: the search goes on behind it
Taken(own) == {own[i].frameId : i \in DOMAIN own}
              \cup UNION {{ars[a].iocrs[i].frameId : i \in DOMAIN ars[a].iocrs} :
                            a \in {b \in DOMAIN ars : ars[b].used}}
FirstFreeId(own, start) ==
  CHOOSE id \in start .. start + Cardinality(Taken(own)) :
    id \notin Taken(own) /\ start .. id - 1 \subseteq Taken(own)
FixFrameIds(iocrs) ==
  LET fix(own, i) ==
        IF own[i].type = "OUTPUT" /\ own[i].frameId = NoFrameId
        THEN [own EXCEPT ![i].frameId = FirstFreeId(own, StartOf(own[i]))]
        ELSE own
  IN FoldLeft(fix, iocrs, [i \in DOMAIN iocrs |-> i])

\* pf_cmdev_rm_connect_ind(): the application may refuse, with its reason, and
\* what is started for the AR may fail.
Ask ==
  /\ stage = "frames"
  /\ ar' = [ar EXCEPT !.iocrs = FixFrameIds(ar.iocrs)]
  /\ stage' = "answer"
  /\ \/ ret' = 0 /\ UNCHANGED why
     \/ ret' = -1 /\ why' \in {"APPLICATION", "CMRPC"}
  /\ UNCHANGED <<req, ix, pos, mine, ars, connects>>

\* The response is sent; the AR is kept only if all went well.
Answer ==
  /\ stage = "answer"
  /\ stage' = "idle"
  /\ ars' = IF ret = 0 /\ why = NoError THEN [ars EXCEPT ![mine] = ar] ELSE ars
  /\ req' = NoRequest /\ ix' = 1 /\ pos' = 0 /\ ar' = NoAr /\ mine' = 0
  /\ UNCHANGED <<why, ret, connects>>

\* A Release of the controller, or an abort.
Release(a) ==
  /\ stage = "idle" /\ ars[a].used
  /\ ars' = [ars EXCEPT ![a] = NoAr]
  /\ UNCHANGED <<stage, req, ix, pos, ar, mine, why, ret, connects>>

Done == stage = "idle" /\ connects = MaxConnects /\ UNCHANGED vars

Next ==
  \/ \E r \in Requests : Connect(r)
  \/ ReadBlock \/ ReadEnd \/ FindUuid
  \/ CheckParam \/ CheckIocrs \/ CheckExp \/ SetUp
  \/ CheckLayout \/ CheckCounts \/ CheckAlarm \/ CheckRpc
  \/ Ask \/ Answer
  \/ \E a \in DOMAIN ars : Release(a)
  \/ Done

Spec == Init /\ [][Next]_vars

-----------------------------------------------------------------------------
(* Properties.                                                             *)

Accepted == stage = "answer" /\ ret = 0
BlocksOf(kind) == Entry(req.blocks, LAMBDA b : b.kind = kind)

\* What is accepted was read to the end and nothing of it was dropped: all
\* bytes that came and that the NDR header announced, each IOCR, and each
\* module of each block, although they are counted in different places.
AcceptedIsWhole ==
  Accepted =>
    /\ ix = Len(req.blocks) + 1 /\ pos = req.bytes /\ pos = req.args
    /\ Len(BlocksOf("ar")) = 1 /\ Len(BlocksOf("alarm")) = 1
    /\ Len(BlocksOf("iocr")) = Len(ar.iocrs)
    /\ LET asked == FlattenSeq([i \in DOMAIN BlocksOf("exp") |-> BlocksOf("exp")[i].modules])
           filed == FlattenSeq([a \in DOMAIN ar.exp |-> ar.exp[a].modules])
       IN [i \in DOMAIN asked |-> <<asked[i].slot, asked[i].subs>>]
            = [i \in DOMAIN filed |-> <<filed[i].slot, filed[i].subs>>]

\* In a frame of an accepted AR no byte belongs to two submodules, and no data
\* or status is outside of the C-SDU, so that the provider and the consumer
\* can write and read each of them by its own offset.
SubmodulesApart ==
  Accepted => \A i \in DOMAIN ar.iocrs :
    LET o == ar.iocrs[i].objects
        bytes(k) == UNION {a.from .. a.from + a.len - 1 : a \in Areas(o[k])}
    IN \A k \in DOMAIN o :
         /\ bytes(k) \subseteq 0 .. ar.iocrs[i].sdu - 1
         /\ \A l \in DOMAIN o \ {k} : bytes(k) \cap bytes(l) = {}

\* Each expected submodule has its place in some frame of an accepted AR, and
\* each place is that of one expected submodule, in the direction its data
\* have and with the length that was agreed on: the application's calls find
\* it and pass their check of the lengths.
EachCarried ==
  Accepted =>
    /\ \A a \in DOMAIN ar.exp : \A m \in DOMAIN ar.exp[a].modules :
         LET mod == ar.exp[a].modules[m]
         IN \A s \in DOMAIN mod.subs : \E i \in DOMAIN ar.iocrs :
              AnyOf(ar.iocrs[i].objects, LAMBDA o :
                SameSub(o, [api |-> ar.exp[a].api, slot |-> mod.slot, sub |-> mod.subs[s].sub]))
    /\ \A i \in DOMAIN ar.iocrs : LET o == ar.iocrs[i].objects IN
         \A k \in DOMAIN o :
           /\ \A l \in DOMAIN o \ {k} : ~SameSub(o[k], o[l])
           /\ ExpSub(ar.exp, o[k]) # <<>>
           /\ o[k].data.len > 0 =>
                \E d \in ToSet(ExpSub(ar.exp, o[k])[1].desc) :
                  d.len = o[k].data.len /\ d.dir = DirectionOf(ar.iocrs[i])

\* The frames that two controllers send have different ids when both let the
\* device choose, over any sequence of Connects and releases: the consumers
\* are found by this id.
FrameIdsDistinct ==
  \A a, b \in {x \in DOMAIN ars : ars[x].used} :
    \A i \in DOMAIN ars[a].iocrs, j \in DOMAIN ars[b].iocrs :
      /\ <<a, i>> # <<b, j>>
      /\ ars[a].iocrs[i].type = "OUTPUT" /\ ars[b].iocrs[j].type = "OUTPUT"
      => ars[a].iocrs[i].frameId # ars[b].iocrs[j].frameId

\* No two ARs have the same UUID, by which requests of any kind are given to
\* their AR, also when a controller connects again without a release.
OneArPerUuid ==
  \A a, b \in {x \in DOMAIN ars : ars[x].used} :
    a # b => ars[a].param.uuid # ars[b].param.uuid
=============================================================================
