----------------------------- MODULE MCMessages -----------------------------
(* The messages of the stack, each kind by itself: a Connect that is read    *)
(* and answered (ConnectRequest), a record or an answer that is put into a   *)
(* buffer (BlockWriter with the blocks of RecordBlocks), an LLDP frame that  *)
(* is built and read (LldpFrame), a name or an IP suite that is checked      *)
(* (Addresses), and the fragments of requests and answers (Rpc).  A          *)
(* behaviour is one of them.                                                 *)
EXTENDS MCConnect

VARIABLES
  room, todo, put, open, done, owed, cut,  \* of BlockWriter, whose pos is put
  from, frame, info, result,               \* of LldpFrame
  asked_name, asked_suite,                 \* of Addresses
  session, toDevice, toClient, client, executed  \* of Rpc

blocksVars == <<room, todo, put, open, done, owed, cut>>
lldpVars == <<from, frame, info, result>>
addressVars == <<asked_name, asked_suite>>
rpcVars == <<session, toDevice, toClient, client, executed>>
-----------------------------------------------------------------------------
(* LLDP frames.                                                              *)

Label(n) == CASE n = "" -> 0 [] n = "dut" -> 3 [] n = "mac bytes" -> 6 [] n = "port-001" -> 8
              [] n = "mac" -> 17 [] n = "l48" -> 48 [] n = "description" -> 80 [] n = "l63" -> 63
Labels == [n \in {"", "dut", "mac bytes", "port-001", "mac", "l48", "description", "l63"} |-> Label(n)]
\* Station names: none, one label, several, and one as long as a name may be.
Names == {<<>>, <<"dut">>, <<"dut", "dut">>, <<"l63", "l63", "l63", "l48">>}
MainDevices == [mode : {"LEGACY", "STANDARD"}, name : Names, port : {"port-001"}]

MacBytes == <<"mac bytes">>
T(kind, len, size, says) == [kind |-> kind, len |-> len, size |-> size, says |-> says]
IdOf(kind, text, len) == T(kind, len, len, [subtype |-> "LOCAL", text |-> text])
Long == <<"l63", "l63", "l63", "l63">>
LocalAddress == T("management", 12, 12, [len |-> 4, subtype |-> 1, oid |-> 0])
Ttl == T("ttl", 2, 2, 20)
End == T("end", 0, 0, 0)

\* A neighbour's elements: right ones, and those with one thing wrong.
Elements ==
  {IdOf("chassis", <<"dut">>, 4), IdOf("chassis", <<"dut">>, 0), IdOf("chassis", Long, 256),
   IdOf("port", <<"port-001", "dut">>, 13), IdOf("port", Long, 256), IdOf("port", <<"">>, 1),
   Ttl, T("ttl", 4, 4, 20), T("ttl", 2, 2, 3600),
   T("description", 4, 4, 0), T("description", 256, 256, 0),
   LocalAddress, T("management", 30, 30, [len |-> 16, subtype |-> 2, oid |-> 6]),
   T("management", 12, 12, [len |-> 0, subtype |-> 1, oid |-> 0]),
   T("management", 12, 12, [len |-> 9, subtype |-> 1, oid |-> 0]),
   T("delay", 24, 24, 0), T("status", 8, 8, 0), T("status", 9, 9, 0), T("mac", 10, 10, MacBytes),
   T("phy", 9, 9, 0), T("phy", 9, 4, 0), T("other", 7, 7, 0), T("other", 0, 0, 0)}
MainForeign == UNION {{<<a, b, End>>, <<a, b>>, <<a, b, Ttl, a, End>>} : a \in Elements, b \in Elements}
-----------------------------------------------------------------------------
Instances == INSTANCE MCBlocks
MainRecords == Instances!MainRecords
MainRooms == {0, 3, 64, 70, 81, 100, 117, 133, 150, 190, 400}

Block == INSTANCE BlockWriter WITH Records <- MainRecords, Rooms <- MainRooms, pos <- put
Lldp == INSTANCE LldpFrame WITH LabelLen <- Labels, Devices <- MainDevices, Foreign <- MainForeign
-----------------------------------------------------------------------------
(* Station names and IP suites: all short names, names as long as a label or *)
(* a name may be, names like a port's; addresses at the edges of the ranges. *)
UpTo(K, n) == UNION {[1 .. k -> K] : k \in 0 .. n}
OneIn(n, k, c, others) == [j \in 1 .. n |-> IF j = k THEN c ELSE others]
Every(n, k, c, others) == [j \in 1 .. n |-> IF j % k = 0 THEN c ELSE others]
Kinds == {"letter", "digit", "-", ".", "other"}

PortNames ==
  UpTo(Kinds, 3)
    \cup {OneIn(n, k, c, "digit") : n \in 8 .. 10, k \in 3 .. 5, c \in Kinds}
PlainNames ==
  UpTo(Kinds, 4)
    \cup {Every(n, k, ".", "letter") : n \in {63, 64, 240, 241}, k \in {64, 65, 100}}
    \cup {Every(n, k, ".", "digit") : n \in {7, 11, 15, 16, 19}, k \in 2 .. 5}
StationNames == [port : {TRUE}, rest : PortNames] \cup [port : {FALSE}, rest : PlainNames]

Ip(first, rest) == first * 16 + rest
Masks == {4096 - 2 ^ n : n \in 0 .. 12} \cup {Ip(255, 5), Ip(255, 7), Ip(0, 15), Ip(127, 0), 1}
Ips == {Ip(f, r) : f \in {0, 1, 126, 127, 128, 223, 224, 255}, r \in {0, 1, 7, 8, 15}}
IpSuites == UNION {{[ip |-> i, mask |-> m, gateway |-> g] : g \in {0, i, i - (i % 4), Ip(223, 1)}}
                     : i \in Ips, m \in Masks}

Checked == INSTANCE Addresses WITH
  Names <- StationNames, Suites <- IpSuites, MaxLabel <- 63, NameSize <- 241, RestBits <- 4
AName == [port |-> FALSE, rest |-> <<>>]
ASuite == [ip |-> 0, mask |-> 0, gateway |-> 0]
-----------------------------------------------------------------------------
(* RPC: a header of one unit and packets of four, so that answers of 4 and 7 *)
(* fill their packets.  One client makes three calls, or two clients, for     *)
(* whom there is one session, make one each.                                 *)
Calling(kind, parts, answer) ==
  [kind |-> kind, parts |-> parts, answer |-> answer, long |-> FALSE]
MainCalls ==
  {Calling("connect", 2, 3), Calling("record", 3, 3), Calling("record", 1, 9),
   Calling("implicit", 1, 4), Calling("release", 1, 3),
   [Calling("record", 1, 3) EXCEPT !.long = TRUE]}
Limit(calls, tries) == [calls |-> calls, tries |-> tries]

Rpc == INSTANCE Rpc WITH
  Acts <- {"c1", "c2"}, NoAct <- "nobody", Calls <- MainCalls, MaxSess <- 1, MaxPdu <- 4,
  Header <- 1, MaxParts <- 3, Resends <- 2, MaxWire <- 1,
  Bounds <- {("c1" :> Limit(3, 2)) @@ ("c2" :> Limit(0, 0)),
             ("c1" :> Limit(1, 0)) @@ ("c2" :> Limit(1, 0))}

ASSUME Sized == Rpc!RpcAssumption
-----------------------------------------------------------------------------
\* What is not the subject of a behaviour is at an end.
NoBlock == /\ room = 0 /\ todo = <<>> /\ put = 0 /\ open = <<>> /\ done = <<>> /\ owed = <<>>
           /\ cut = FALSE
NoFrame == from = {} /\ frame = <<>> /\ info = {} /\ result = "refused"
NoConnect == /\ stage = "idle" /\ req = NoRequest /\ ix = 1 /\ pos = 0
             /\ ar = NoAr /\ mine = 0 /\ ars = [a \in 1 .. MaxAr |-> NoAr]
             /\ why = NoError /\ ret = 0 /\ connects = MaxConnects
NoSet == asked_name = AName /\ asked_suite = ASuite
NoRpc == session = <<>> /\ toDevice = <<>> /\ toClient = <<>> /\ client = <<>> /\ executed = <<>>

MessagesInit ==
  \/ Init /\ NoBlock /\ NoFrame /\ NoSet /\ NoRpc
  \/ NoConnect /\ Block!Init /\ NoFrame /\ NoSet /\ NoRpc
  \/ NoConnect /\ NoBlock /\ Lldp!Init /\ NoSet /\ NoRpc
  \/ NoConnect /\ NoBlock /\ NoFrame /\ Checked!Init /\ NoRpc /\ (asked_name = AName \/ asked_suite = ASuite)
  \/ NoConnect /\ NoBlock /\ NoFrame /\ NoSet /\ Rpc!Init

\* A frame is read once, and a name checked.
FrameIsRead == result # "reading" /\ UNCHANGED <<lldpVars, addressVars>>

MessagesNext ==
  \/ /\ session = <<>>
     /\ \/ Next /\ UNCHANGED <<blocksVars, lldpVars, addressVars, rpcVars>>
        \/ Block!Next /\ UNCHANGED <<vars, lldpVars, addressVars, rpcVars>>
        \/ Lldp!Next /\ UNCHANGED <<vars, blocksVars, addressVars, rpcVars>>
        \/ FrameIsRead /\ UNCHANGED <<vars, blocksVars, rpcVars>>
  \/ /\ session # <<>>
     /\ Rpc!Next /\ UNCHANGED <<vars, blocksVars, lldpVars, addressVars>>

MessagesSpec ==
  MessagesInit /\ [][MessagesNext]_<<vars, blocksVars, lldpVars, addressVars, rpcVars>>
-----------------------------------------------------------------------------
(* Properties: those of the parts.                                           *)

\* Whatever the record and the room for it, the buffer is not overrun, whoever
\* goes from block to block by their lengths finds each block, the data of an
\* answer is its blocks, and a list that says it has n entries has n, although
\* lengths are put in last and numbers first (pf_block_writer.c).
BlocksSound ==
  session = <<>> =>
    /\ Block!WithinRoom /\ Block!WalkableByLength
    /\ Block!DataIsItsBlocks /\ Block!CountsTrue

\* What is agreed on in a Connect can be sent: the frames hold all of their
\* places, no two submodules share one, and each that is expected has its own;
\* and however Connects follow one another, no two ARs of a controller have the
\* same UUID and no two IOCRs receive the same frame id (the checks of
\* pf_cmdev.c, one block of the request after the other).
ConnectsSound ==
  session = <<>> =>
    AcceptedIsWhole /\ SubmodulesApart /\ EachCarried /\ FrameIdsDistinct /\ OneArPerUuid

\* What one device says in its LLDP frame is what another one understands, and
\* no honest neighbour's frame is read out of step (pf_lldp.c).
PeersUnderstood == session = <<>> => Lldp!PeersUnderstood

\* The names and IP suites that are accepted are those of the rules, but for
\* the exceptions that are named (pf_cmina.c:1529 and 1650).
AcceptedAsRuled == session = <<>> => Checked!NameAsRuled /\ Checked!SuiteAsRuled

\* What a handler is given is one request, all of its fragments in their order,
\* whatever was lost, sent again or pinged in between (pf_cmrpc.c:4306).
RequestWhole == session # <<>> => Rpc!RequestWhole

\* What a client puts together is an answer to what it asked, from the first
\* byte on and without a hole, and what is sent again is so for a session with
\* an AR, which the last resend aborts (pf_cmrpc.c:4816 and 1065).
ResponseWhole == session # <<>> => Rpc!ResponseWhole /\ Rpc!ResendHasAr

(* Not so (MCMessages_rpc.cfg).                                              *)
\* A client that acknowledges each fragment is sent all of its answer.
AnswersEnd == session # <<>> => Rpc!AnswersEnd

\* A session without an AR is free again once its client is done.
SessionsReturn == session # <<>> => Rpc!SessionsReturn

\* All fragments of an answer are from one execution of the request.
OneExecution == session # <<>> => Rpc!OneExecution
=============================================================================
