----------------------------- MODULE RpcProofs -----------------------------
(* Proofs about Rpc, for any clients, calls, sessions and sizes: what a      *)
(* handler is given is one whole request, and what is sent again belongs to  *)
(* an AR.                                                                    *)
EXTENDS Rpc, SequenceTheorems, WellFoundedInduction, TLAPS

(* The types of the state.                                                   *)
SpanSet == [seq : Nat, times : Nat, from : Int, to : Int, len : Int]
CallSet == [kind : Kinds \cup {"none"}, parts : Nat, answer : Nat, long : BOOLEAN]
PacketTypes ==
  {"none", "request", "response", "fack", "ping", "pong", "reject", "cancel"}
PacketSet ==
  [act : Acts \cup {NoAct}, type : PacketTypes, seq : Nat, frag : BOOLEAN, last : BOOLEAN,
   num : Nat, call : CallSet, span : SpanSet]
SessionSet ==
  [act : Acts \cup {NoAct}, ar : BOOLEAN, parts : Seq(Nat \X Nat), in_nbr : Nat,
   out_len : Int, sent_pos : Int, send_len : Int, out_nbr : Nat,
   packet : PacketSet, resends : Int, armed : BOOLEAN]
ClientSet ==
  [seq : Nat, phase : {"idle", "asking", "reading", "done"}, call : CallSet, part : Nat,
   got : Seq(SpanSet), nbr : Nat, tries : Nat]
ExecutedSet == [seq : Nat, parts : Seq(Nat \X Nat), times : Nat, call : CallSet]

TypeOK ==
  /\ session \in [1 .. MaxSess -> SessionSet]
  /\ toDevice \in Seq(PacketSet) /\ toClient \in Seq(PacketSet)
  /\ client \in [Acts -> ClientSet]
  /\ executed \in [Acts -> ExecutedSet]
-----------------------------------------------------------------------------
(* The inductive invariant.                                                  *)

\* The fragments in a session are of one request, from the first one on.
InOrder(parts) == \A i \in 1 .. Len(parts) : parts[i] = <<parts[1][1], i - 1>>

\* What a session would send next is part of an answer, for an AR; or there is
\* nothing that an acknowledgement could ask for.
Answering(s) ==
  \/ s.act \in Acts /\ s.packet.act = s.act /\ s.packet.type = "response" /\ s.ar
  \/ ~s.armed /\ s.sent_pos = 0 /\ s.out_nbr = 0 /\ s.send_len = s.out_len

SessionOK(s) ==
  /\ s \in SessionSet
  /\ s.in_nbr = Len(s.parts) /\ InOrder(s.parts) /\ Answering(s)

\* An activity has one session at most.
Unique ==
  \A k, j \in 1 .. MaxSess : session[k].act = session[j].act /\ session[k].act # NoAct => k = j

\* What a packet to the device may be, when its client is at t.
RequestOK(p, t) ==
  /\ p.act \in Acts /\ p.seq <= t.seq
  /\ p.type # "request" => ~p.frag
  /\ p.type = "request" =>
       /\ p.call \in Calls /\ p.num < p.call.parts
       /\ (p.frag <=> p.call.parts > 1) /\ (p.last <=> p.frag /\ p.num = p.call.parts - 1)
       /\ (p.seq = t.seq => p.call = t.call)

\* ... and one to the client: a fragment that is acknowledged has a next one.
AnswerOK(p, t) ==
  /\ p.act \in Acts
  /\ p.type = "fack" => p.seq <= t.seq /\ (p.seq = t.seq => p.num + 1 < t.call.parts)

ClientOK(t) ==
  /\ t.part > 0 => t.part < t.call.parts
  /\ t.phase = "asking" => t.call \in Calls

\* The packets of a client arrive in the order of its calls.
Ordered ==
  \A i, j \in 1 .. Len(toDevice) :
    i <= j /\ toDevice[i].act = toDevice[j].act => toDevice[i].seq <= toDevice[j].seq

\* The device has had the first fragment of call q.
Started(a, q) ==
  \/ \E i \in 1 .. Len(toDevice) :
       /\ toDevice[i].act = a /\ toDevice[i].type = "request"
       /\ toDevice[i].num > 0 /\ toDevice[i].seq = q
  \/ \E i \in 1 .. Len(toClient) :
       toClient[i].act = a /\ toClient[i].type = "fack" /\ toClient[i].seq = q
  \/ client[a].part > 0 /\ client[a].seq = q

\* Nothing older is on its way then, and no session has older fragments.
StartedOK ==
  \A a \in Acts : \A q \in Nat : Started(a, q) =>
    /\ \A i \in 1 .. Len(toDevice) : toDevice[i].act = a => q <= toDevice[i].seq
    /\ \A k \in 1 .. MaxSess :
         session[k].act = a /\ session[k].parts # <<>> => q <= session[k].parts[1][1]

\* The fragments in a session are of no later call than what is to come.
Earlier ==
  \A k \in 1 .. MaxSess : session[k].act # NoAct /\ session[k].parts # <<>> =>
    /\ session[k].parts[1][1] <= client[session[k].act].seq
    /\ \A i \in 1 .. Len(toDevice) :
         toDevice[i].act = session[k].act => session[k].parts[1][1] <= toDevice[i].seq

Inv ==
  /\ TypeOK
  /\ \A k \in 1 .. MaxSess : SessionOK(session[k])
  /\ Unique
  /\ \A i \in 1 .. Len(toDevice) : RequestOK(toDevice[i], client[toDevice[i].act])
  /\ \A i \in 1 .. Len(toClient) : AnswerOK(toClient[i], client[toClient[i].act])
  /\ \A a \in Acts : ClientOK(client[a])
  /\ Ordered /\ StartedOK /\ Earlier

IInv == Inv /\ RequestWhole
-----------------------------------------------------------------------------
(* Data.                                                                     *)

\* A set of slots that is not empty has a first one.
LEMMA First ==
  ASSUME NEW X \in SUBSET (1 .. MaxSess), X # {}
  PROVE  \E k \in X : \A j \in X : k <= j
<1>1. X \subseteq Nat  OBVIOUS
<1>2. PICK k \in X : \A j \in X : ~(<<j, k>> \in OpToRel(<, Nat))
  BY <1>1, NatLessThanWellFounded, WFMin, Zenon
<1>3. ASSUME NEW j \in X PROVE ~(j < k)
  <2>1. j \in Nat /\ k \in Nat  BY <1>1
  <2>2. ~(<<j, k>> \in OpToRel(<, Nat))  BY <1>2
  <2> QED  BY <2>1, <2>2, Zenon DEF OpToRel
<1>4. \A j \in X : k <= j
  BY <1>1, <1>3
<1> QED  BY <1>4

\* The sizes are numbers and the calls have a kind and a fragment.
LEMMA Sizes ==
  ASSUME RpcAssumption
  PROVE  /\ MaxSess \in Nat /\ MaxPdu \in Nat /\ Header \in Nat /\ MaxParts \in Nat
         /\ Resends \in Nat /\ MaxWire \in Nat /\ Short \in Nat /\ NoAct \notin Acts
         /\ Calls \subseteq CallSet /\ \A c \in Calls : c.parts > 0 /\ c.kind \in Kinds
BY DEF RpcAssumption, CallSet, Short

\* The fields of a fragment of a request.
LEMMA PartFields ==
  ASSUME NEW a \in Acts, NEW q \in Nat, NEW c \in CallSet, NEW n \in Nat
  PROVE  LET p == Part(a, q, c, n)
         IN  /\ p \in PacketSet
             /\ p.act = a /\ p.type = "request" /\ p.seq = q /\ p.call = c /\ p.num = n
             /\ (p.frag <=> c.parts > 1) /\ (p.last <=> p.frag /\ n = c.parts - 1)
<1> DEFINE k == Packet(a, "request", q)
           With(b, d) == [k EXCEPT !.frag = b, !.last = d, !.num = n, !.call = c]
           b0 == c.parts > 1
           d0 == c.parts > 1 /\ n = c.parts - 1
<1>1. k \in PacketSet /\ k.act = a /\ k.type = "request" /\ k.seq = q
  BY DEF Packet, PacketSet, PacketTypes, NoCall, NoSpan, CallSet, SpanSet
<1>2. \A b, d \in BOOLEAN :
        /\ With(b, d) \in PacketSet
        /\ With(b, d).act = a /\ With(b, d).type = "request" /\ With(b, d).seq = q
        /\ With(b, d).call = c /\ With(b, d).num = n
        /\ With(b, d).frag = b /\ With(b, d).last = d
  <2> HIDE DEF k
  <2> QED  BY <1>1 DEF PacketSet
<1>3. b0 \in BOOLEAN /\ d0 \in BOOLEAN  OBVIOUS
<1>4. Part(a, q, c, n) = With(b0, d0)  BY Zenon DEF Part
<1> HIDE DEF With, b0, d0
<1>5. LET p == With(b0, d0)
      IN  /\ p \in PacketSet
          /\ p.act = a /\ p.type = "request" /\ p.seq = q /\ p.call = c /\ p.num = n
          /\ (p.frag <=> b0) /\ (p.last <=> d0)
  BY <1>2, <1>3
<1>6. d0 <=> b0 /\ n = c.parts - 1  BY DEF b0, d0
<1> QED  BY <1>4, <1>5, <1>6, Zenon DEF b0

\* What is sent has its type, and a free session is sound.
LEMMA NoTypes ==
  ASSUME RpcAssumption
  PROVE  /\ NoSpan \in SpanSet /\ NoCall \in CallSet
         /\ \A a \in Acts \cup {NoAct}, t \in PacketTypes, q \in Nat :
              Packet(a, t, q) \in PacketSet
         /\ \A a \in Acts, q \in Nat, c \in CallSet, n \in Nat :
              Part(a, q, c, n) \in PacketSet
         /\ NoPacket \in PacketSet /\ Free \in SessionSet /\ SessionOK(Free)
<1>1. NoSpan \in SpanSet /\ NoCall \in CallSet
  BY DEF NoSpan, SpanSet, NoCall, CallSet
<1>2. \A a \in Acts \cup {NoAct}, t \in PacketTypes, q \in Nat : Packet(a, t, q) \in PacketSet
  BY <1>1 DEF Packet, PacketSet
<1>3. \A a \in Acts, q \in Nat, c \in CallSet, n \in Nat : Part(a, q, c, n) \in PacketSet
  <2> SUFFICES ASSUME NEW a \in Acts, NEW q \in Nat, NEW c \in CallSet, NEW n \in Nat
               PROVE  Part(a, q, c, n) \in PacketSet
    OBVIOUS
  <2> QED  BY <1>2, PartFields
<1>4. NoPacket \in PacketSet
  BY <1>2 DEF NoPacket, PacketTypes
<1>5. Free \in SessionSet
  BY <1>4 DEF Free, SessionSet
<1>6. SessionOK(Free)
  BY <1>5 DEF SessionOK, InOrder, Answering, Free
<1> QED  BY <1>1, <1>2, <1>3, <1>4, <1>5, <1>6

\* A sequence without its first element.
LEMMA Rest ==
  ASSUME NEW X, NEW s \in Seq(X), s # <<>>
  PROVE  /\ Head(s) \in X /\ Head(s) = s[1] /\ Tail(s) \in Seq(X)
         /\ Len(s) \in Nat /\ Len(s) > 0 /\ Len(Tail(s)) = Len(s) - 1
         /\ \A i \in 1 .. Len(Tail(s)) :
              i + 1 \in 1 .. Len(s) /\ Tail(s)[i] = s[i + 1] /\ Tail(s)[i] \in X
  OBVIOUS

\* A packet that is sent is at the end, or lost.
LEMMA SendsTo ==
  ASSUME NEW X, NEW wire \in Seq(X), NEW p \in X, NEW w \in Sends(wire, p)
  PROVE  /\ w \in Seq(X)
         /\ w = wire \/ w = Append(wire, p)
  BY DEF Sends
-----------------------------------------------------------------------------
(* What arrives at a session.                                                *)

\* The session of an activity, or a free one.
LEMMA AtIs ==
  ASSUME RpcAssumption, TypeOK, NEW a \in Acts, Known(a) \/ Of(NoAct) # {}
  PROVE  /\ At(a) \in 1 .. MaxSess
         /\ Known(a) => session[At(a)].act = a
         /\ ~Known(a) => session[At(a)].act = NoAct
<1> DEFINE X == IF Known(a) THEN Of(a) ELSE Of(NoAct)
<1>1. X \in SUBSET (1 .. MaxSess) /\ X # {}
  BY DEF Known, Of
<1>2. \E k \in X : \A j \in X : k <= j
  BY <1>1, First
<1>3. At(a) \in X
  BY <1>2 DEF At
<1> QED  BY <1>1, <1>3 DEF Known, Of

\* What a packet finds: a sound session of its activity, and no other has it.
LEMMA FoundIs ==
  ASSUME RpcAssumption, Inv, NEW a \in Acts, Known(a) \/ Of(NoAct) # {}
  PROVE  /\ SessionOK(Found(a)) /\ Found(a).act = a
         /\ At(a) \in 1 .. MaxSess
         /\ \A j \in 1 .. MaxSess : j # At(a) => session[j].act # a
         /\ Found(a).parts # <<>> =>
              session[At(a)].act = a /\ session[At(a)].parts = Found(a).parts
<1>1. /\ At(a) \in 1 .. MaxSess
      /\ Known(a) => session[At(a)].act = a
      /\ ~Known(a) => session[At(a)].act = NoAct
  BY AtIs DEF Inv
<1>2. a # NoAct  BY DEF RpcAssumption
<1>3. CASE Known(a)
  <2>1. Found(a) = session[At(a)]  BY <1>3 DEF Found
  <2>2. \A j \in 1 .. MaxSess : j # At(a) => session[j].act # a
    BY <1>1, <1>2, <1>3 DEF Inv, Unique
  <2> QED  BY <1>1, <1>3, <2>1, <2>2 DEF Inv
<1>4. CASE ~Known(a)
  <2>1. Found(a) = [Free EXCEPT !.act = a]  BY <1>4 DEF Found
  <2>2. Free \in SessionSet /\ SessionOK(Free)  BY NoTypes
  <2>3. SessionOK(Found(a)) /\ Found(a).act = a /\ Found(a).parts = <<>>
    BY <2>1, <2>2 DEF SessionOK, Answering, InOrder, Free, SessionSet, NoPacket, Packet
  <2>4. \A j \in 1 .. MaxSess : session[j].act # a
    BY <1>4 DEF Known, Of
  <2> QED  BY <1>1, <2>3, <2>4
<1> QED  BY <1>3, <1>4

\* A fragment in turn is appended.
LEMMA Appended ==
  ASSUME NEW parts \in Seq(Nat \X Nat), InOrder(parts), NEW q \in Nat,
         parts # <<>> => parts[1][1] = q
  PROVE  LET more == Append(parts, <<q, Len(parts)>>)
         IN  /\ more \in Seq(Nat \X Nat) /\ InOrder(more) /\ Len(more) = Len(parts) + 1
             /\ more # <<>> /\ more[1][1] = q
<1> DEFINE more == Append(parts, <<q, Len(parts)>>)
<1>1. <<q, Len(parts)>> \in Nat \X Nat  BY LenProperties
<1>2. /\ more \in Seq(Nat \X Nat) /\ Len(more) = Len(parts) + 1 /\ Len(parts) \in Nat
      /\ \A i \in 1 .. Len(parts) : more[i] = parts[i]
      /\ more[Len(parts) + 1] = <<q, Len(parts)>>
  BY <1>1, AppendProperties, LenProperties
<1> HIDE DEF more
<1>3. more # <<>>  BY <1>2
<1>4. more[1][1] = q
  <2>1. CASE parts = <<>>  BY <2>1, <1>2
  <2>2. CASE parts # <<>>
    <3>1. Len(parts) > 0  BY <2>2, LenProperties, EmptySeq
    <3> QED  BY <3>1, <2>2, <1>2
  <2> QED  BY <2>1, <2>2
<1>5. InOrder(more)
  <2> SUFFICES ASSUME NEW i \in 1 .. Len(more) PROVE more[i] = <<q, i - 1>>
    BY <1>4 DEF InOrder
  <2>1. CASE i = Len(parts) + 1  BY <2>1, <1>2
  <2>2. CASE i # Len(parts) + 1
    <3>1. i \in 1 .. Len(parts) /\ parts # <<>>  BY <2>2, <1>2
    <3> QED  BY <3>1, <1>2 DEF InOrder
  <2> QED  BY <2>1, <2>2
<1> QED  BY <1>2, <1>3, <1>4, <1>5 DEF more

\* The fragments of a session replaced.
Having(s, more, n) == [s EXCEPT !.parts = more, !.in_nbr = n]

\* ... is a session with all else as it was.
LEMMA WithParts ==
  ASSUME NEW s \in SessionSet, NEW more \in Seq(Nat \X Nat), NEW n \in Nat,
         NEW c, c = Having(s, more, n)
  PROVE  /\ c \in SessionSet /\ c.parts = more /\ c.in_nbr = n
         /\ c.act = s.act /\ c.packet = s.packet /\ c.ar = s.ar /\ c.armed = s.armed
         /\ c.sent_pos = s.sent_pos /\ c.out_nbr = s.out_nbr
         /\ c.send_len = s.send_len /\ c.out_len = s.out_len
  BY DEF Having, SessionSet

\* What a session has after packet p, which is not older than what it had.
LEMMA Collects ==
  ASSUME NEW s, SessionOK(s), NEW p \in PacketSet,
         s.parts # <<>> => /\ s.parts[1][1] <= p.seq
                           /\ p.frag /\ p.num > 0 => p.seq <= s.parts[1][1]
  PROVE  LET c == Collected(s, p)
         IN  /\ SessionOK(c) /\ c.act = s.act /\ ~c.armed
             /\ \/ c.parts = <<>>
                \/ c.parts[1][1] = p.seq
                \/ c.parts = s.parts /\ p.num > 0
             /\ p.frag /\ Awaited(s, p) =>
                  c.parts # <<>> /\ c.parts[1][1] = p.seq /\ Len(c.parts) = p.num + 1
<1> DEFINE g == Begun(s, p)
           b == [g EXCEPT !.armed = FALSE]
<1>1. s \in SessionSet /\ s.in_nbr = Len(s.parts) /\ InOrder(s.parts) /\ Answering(s)
  BY DEF SessionOK
<1>2. /\ g \in SessionSet /\ g.in_nbr = Len(g.parts) /\ InOrder(g.parts) /\ Answering(g)
      /\ g.act = s.act
      /\ \/ g.parts = <<>>
         \/ g = s /\ p.frag /\ p.num > 0
  <2>1. CASE p.frag /\ p.num > 0  BY <2>1, <1>1 DEF Begun
  <2>2. CASE ~(p.frag /\ p.num > 0)
    <3>1. g = [s EXCEPT !.parts = <<>>, !.in_nbr = 0]  BY <2>2 DEF Begun
    <3>2. <<>> \in Seq(Nat \X Nat) /\ Len(<<>>) = 0 /\ 0 \in Nat  OBVIOUS
    <3>3. /\ g \in SessionSet /\ g.parts = <<>> /\ g.in_nbr = 0
          /\ g.act = s.act /\ g.packet = s.packet /\ g.ar = s.ar /\ g.armed = s.armed
          /\ g.sent_pos = s.sent_pos /\ g.out_nbr = s.out_nbr
          /\ g.send_len = s.send_len /\ g.out_len = s.out_len
      <4> DEFINE none == <<>>
      <4>1. g = Having(s, none, 0)  BY <3>1 DEF Having
      <4>2. s \in SessionSet  BY <1>1
      <4>3. none \in Seq(Nat \X Nat) /\ 0 \in Nat  BY <3>2
      <4>4. none = <<>>  OBVIOUS
      <4> HIDE DEF g, b, none
      <4>5. /\ g \in SessionSet /\ g.parts = none /\ g.in_nbr = 0
            /\ g.act = s.act /\ g.packet = s.packet /\ g.ar = s.ar /\ g.armed = s.armed
            /\ g.sent_pos = s.sent_pos /\ g.out_nbr = s.out_nbr
            /\ g.send_len = s.send_len /\ g.out_len = s.out_len
        BY <4>1, <4>2, <4>3, WithParts
      <4> QED  BY <4>4, <4>5
    <3>4. InOrder(g.parts)  BY <3>2, <3>3 DEF InOrder
    <3>5. Answering(g)  BY <3>3, <1>1 DEF Answering
    <3> QED  BY <3>2, <3>3, <3>4, <3>5
  <2> QED  BY <2>1, <2>2
<1> HIDE DEF g
<1>3. /\ b \in SessionSet /\ b.in_nbr = g.in_nbr /\ b.parts = g.parts /\ Answering(b)
      /\ b.act = s.act /\ ~b.armed
  BY <1>2 DEF SessionSet, Answering
<1> HIDE DEF b
<1>4. Collected(s, p) =
        IF p.frag /\ Awaited(s, p)
          THEN [b EXCEPT !.parts = Append(b.parts, <<p.seq, p.num>>), !.in_nbr = b.in_nbr + 1]
          ELSE b
  BY DEF Collected, b, g
<1>5. CASE p.frag /\ Awaited(s, p)
  <2> DEFINE more == Append(g.parts, <<p.seq, Len(g.parts)>>)
  <2>1. p.num = Len(g.parts)  BY <1>5, <1>2 DEF Awaited, g
  <2>2. g.parts \in Seq(Nat \X Nat) /\ p.seq \in Nat  BY <1>2 DEF SessionSet, PacketSet
  <2>3. g.parts # <<>> => g.parts[1][1] = p.seq
    <3>1. ASSUME g.parts # <<>> PROVE g.parts[1][1] = p.seq
      <4>1. s.parts # <<>> /\ p.frag /\ p.num > 0 /\ g.parts = s.parts  BY <3>1, <1>2
      <4>2. 1 \in 1 .. Len(s.parts) /\ s.parts \in Seq(Nat \X Nat)
        BY <4>1, <2>2, LenProperties, EmptySeq
      <4>3. s.parts[1] \in Nat \X Nat  BY <4>2, ElementOfSeq
      <4> QED  BY <4>1, <4>3, <2>2
    <3> QED  BY <3>1
  <2>4. /\ more \in Seq(Nat \X Nat) /\ InOrder(more) /\ Len(more) = Len(g.parts) + 1
        /\ more # <<>> /\ more[1][1] = p.seq
    BY <2>2, <2>3, <1>2, Appended
  <2>5. Collected(s, p) = [b EXCEPT !.parts = more, !.in_nbr = Len(g.parts) + 1]
    BY <1>4, <1>5, <1>3, <1>2, <2>1
  <2> HIDE DEF more
  <2>6. Len(g.parts) \in Nat  BY <2>2, LenProperties
  <2> DEFINE c == Collected(s, p)
  <2>7. /\ c \in SessionSet /\ c.parts = more /\ c.in_nbr = Len(g.parts) + 1
        /\ c.act = b.act /\ c.packet = b.packet /\ c.ar = b.ar /\ c.armed = b.armed
        /\ c.sent_pos = b.sent_pos /\ c.out_nbr = b.out_nbr /\ c.send_len = b.send_len
        /\ c.out_len = b.out_len
    <3>1. Len(g.parts) + 1 \in Nat  BY <2>6
    <3>2. c = Having(b, more, Len(g.parts) + 1)  BY <2>5 DEF Having
    <3>3. b \in SessionSet /\ more \in Seq(Nat \X Nat)  BY <1>3, <2>4
    <3> HIDE DEF c
    <3> QED  BY <3>1, <3>2, <3>3, WithParts
  <2> HIDE DEF c
  <2>8. SessionOK(c)
    BY <2>4, <2>7, <1>3 DEF SessionOK, Answering
  <2> QED  BY <2>1, <2>4, <2>7, <2>8, <1>3 DEF c
<1>6. CASE ~(p.frag /\ Awaited(s, p))
  <2>1. Collected(s, p) = b  BY <1>4, <1>6
  <2> QED  BY <2>1, <1>2, <1>3, <1>6 DEF SessionOK
<1> QED  BY <1>5, <1>6

\* The device takes a packet from the wire and stores session s: the invariant
\* holds again if s has, if anything, the fragments of the packet's request or
\* those it had, and a fragment is acknowledged only to one who has a next one.
LEMMA Taken ==
  ASSUME RpcAssumption, Inv, Handled, NEW s, NEW kill \in BOOLEAN, NEW acks \in BOOLEAN,
         kill \/ (SessionOK(s) /\ s.act = Arrived.act),
         \/ kill
         \/ s.parts = <<>>
         \/ s.parts[1][1] = Arrived.seq
         \/ s.parts = Found(Arrived.act).parts /\ (acks => Arrived.num > 0),
         Store(At(Arrived.act), s, kill),
         client' = client, executed' \in [Acts -> ExecutedSet],
         \/ toClient' = toClient
         \/ \E r \in PacketSet :
              /\ toClient' = Append(toClient, r) /\ r.act = Arrived.act
              /\ r.type = "fack" =>
                   /\ acks /\ Arrived.frag /\ ~Arrived.last
                   /\ r.seq = Arrived.seq /\ r.num = Arrived.num
  PROVE  Inv'
<1> DEFINE p == Arrived
           K == At(p.act)
           F == Found(p.act)
           n == IF kill THEN Free ELSE s
<1>1. /\ toDevice \in Seq(PacketSet) /\ toClient \in Seq(PacketSet)
      /\ session \in [1 .. MaxSess -> SessionSet] /\ client \in [Acts -> ClientSet]
      /\ toDevice # <<>> /\ toDevice' = Tail(toDevice)
  BY DEF Inv, TypeOK, Handled, Arrives
<1>2. /\ p \in PacketSet /\ p = toDevice[1] /\ toDevice' \in Seq(PacketSet)
      /\ Len(toDevice) \in Nat /\ Len(toDevice) > 0 /\ Len(toDevice') = Len(toDevice) - 1
      /\ \A i \in 1 .. Len(toDevice') :
           /\ i + 1 \in 1 .. Len(toDevice) /\ toDevice'[i] = toDevice[i + 1]
           /\ toDevice'[i] \in PacketSet
  BY <1>1, Rest DEF Arrived
<1>3. RequestOK(p, client[p.act])
  BY <1>2 DEF Inv
<1>4. /\ p.act \in Acts /\ p.seq \in Nat /\ p.num \in Nat
      /\ p.frag \in BOOLEAN /\ p.last \in BOOLEAN
  BY <1>2, <1>3 DEF RequestOK, PacketSet
<1>5. /\ SessionOK(F) /\ F.act = p.act /\ K \in 1 .. MaxSess
      /\ \A j \in 1 .. MaxSess : j # K => session[j].act # p.act
      /\ F.parts # <<>> => session[K].act = p.act /\ session[K].parts = F.parts
  BY <1>4, FoundIs DEF Handled
<1>6. Free \in SessionSet /\ SessionOK(Free) /\ Free.act = NoAct /\ Free.parts = <<>>
  BY NoTypes DEF Free
<1>7. /\ n \in SessionSet /\ SessionOK(n) /\ n.act \in {p.act, NoAct}
      /\ n.act # NoAct => n.act = p.act
      /\ \/ n.parts = <<>>
         \/ n.act = p.act /\ n.parts[1][1] = p.seq
         \/ n.act = p.act /\ n.parts = F.parts /\ F.parts # <<>> /\ (acks => p.num > 0)
  BY <1>6 DEF SessionOK
<1>8. session' = [session EXCEPT ![K] = n]
  BY DEF Store
<1> HIDE DEF p, K, F, n
<1>9. /\ session' \in [1 .. MaxSess -> SessionSet] /\ session'[K] = n
      /\ \A j \in 1 .. MaxSess : j # K => session'[j] = session[j]
  BY <1>1, <1>5, <1>7, <1>8
<1>10. /\ toClient' \in Seq(PacketSet) /\ Len(toClient) \in Nat /\ Len(toClient') \in Nat
       /\ \A i \in 1 .. Len(toClient') :
            \/ i \in 1 .. Len(toClient) /\ toClient'[i] = toClient[i]
            \/ /\ toClient'[i].act = p.act
               /\ toClient'[i].type = "fack" =>
                    /\ acks /\ p.frag /\ ~p.last
                    /\ toClient'[i].seq = p.seq /\ toClient'[i].num = p.num
  <2>1. CASE toClient' = toClient  BY <2>1, <1>1, LenProperties
  <2>2. CASE toClient' # toClient
    <3>1. PICK r \in PacketSet :
            /\ toClient' = Append(toClient, r) /\ r.act = p.act
            /\ r.type = "fack" => acks /\ p.frag /\ ~p.last /\ r.seq = p.seq /\ r.num = p.num
      BY <2>2 DEF p
    <3>2. /\ toClient' \in Seq(PacketSet) /\ Len(toClient') = Len(toClient) + 1
          /\ Len(toClient) \in Nat
          /\ \A i \in 1 .. Len(toClient) : toClient'[i] = toClient[i]
          /\ toClient'[Len(toClient) + 1] = r
      BY <3>1, <1>1, AppendProperties, LenProperties
    <3> QED  BY <3>1, <3>2
  <2> QED  BY <2>1, <2>2
<1>11. TypeOK'
  BY <1>1, <1>2, <1>9, <1>10 DEF TypeOK
<1>12. \A k \in 1 .. MaxSess : SessionOK(session'[k])
  BY <1>7, <1>9 DEF Inv
<1>13. Unique'
  BY <1>5, <1>7, <1>9 DEF Inv, Unique
<1>14. \A i \in 1 .. Len(toDevice') : RequestOK(toDevice'[i], client'[toDevice'[i].act])
  BY <1>2 DEF Inv
<1>15. p.frag /\ ~p.last =>
         /\ p.num + 1 < p.call.parts
         /\ p.seq = client[p.act].seq => p.call = client[p.act].call
  <2>1. p.call \in CallSet  BY <1>2 DEF PacketSet
  <2> QED  BY <1>3, <1>4, <2>1 DEF RequestOK, CallSet
<1>16. \A i \in 1 .. Len(toClient') : AnswerOK(toClient'[i], client'[toClient'[i].act])
  <2> SUFFICES ASSUME NEW i \in 1 .. Len(toClient')
               PROVE  AnswerOK(toClient'[i], client[toClient'[i].act])
    OBVIOUS
  <2>1. CASE i \in 1 .. Len(toClient) /\ toClient'[i] = toClient[i]
    BY <2>1 DEF Inv
  <2>2. CASE ~(i \in 1 .. Len(toClient) /\ toClient'[i] = toClient[i])
    BY <2>2, <1>3, <1>4, <1>10, <1>15 DEF AnswerOK, RequestOK
  <2> QED  BY <2>1, <2>2
<1>17. Ordered'
  <2>1. Ordered  BY DEF Inv
  <2> SUFFICES ASSUME NEW i \in 1 .. Len(toDevice'), NEW j \in 1 .. Len(toDevice'),
                      i <= j, toDevice'[i].act = toDevice'[j].act
               PROVE  toDevice'[i].seq <= toDevice'[j].seq
    BY DEF Ordered
  <2>2. i + 1 <= j + 1 /\ i + 1 \in 1 .. Len(toDevice) /\ j + 1 \in 1 .. Len(toDevice)
        /\ toDevice'[i] = toDevice[i + 1] /\ toDevice'[j] = toDevice[j + 1]
    BY <1>2
  <2> QED  BY <2>1, <2>2 DEF Ordered
<1>18. \A i \in 1 .. Len(toDevice') : toDevice'[i].act = p.act => p.seq <= toDevice'[i].seq
  <2> SUFFICES ASSUME NEW i \in 1 .. Len(toDevice'), toDevice'[i].act = p.act
               PROVE  p.seq <= toDevice'[i].seq
    OBVIOUS
  <2>1. 1 \in 1 .. Len(toDevice) /\ i + 1 \in 1 .. Len(toDevice) /\ 1 <= i + 1
        /\ toDevice'[i] = toDevice[i + 1]
    BY <1>2
  <2> QED  BY <1>2, <2>1 DEF Ordered, Inv
<1>19. StartedOK'
  <2>1. \A a \in Acts, q \in Nat :
          Started(a, q)' =>
            Started(a, q) \/ (acks /\ a = p.act /\ q = p.seq /\ p.frag /\ ~p.last)
    <3> SUFFICES ASSUME NEW a \in Acts, NEW q \in Nat, Started(a, q)',
                        ~(acks /\ a = p.act /\ q = p.seq /\ p.frag /\ ~p.last)
                 PROVE  Started(a, q)
      OBVIOUS
    <3>1. CASE \E i \in 1 .. Len(toDevice') :
                 /\ toDevice'[i].act = a /\ toDevice'[i].type = "request"
                 /\ toDevice'[i].num > 0 /\ toDevice'[i].seq = q
      BY <3>1, <1>2 DEF Started
    <3>2. CASE \E i \in 1 .. Len(toClient') :
                 toClient'[i].act = a /\ toClient'[i].type = "fack" /\ toClient'[i].seq = q
      BY <3>2, <1>10 DEF Started
    <3>3. CASE client[a].part > 0 /\ client[a].seq = q
      BY <3>3 DEF Started
    <3> QED  BY <3>1, <3>2, <3>3 DEF Started
  <2> SUFFICES ASSUME NEW a \in Acts, NEW q \in Nat, Started(a, q)'
               PROVE  /\ \A i \in 1 .. Len(toDevice') :
                           toDevice'[i].act = a => q <= toDevice'[i].seq
                      /\ \A k \in 1 .. MaxSess :
                           session'[k].act = a /\ session'[k].parts # <<>>
                             => q <= session'[k].parts[1][1]
    BY DEF StartedOK
  <2>2. CASE Started(a, q)
    <3>1. /\ \A i \in 1 .. Len(toDevice) : toDevice[i].act = a => q <= toDevice[i].seq
          /\ \A k \in 1 .. MaxSess :
               session[k].act = a /\ session[k].parts # <<>> => q <= session[k].parts[1][1]
      BY <2>2 DEF Inv, StartedOK
    <3>2. \A i \in 1 .. Len(toDevice') : toDevice'[i].act = a => q <= toDevice'[i].seq
      BY <1>2, <3>1
    <3>3. a = p.act => q <= p.seq
      BY <1>2, <3>1
    <3>4. n.act = a /\ n.parts # <<>> => q <= n.parts[1][1]
      BY <1>5, <1>7, <3>1, <3>3 DEF RpcAssumption
    <3> QED  BY <1>9, <3>1, <3>2, <3>4
  <2>3. CASE acks /\ a = p.act /\ q = p.seq /\ p.frag /\ ~p.last
    <3>1. \A i \in 1 .. Len(toDevice') : toDevice'[i].act = a => q <= toDevice'[i].seq
      BY <2>3, <1>18
    <3>2. p.num > 0 => Started(a, q)
      <4>1. 1 \in 1 .. Len(toDevice) /\ p.type = "request"
        BY <2>3, <1>2, <1>3 DEF RequestOK
      <4> QED  BY <4>1, <2>3, <1>2 DEF Started
    <3>3. F.parts # <<>> /\ p.num > 0 => q <= F.parts[1][1]
      BY <3>2, <2>3, <1>5 DEF Inv, StartedOK
    <3>4. n.parts # <<>> => q <= n.parts[1][1]
      BY <3>3, <2>3, <1>4, <1>7
    <3> QED  BY <3>1, <3>4, <2>3, <1>5, <1>9
  <2> QED  BY <2>1, <2>2, <2>3
<1>20. Earlier'
  <2> SUFFICES ASSUME NEW k \in 1 .. MaxSess, session'[k].act # NoAct, session'[k].parts # <<>>
               PROVE  /\ session'[k].parts[1][1] <= client[session'[k].act].seq
                      /\ \A i \in 1 .. Len(toDevice') : toDevice'[i].act = session'[k].act
                           => session'[k].parts[1][1] <= toDevice'[i].seq
    BY DEF Earlier
  <2>1. \A j \in 1 .. MaxSess : session[j].act # NoAct /\ session[j].parts # <<>> =>
          /\ session[j].parts[1][1] <= client[session[j].act].seq
          /\ \A i \in 1 .. Len(toDevice') : toDevice'[i].act = session[j].act
               => session[j].parts[1][1] <= toDevice'[i].seq
    BY <1>2 DEF Inv, Earlier
  <2>2. CASE k # K  BY <2>1, <2>2, <1>9
  <2>3. CASE k = K
    <3>1. session'[k] = n /\ n.act = p.act /\ p.act # NoAct
      BY <2>3, <1>4, <1>7, <1>9 DEF RpcAssumption
    <3>2. CASE n.parts[1][1] = p.seq
      BY <3>1, <3>2, <1>3, <1>18 DEF RequestOK
    <3>3. CASE n.parts[1][1] # p.seq
      <4>1. session[K].act = p.act /\ session[K].parts = n.parts
        BY <3>1, <3>3, <1>5, <1>7
      <4> QED  BY <3>1, <4>1, <2>1, <1>5
    <3> QED  BY <3>2, <3>3
  <2> QED  BY <2>2, <2>3
<1> QED  BY <1>11, <1>12, <1>13, <1>14, <1>16, <1>17, <1>19, <1>20 DEF Inv

\* What the session has of it when packet p arrives.
LEMMA Comes ==
  ASSUME RpcAssumption, Inv, Handled
  PROVE  LET p == Arrived
             c == Collected(Found(p.act), p)
         IN  /\ p \in PacketSet /\ p.act \in Acts /\ RequestOK(p, client[p.act])
             /\ SessionOK(Found(p.act)) /\ Found(p.act).act = p.act
             /\ SessionOK(c) /\ c.act = p.act /\ ~c.armed
             /\ \/ c.parts = <<>>
                \/ c.parts[1][1] = p.seq
                \/ c.parts = Found(p.act).parts /\ p.num > 0
             /\ p.frag /\ Awaited(Found(p.act), p) =>
                  c.parts # <<>> /\ c.parts[1][1] = p.seq /\ Len(c.parts) = p.num + 1
<1> DEFINE p == Arrived
           F == Found(p.act)
<1>1. toDevice \in Seq(PacketSet) /\ toDevice # <<>>
  BY DEF Inv, TypeOK, Handled, Arrives
<1>2. p \in PacketSet /\ p = toDevice[1] /\ 1 \in 1 .. Len(toDevice)
  BY <1>1, Rest DEF Arrived
<1>3. RequestOK(p, client[p.act]) /\ p.act \in Acts
  BY <1>2 DEF Inv, RequestOK
<1>4. /\ SessionOK(F) /\ F.act = p.act /\ At(p.act) \in 1 .. MaxSess
      /\ F.parts # <<>> => session[At(p.act)].act = p.act /\ session[At(p.act)].parts = F.parts
  BY <1>3, FoundIs DEF Handled
<1>5. F.parts # <<>> =>
        F.parts[1][1] <= p.seq /\ (p.frag /\ p.num > 0 => p.seq <= F.parts[1][1])
  <2> SUFFICES ASSUME F.parts # <<>>
               PROVE  F.parts[1][1] <= p.seq /\ (p.frag /\ p.num > 0 => p.seq <= F.parts[1][1])
    OBVIOUS
  <2>1. p.act # NoAct  BY <1>3 DEF RpcAssumption
  <2>2. F.parts[1][1] <= p.seq
    BY <1>2, <1>4, <2>1 DEF Inv, Earlier
  <2>3. ASSUME p.frag, p.num > 0 PROVE p.seq <= F.parts[1][1]
    <3>1. p.type = "request" /\ p.seq \in Nat  BY <2>3, <1>2, <1>3 DEF RequestOK, PacketSet
    <3>2. Started(p.act, p.seq)  BY <2>3, <3>1, <1>2 DEF Started
    <3> QED  BY <3>1, <3>2, <1>3, <1>4 DEF Inv, StartedOK
  <2> QED  BY <2>2, <2>3
<1> HIDE DEF p, F
<1>6. LET c == Collected(F, p)
      IN  /\ SessionOK(c) /\ c.act = p.act /\ ~c.armed
          /\ \/ c.parts = <<>>
             \/ c.parts[1][1] = p.seq
             \/ c.parts = F.parts /\ p.num > 0
          /\ p.frag /\ Awaited(F, p) =>
               c.parts # <<>> /\ c.parts[1][1] = p.seq /\ Len(c.parts) = p.num + 1
  BY <1>2, <1>4, <1>5, Collects
<1> QED  BY <1>2, <1>3, <1>4, <1>6 DEF p, F

\* A session with nothing to send.
LEMMA SilentFields ==
  ASSUME NEW s \in SessionSet
  PROVE  LET q == Silent(s)
         IN  /\ q \in SessionSet /\ q.act = s.act /\ q.parts = s.parts /\ q.in_nbr = s.in_nbr
             /\ q.ar = s.ar /\ q.armed = s.armed /\ q.packet = s.packet
             /\ q.sent_pos = 0 /\ q.out_nbr = 0 /\ q.send_len = 0 /\ q.out_len = 0
<1> DEFINE q == Silent(s)
<1>1. q \in SessionSet
  <2> DEFINE With(i, j, k, n) ==
               [s EXCEPT !.out_len = i, !.sent_pos = j, !.send_len = k, !.out_nbr = n]
  <2>1. \A i, j, k \in Int, n \in Nat : With(i, j, k, n) \in SessionSet
    BY DEF SessionSet
  <2>2. q = With(0, 0, 0, 0)  BY DEF Silent
  <2> HIDE DEF With, q
  <2>3. 0 \in Int /\ 0 \in Nat  OBVIOUS
  <2> QED  BY <2>1, <2>2, <2>3
<1>2. /\ q.act = s.act /\ q.parts = s.parts /\ q.in_nbr = s.in_nbr
      /\ q.ar = s.ar /\ q.armed = s.armed /\ q.packet = s.packet
  BY DEF Silent, SessionSet
<1>3. q.sent_pos = 0 /\ q.out_nbr = 0 /\ q.send_len = 0 /\ q.out_len = 0
  BY DEF Silent, SessionSet
<1> QED  BY <1>1, <1>2, <1>3

\* ... is sound, and keeps its fragments and its AR.
LEMMA Quieted ==
  ASSUME NEW s, SessionOK(s), ~s.armed
  PROVE  LET q == Silent(s)
         IN  /\ SessionOK(q) /\ q.act = s.act /\ q.parts = s.parts /\ q.ar = s.ar /\ ~q.armed
             /\ q.sent_pos = 0 /\ q.out_nbr = 0
<1> DEFINE q == Silent(s)
<1>1. s \in SessionSet /\ s.in_nbr = Len(s.parts) /\ InOrder(s.parts) /\ Answering(s)
  BY DEF SessionOK
<1>2. /\ q \in SessionSet /\ q.act = s.act /\ q.parts = s.parts /\ q.in_nbr = s.in_nbr
      /\ q.ar = s.ar /\ q.armed = s.armed /\ q.packet = s.packet
      /\ q.sent_pos = 0 /\ q.out_nbr = 0 /\ q.send_len = 0 /\ q.out_len = 0
  BY <1>1, SilentFields
<1> HIDE DEF q
<1>3. SessionOK(q)  BY <1>1, <1>2 DEF SessionOK, Answering
<1> QED  BY <1>2, <1>3 DEF q

\* A fragment of an answer is sent for a session with an AR.
Awaiting(s, p, sent) == [s EXCEPT !.packet = p, !.resends = Resends - 1, !.armed = sent]

\* ... is sound.
LEMMA Sending ==
  ASSUME RpcAssumption, NEW s \in SessionSet, s.in_nbr = Len(s.parts), InOrder(s.parts),
         NEW p \in PacketSet, p.act = s.act, p.act \in Acts, p.type = "response", s.ar,
         NEW sent \in BOOLEAN
  PROVE  LET q == Awaiting(s, p, sent)
         IN  SessionOK(q) /\ q.act = s.act /\ q.parts = s.parts
<1>1. Resends - 1 \in Int  BY Sizes
<1> QED  BY <1>1 DEF Awaiting, SessionOK, SessionSet, Answering

\* One packet more is on the way, or it is lost.
LEMMA Replied ==
  ASSUME RpcAssumption, TypeOK, NEW r \in PacketSet, Reply(r)
  PROVE  toClient' = toClient \/ toClient' = Append(toClient, r)
BY SendsTo DEF Reply, TypeOK

\* A packet with bytes of an answer, and the first fragment of one.
Carrying(p, from, to) == [p EXCEPT !.span.from = from, !.span.to = to]
Beginning(p, from, to) == [p EXCEPT !.frag = TRUE, !.span.from = from, !.span.to = to]

\* ... are packets to the same client.
LEMMA Spanned ==
  ASSUME NEW p \in PacketSet, NEW from \in Int, NEW to \in Int
  PROVE  LET q == Carrying(p, from, to)
         IN  q \in PacketSet /\ q.act = p.act /\ q.type = p.type /\ q.seq = p.seq
  BY DEF Carrying, PacketSet, SpanSet

\* The same for the first fragment.
LEMMA SpannedFirst ==
  ASSUME NEW p \in PacketSet, NEW from \in Int, NEW to \in Int
  PROVE  LET q == Beginning(p, from, to)
         IN  q \in PacketSet /\ q.act = p.act /\ q.type = p.type /\ q.seq = p.seq
  BY DEF Beginning, PacketSet, SpanSet

-----------------------------------------------------------------------------
(* The steps of the device.                                                  *)

\* Sessions end or stay what they are, a packet may be ignored, and part of an
\* answer may be sent.
LEMMA Fewer ==
  ASSUME RpcAssumption, Inv,
         toDevice' = toDevice \/ (toDevice # <<>> /\ toDevice' = Tail(toDevice)),
         session' \in [1 .. MaxSess -> SessionSet],
         \A k \in 1 .. MaxSess :
           /\ SessionOK(session'[k])
           /\ \/ session'[k].act = NoAct
              \/ session'[k].act = session[k].act /\ session'[k].parts = session[k].parts,
         \/ toClient' = toClient
         \/ \E r \in PacketSet :
              toClient' = Append(toClient, r) /\ r.act \in Acts /\ r.type # "fack",
         client' = client, executed' = executed
  PROVE  Inv'
<1>1. /\ toDevice \in Seq(PacketSet) /\ toClient \in Seq(PacketSet)
      /\ session \in [1 .. MaxSess -> SessionSet] /\ client \in [Acts -> ClientSet]
      /\ executed \in [Acts -> ExecutedSet]
  BY DEF Inv, TypeOK
<1>2. /\ toDevice' \in Seq(PacketSet) /\ Len(toDevice) \in Nat /\ Len(toDevice') \in Nat
      /\ \E e \in {0, 1} : \A i \in 1 .. Len(toDevice') :
           i + e \in 1 .. Len(toDevice) /\ toDevice'[i] = toDevice[i + e]
  <2>1. CASE toDevice' = toDevice
    <3>1. \A i \in 1 .. Len(toDevice') :
            i + 0 \in 1 .. Len(toDevice) /\ toDevice'[i] = toDevice[i + 0]
      BY <2>1
    <3> QED  BY <2>1, <3>1, <1>1, LenProperties
  <2>2. CASE toDevice # <<>> /\ toDevice' = Tail(toDevice)
    <3>1. \A i \in 1 .. Len(toDevice') :
            i + 1 \in 1 .. Len(toDevice) /\ toDevice'[i] = toDevice[i + 1]
      BY <2>2, <1>1, Rest
    <3>2. toDevice' \in Seq(PacketSet)  BY <2>2, <1>1, Rest
    <3> QED  BY <3>1, <3>2, <1>1, LenProperties
  <2> QED  BY <2>1, <2>2
<1>3. PICK e \in {0, 1} : \A i \in 1 .. Len(toDevice') :
        i + e \in 1 .. Len(toDevice) /\ toDevice'[i] = toDevice[i + e]
  BY <1>2
<1>4. /\ toClient' \in Seq(PacketSet) /\ Len(toClient) \in Nat /\ Len(toClient') \in Nat
      /\ \A i \in 1 .. Len(toClient') :
           \/ i \in 1 .. Len(toClient) /\ toClient'[i] = toClient[i]
           \/ toClient'[i].act \in Acts /\ toClient'[i].type # "fack"
  <2>1. CASE toClient' = toClient  BY <2>1, <1>1, LenProperties
  <2>2. CASE toClient' # toClient
    <3>1. PICK r \in PacketSet :
            toClient' = Append(toClient, r) /\ r.act \in Acts /\ r.type # "fack"
      BY <2>2
    <3>2. /\ toClient' \in Seq(PacketSet) /\ Len(toClient') = Len(toClient) + 1
          /\ Len(toClient) \in Nat
          /\ \A i \in 1 .. Len(toClient) : toClient'[i] = toClient[i]
          /\ toClient'[Len(toClient) + 1] = r
      BY <3>1, <1>1, AppendProperties, LenProperties
    <3> QED  BY <3>1, <3>2
  <2> QED  BY <2>1, <2>2
<1>5. TypeOK'
  BY <1>1, <1>2, <1>4 DEF TypeOK
<1>6. \A k \in 1 .. MaxSess : SessionOK(session'[k])
  OBVIOUS
<1>7. Unique'
  BY DEF Inv, Unique
<1>8. \A i \in 1 .. Len(toDevice') : RequestOK(toDevice'[i], client'[toDevice'[i].act])
  BY <1>3 DEF Inv
<1>9. \A i \in 1 .. Len(toClient') : AnswerOK(toClient'[i], client'[toClient'[i].act])
  BY <1>4 DEF Inv, AnswerOK
<1>10. Ordered'
  <2> SUFFICES ASSUME NEW i \in 1 .. Len(toDevice'), NEW j \in 1 .. Len(toDevice'),
                      i <= j, toDevice'[i].act = toDevice'[j].act
               PROVE  toDevice'[i].seq <= toDevice'[j].seq
    BY DEF Ordered
  <2>1. i + e <= j + e /\ i + e \in 1 .. Len(toDevice) /\ j + e \in 1 .. Len(toDevice)
        /\ toDevice'[i] = toDevice[i + e] /\ toDevice'[j] = toDevice[j + e]
    BY <1>2, <1>3
  <2> QED  BY <2>1 DEF Inv, Ordered
<1>11. StartedOK'
  <2> SUFFICES ASSUME NEW a \in Acts, NEW q \in Nat, Started(a, q)'
               PROVE  /\ \A i \in 1 .. Len(toDevice') :
                           toDevice'[i].act = a => q <= toDevice'[i].seq
                      /\ \A k \in 1 .. MaxSess :
                           session'[k].act = a /\ session'[k].parts # <<>>
                             => q <= session'[k].parts[1][1]
    BY DEF StartedOK
  <2>1. Started(a, q)
    <3>1. CASE \E i \in 1 .. Len(toDevice') :
                 /\ toDevice'[i].act = a /\ toDevice'[i].type = "request"
                 /\ toDevice'[i].num > 0 /\ toDevice'[i].seq = q
      BY <3>1, <1>3 DEF Started
    <3>2. CASE \E i \in 1 .. Len(toClient') :
                 toClient'[i].act = a /\ toClient'[i].type = "fack" /\ toClient'[i].seq = q
      BY <3>2, <1>4 DEF Started
    <3>3. CASE client[a].part > 0 /\ client[a].seq = q
      BY <3>3 DEF Started
    <3> QED  BY <3>1, <3>2, <3>3 DEF Started
  <2>2. /\ \A i \in 1 .. Len(toDevice) : toDevice[i].act = a => q <= toDevice[i].seq
        /\ \A k \in 1 .. MaxSess :
             session[k].act = a /\ session[k].parts # <<>> => q <= session[k].parts[1][1]
    BY <2>1 DEF Inv, StartedOK
  <2>3. a # NoAct  BY DEF RpcAssumption
  <2> QED  BY <1>3, <2>2, <2>3
<1>12. Earlier'
  <2> SUFFICES ASSUME NEW k \in 1 .. MaxSess, session'[k].act # NoAct, session'[k].parts # <<>>
               PROVE  /\ session'[k].parts[1][1] <= client[session'[k].act].seq
                      /\ \A i \in 1 .. Len(toDevice') : toDevice'[i].act = session'[k].act
                           => session'[k].parts[1][1] <= toDevice'[i].seq
    BY DEF Earlier
  <2>1. session'[k].act = session[k].act /\ session'[k].parts = session[k].parts
    OBVIOUS
  <2> QED  BY <1>3, <2>1 DEF Inv, Earlier
<1> QED  BY <1>5, <1>6, <1>7, <1>8, <1>9, <1>10, <1>11, <1>12 DEF Inv

\* A packet is ignored when there is no session.
LEMMA Ignores ==
  ASSUME RpcAssumption, Inv, OutOfSessions
  PROVE  Inv'
<1>1. session \in [1 .. MaxSess -> SessionSet]  BY DEF Inv, TypeOK
<1>2. /\ toDevice # <<>> /\ toDevice' = Tail(toDevice) /\ session' = session
      /\ toClient' = toClient /\ client' = client /\ executed' = executed
  BY DEF OutOfSessions, Arrives
<1>3. \A k \in 1 .. MaxSess : SessionOK(session'[k])  BY <1>2 DEF Inv
<1> QED  BY <1>1, <1>2, <1>3, Fewer

\* A session ends at slot K.
LEMMA Frees ==
  ASSUME RpcAssumption, Inv, NEW K \in 1 .. MaxSess, session' = [session EXCEPT ![K] = Free],
         toDevice' = toDevice \/ (toDevice # <<>> /\ toDevice' = Tail(toDevice)),
         toClient' = toClient, client' = client, executed' = executed
  PROVE  Inv'
<1>1. session \in [1 .. MaxSess -> SessionSet]  BY DEF Inv, TypeOK
<1>2. Free \in SessionSet /\ SessionOK(Free) /\ Free.act = NoAct  BY NoTypes DEF Free
<1>3. /\ session' \in [1 .. MaxSess -> SessionSet] /\ session'[K] = Free
      /\ \A j \in 1 .. MaxSess : j # K => session'[j] = session[j]
  BY <1>1, <1>2
<1>4. \A k \in 1 .. MaxSess :
        /\ SessionOK(session'[k])
        /\ \/ session'[k].act = NoAct
           \/ session'[k].act = session[k].act /\ session'[k].parts = session[k].parts
  BY <1>2, <1>3 DEF Inv
<1> QED  BY <1>3, <1>4, Fewer

\* The AR of a session is aborted.
LEMMA Aborts ==
  ASSUME RpcAssumption, Inv, NEW k \in 1 .. MaxSess, Abort(k)
  PROVE  Inv'
BY Frees DEF Abort, Store

\* A fragment is sent again, or for the last time.
LEMMA ResendsOne ==
  ASSUME RpcAssumption, Inv, NEW k \in 1 .. MaxSess, Resend(k)
  PROVE  Inv'
<1> DEFINE s == session[k]
<1>1. CASE s.resends = 0 /\ Store(k, Free, TRUE) /\ UNCHANGED toClient
  BY <1>1, Frees DEF Resend, Store
<1>2. CASE \E sent \in BOOLEAN :
             /\ IF sent THEN Reply(s.packet) ELSE UNCHANGED toClient
             /\ Store(k, [s EXCEPT !.resends = @ - 1, !.armed = sent], FALSE)
  <2>1. PICK sent \in BOOLEAN :
             /\ IF sent THEN Reply(s.packet) ELSE UNCHANGED toClient
             /\ Store(k, [s EXCEPT !.resends = @ - 1, !.armed = sent], FALSE)
    BY <1>2
  <2> DEFINE q == [s EXCEPT !.resends = s.resends - 1, !.armed = sent]
  <2>2. /\ SessionOK(s) /\ s.armed /\ session \in [1 .. MaxSess -> SessionSet]
        /\ toDevice' = toDevice /\ client' = client /\ executed' = executed
    BY DEF Inv, TypeOK, Resend
  <2>3. /\ s \in SessionSet /\ s.in_nbr = Len(s.parts) /\ InOrder(s.parts)
        /\ s.act \in Acts /\ s.packet.act = s.act /\ s.packet.type = "response" /\ s.ar
    BY <2>2 DEF SessionOK, Answering
  <2>4. session' = [session EXCEPT ![k] = q]
    BY <2>1 DEF Store
  <2>5. /\ q \in SessionSet /\ q.act = s.act /\ q.parts = s.parts /\ q.in_nbr = s.in_nbr
        /\ q.packet = s.packet /\ q.ar = s.ar
    <3>1. s.resends - 1 \in Int  BY <2>3 DEF SessionSet
    <3> QED  BY <2>3, <3>1 DEF SessionSet
  <2> HIDE DEF q
  <2>6. SessionOK(q)  BY <2>3, <2>5 DEF SessionOK, Answering
  <2>7. /\ session' \in [1 .. MaxSess -> SessionSet] /\ session'[k] = q
        /\ \A j \in 1 .. MaxSess : j # k => session'[j] = session[j]
    BY <2>2, <2>4, <2>5
  <2>8. \A j \in 1 .. MaxSess :
          /\ SessionOK(session'[j])
          /\ session'[j].act = session[j].act /\ session'[j].parts = session[j].parts
    BY <2>5, <2>6, <2>7 DEF Inv
  <2>9. s.packet \in PacketSet  BY <2>3 DEF SessionSet
  <2> QED  BY <2>1, <2>2, <2>3, <2>7, <2>8, <2>9, Replied, Fewer DEF Inv
<1> QED  BY <1>1, <1>2 DEF Resend


\* A handler's answer is sent, all of it or its first fragment.
LEMMA Responds ==
  ASSUME RpcAssumption, Inv, Handled, NEW s, SessionOK(s), ~s.armed,
         s.sent_pos = 0, s.out_nbr = 0, s.act = Arrived.act,
         \/ s.parts = <<>>
         \/ s.parts[1][1] = Arrived.seq
         \/ s.parts = Found(Arrived.act).parts,
         NEW h \in [ar : BOOLEAN, kill : BOOLEAN, len : Int], h.kill \/ h.ar,
         NEW answer \in SpanSet,
         Respond(At(Arrived.act), s, Arrived, h, answer),
         client' = client, executed' \in [Acts -> ExecutedSet]
  PROVE  Inv'
<1> DEFINE p == Arrived
           head == [Packet(p.act, "response", p.seq) EXCEPT !.span = answer]
           With(ar, len) == [s EXCEPT !.ar = ar, !.out_len = len]
           t == With(h.ar, h.len)
<1>1. p \in PacketSet /\ p.act \in Acts /\ p.seq \in Nat
  BY Comes DEF PacketSet
<1>2. head \in PacketSet /\ head.act = p.act /\ head.type = "response"
  <2>1. "response" \in PacketTypes  BY DEF PacketTypes
  <2>2. Packet(p.act, "response", p.seq) \in PacketSet  BY <1>1, <2>1, NoTypes
  <2>3. /\ Packet(p.act, "response", p.seq).act = p.act
        /\ Packet(p.act, "response", p.seq).type = "response"
    BY DEF Packet
  <2> QED  BY <2>2, <2>3 DEF PacketSet
<1>3. s \in SessionSet /\ s.in_nbr = Len(s.parts) /\ InOrder(s.parts)
  BY DEF SessionOK
<1>4. \A ar \in BOOLEAN, len \in Int :
        /\ With(ar, len) \in SessionSet /\ With(ar, len).ar = ar /\ With(ar, len).out_len = len
        /\ With(ar, len).act = s.act /\ With(ar, len).parts = s.parts
        /\ With(ar, len).in_nbr = s.in_nbr /\ With(ar, len).armed = s.armed
        /\ With(ar, len).sent_pos = s.sent_pos /\ With(ar, len).out_nbr = s.out_nbr
        /\ With(ar, len).packet = s.packet
  BY <1>3 DEF SessionSet
<1>5. h.ar \in BOOLEAN /\ h.len \in Int /\ h.kill \in BOOLEAN  OBVIOUS
<1>6. CASE /\ Reply([head EXCEPT !.span.from = Header, !.span.to = h.len])
           /\ Store(At(p.act), [t EXCEPT !.send_len = h.len], h.kill)
  <2> DEFINE r == [head EXCEPT !.span.from = Header, !.span.to = h.len]
             q == [t EXCEPT !.send_len = h.len]
  <2>1. r \in PacketSet /\ r.act = p.act /\ r.type = "response"
    <3>1. Header \in Int /\ h.len \in Int  BY <1>5, Sizes
    <3>2. r = Carrying(head, Header, h.len)  BY Zenon DEF Carrying
    <3> HIDE DEF head, r
    <3> QED  BY <3>1, <3>2, <1>2, Spanned
  <2>2. /\ q \in SessionSet /\ q.act = s.act /\ q.parts = s.parts /\ q.in_nbr = s.in_nbr
        /\ ~q.armed /\ q.sent_pos = 0 /\ q.out_nbr = 0 /\ q.send_len = h.len /\ q.out_len = h.len
    <3>1. /\ t \in SessionSet /\ t.act = s.act /\ t.parts = s.parts /\ t.in_nbr = s.in_nbr
          /\ ~t.armed /\ t.sent_pos = 0 /\ t.out_nbr = 0 /\ t.out_len = h.len
      <4> HIDE DEF With
      <4> QED  BY <1>4, <1>5
    <3> HIDE DEF t
    <3> QED  BY <3>1, <1>5 DEF SessionSet
  <2>3. Reply(r) /\ Store(At(p.act), q, h.kill)  BY <1>6
  <2> HIDE DEF q, r
  <2>4. SessionOK(q)  BY <1>3, <2>2 DEF SessionOK, Answering
  <2>5. toClient' = toClient \/ toClient' = Append(toClient, r)
    BY <2>1, <2>3, Replied DEF Inv
  <2>6. \/ toClient' = toClient
        \/ \E x \in PacketSet :
             toClient' = Append(toClient, x) /\ x.act = p.act /\ x.type # "fack"
    BY <2>1, <2>5
  <2>7. \/ q.parts = <<>>
        \/ q.parts[1][1] = p.seq
        \/ q.parts = Found(p.act).parts
    BY <2>2
  <2> QED  BY <1>5, <2>2, <2>3, <2>4, <2>6, <2>7, Taken
<1>7. CASE SendWithTimeout(
             At(p.act), [t EXCEPT !.send_len = MaxPdu],
             [head EXCEPT !.frag = TRUE, !.span.from = Header, !.span.to = MaxPdu], h.kill)
  <2> DEFINE r == [head EXCEPT !.frag = TRUE, !.span.from = Header, !.span.to = MaxPdu]
             q == [t EXCEPT !.send_len = MaxPdu]
             z(sent) == Awaiting(q, r, sent)
  <2>1. r \in PacketSet /\ r.act = p.act /\ r.type = "response"
    <3>1. Header \in Int /\ MaxPdu \in Int  BY Sizes
    <3>2. r = Beginning(head, Header, MaxPdu)  BY Zenon DEF Beginning
    <3> HIDE DEF head, r
    <3> QED  BY <3>1, <3>2, <1>2, SpannedFirst
  <2>2. /\ q \in SessionSet /\ q.act = s.act /\ q.parts = s.parts /\ q.in_nbr = s.in_nbr
        /\ q.ar = h.ar
    <3>1. /\ t \in SessionSet /\ t.act = s.act /\ t.parts = s.parts /\ t.in_nbr = s.in_nbr
          /\ t.ar = h.ar
      <4> HIDE DEF With
      <4> QED  BY <1>4, <1>5
    <3>2. MaxPdu \in Int  BY Sizes
    <3> HIDE DEF t
    <3> QED  BY <3>1, <3>2 DEF SessionSet
  <2>3. PICK sent \in BOOLEAN :
          /\ IF sent THEN Reply(r) ELSE UNCHANGED toClient
          /\ Store(At(p.act), z(sent), h.kill)
    <3> HIDE DEF t, head
    <3> QED  BY <1>7 DEF SendWithTimeout, Awaiting
  <2> HIDE DEF q, r
  <2>4. h.kill \/ (SessionOK(z(sent)) /\ z(sent).act = p.act /\ z(sent).parts = s.parts)
    <3> SUFFICES ASSUME ~h.kill
                 PROVE  SessionOK(z(sent)) /\ z(sent).act = p.act /\ z(sent).parts = s.parts
      BY <1>5
    <3>1. q.ar  BY <2>2
    <3>2. q.act = p.act /\ r.act = q.act /\ r.act \in Acts  BY <1>1, <2>1, <2>2
    <3>3. q.in_nbr = Len(q.parts) /\ InOrder(q.parts)  BY <1>3, <2>2
    <3> QED  BY <2>1, <2>2, <3>1, <3>2, <3>3, Sending
  <2> HIDE DEF z
  <2>5. \/ toClient' = toClient
        \/ \E x \in PacketSet :
             toClient' = Append(toClient, x) /\ x.act = p.act /\ x.type # "fack"
    <3>1. toClient' = toClient \/ toClient' = Append(toClient, r)
      BY <2>1, <2>3, Replied DEF Inv
    <3> QED  BY <2>1, <3>1
  <2>6. \/ h.kill
        \/ z(sent).parts = <<>>
        \/ z(sent).parts[1][1] = p.seq
        \/ z(sent).parts = Found(p.act).parts
    BY <2>4
  <2> QED  BY <1>5, <2>3, <2>4, <2>5, <2>6, Taken
<1> QED  BY <1>6, <1>7 DEF Respond, FitsOne


\* A body that is too long is rejected.
LEMMA Rejects ==
  ASSUME RpcAssumption, Inv, TooLong
  PROVE  Inv'
<1> DEFINE p == Arrived
           F == Found(p.act)
           r == Packet(p.act, "reject", p.seq)
           q == [F EXCEPT !.armed = FALSE]
<1>1. Handled /\ Reply(r) /\ Store(At(p.act), q, ~Known(p.act))
      /\ client' = client /\ executed' = executed
  BY DEF TooLong
<1>2. p \in PacketSet /\ p.act \in Acts /\ p.seq \in Nat /\ SessionOK(F) /\ F.act = p.act
  BY <1>1, Comes DEF PacketSet
<1>3. r \in PacketSet /\ r.act = p.act /\ r.type = "reject"
  <2>1. "reject" \in PacketTypes  BY DEF PacketTypes
  <2> QED  BY <1>2, <2>1, NoTypes DEF Packet
<1>4. SessionOK(q) /\ q.act = p.act /\ q.parts = F.parts
  <2>1. F \in SessionSet /\ F.in_nbr = Len(F.parts) /\ InOrder(F.parts) /\ Answering(F)
    BY <1>2 DEF SessionOK
  <2>2. /\ q \in SessionSet /\ q.act = F.act /\ q.parts = F.parts /\ q.in_nbr = F.in_nbr
        /\ q.packet = F.packet /\ q.ar = F.ar /\ ~q.armed /\ q.sent_pos = F.sent_pos
        /\ q.out_nbr = F.out_nbr /\ q.send_len = F.send_len /\ q.out_len = F.out_len
    <3> HIDE DEF F
    <3> QED  BY <2>1 DEF SessionSet
  <2> HIDE DEF q, F
  <2> QED  BY <1>2, <2>1, <2>2 DEF SessionOK, Answering
<1>5. executed' \in [Acts -> ExecutedSet]  BY <1>1 DEF Inv, TypeOK
<1>6. toClient' = toClient \/ toClient' = Append(toClient, r)
  BY <1>1, <1>3, Replied DEF Inv
<1>7. \/ toClient' = toClient
      \/ \E x \in PacketSet :
           toClient' = Append(toClient, x) /\ x.act = p.act /\ x.type # "fack"
  <2> HIDE DEF r
  <2> QED  BY <1>3, <1>6
<1>8. (~Known(p.act)) \in BOOLEAN  OBVIOUS
<1> HIDE DEF q, r
<1> QED  BY <1>1, <1>4, <1>5, <1>7, <1>8, Taken

\* A fragment is taken or thrown away, and acknowledged.
LEMMA TakesFragment ==
  ASSUME RpcAssumption, Inv, Fragment
  PROVE  Inv'
<1> DEFINE p == Arrived
           k == Packet(p.act, "fack", p.seq)
           r == [k EXCEPT !.num = p.num]
           c == Collected(Found(p.act), p)
<1>1. Handled /\ Reply(r) /\ Store(At(p.act), c, FALSE) /\ p.frag /\ ~p.last
      /\ client' = client /\ executed' = executed
  BY DEF Fragment
<1>2. p \in PacketSet /\ p.act \in Acts /\ p.seq \in Nat /\ p.num \in Nat
  BY <1>1, Comes DEF PacketSet
<1>3. r \in PacketSet /\ r.act = p.act /\ r.type = "fack" /\ r.seq = p.seq /\ r.num = p.num
  <2>1. "fack" \in PacketTypes  BY DEF PacketTypes
  <2>2. k \in PacketSet /\ k.act = p.act /\ k.type = "fack" /\ k.seq = p.seq
    BY <1>2, <2>1, NoTypes DEF Packet
  <2> HIDE DEF k
  <2> QED  BY <1>2, <2>2 DEF PacketSet
<1>4. /\ SessionOK(c) /\ c.act = p.act
      /\ \/ c.parts = <<>>
         \/ c.parts[1][1] = p.seq
         \/ c.parts = Found(p.act).parts /\ p.num > 0
  BY <1>1, Comes
<1>5. executed' \in [Acts -> ExecutedSet]  BY <1>1 DEF Inv, TypeOK
<1>6. toClient' = toClient \/ toClient' = Append(toClient, r)
  BY <1>1, <1>3, Replied DEF Inv
<1>7. \/ toClient' = toClient
      \/ \E x \in PacketSet :
           /\ toClient' = Append(toClient, x) /\ x.act = p.act
           /\ x.seq = p.seq /\ x.num = p.num
  <2> HIDE DEF r
  <2> QED  BY <1>3, <1>6
<1> HIDE DEF c, r
<1> QED  BY <1>1, <1>4, <1>5, <1>7, Taken

\* A ping is answered.
LEMMA Pings ==
  ASSUME RpcAssumption, Inv, Ping
  PROVE  Inv'
<1> DEFINE p == Arrived
           r == Packet(p.act, "pong", p.seq)
           c == Collected(Found(p.act), p)
           q == Silent(c)
<1>1. Handled /\ Reply(r) /\ Store(At(p.act), q, ~Known(p.act))
      /\ client' = client /\ executed' = executed
  BY DEF Ping, Whole
<1>2. p \in PacketSet /\ p.act \in Acts /\ p.seq \in Nat
  BY <1>1, Comes DEF PacketSet
<1>3. r \in PacketSet /\ r.act = p.act /\ r.type = "pong"
  <2>1. "pong" \in PacketTypes  BY DEF PacketTypes
  <2> QED  BY <1>2, <2>1, NoTypes DEF Packet
<1>4. /\ SessionOK(c) /\ c.act = p.act /\ ~c.armed
      /\ c.parts = <<>> \/ c.parts[1][1] = p.seq \/ c.parts = Found(p.act).parts
  BY <1>1, Comes
<1>5. SessionOK(q) /\ q.act = p.act /\ q.parts = c.parts
  <2> HIDE DEF c
  <2> QED  BY <1>4, Quieted
<1>6. executed' \in [Acts -> ExecutedSet]  BY <1>1 DEF Inv, TypeOK
<1>7. toClient' = toClient \/ toClient' = Append(toClient, r)
  BY <1>1, <1>3, Replied DEF Inv
<1>8. \/ toClient' = toClient
      \/ \E x \in PacketSet :
           toClient' = Append(toClient, x) /\ x.act = p.act /\ x.type # "fack"
  <2> HIDE DEF r
  <2> QED  BY <1>3, <1>7
<1>9. (~Known(p.act)) \in BOOLEAN  OBVIOUS
<1> HIDE DEF c, q, r
<1> QED  BY <1>1, <1>4, <1>5, <1>6, <1>8, <1>9, Taken

\* A cancel ends the session.
LEMMA Cancels ==
  ASSUME RpcAssumption, Inv, Cancel
  PROVE  Inv'
<1>1. /\ Handled /\ Arrives /\ Store(At(Arrived.act), Free, TRUE)
      /\ toClient' = toClient /\ client' = client /\ executed' = executed
  BY DEF Cancel, Whole, Handled
<1>2. At(Arrived.act) \in 1 .. MaxSess
  BY <1>1, Comes, FoundIs DEF Handled
<1> QED  BY <1>1, <1>2, Frees DEF Store, Arrives

\* The fragment after p of an answer.
Following(p, q, n, last, from, to) ==
  [p EXCEPT !.seq = q, !.num = n, !.last = last, !.span.from = from, !.span.to = to]

\* ... is a packet of the same answer.
LEMMA Continued ==
  ASSUME NEW p \in PacketSet, NEW q \in Nat, NEW n \in Nat, NEW last \in BOOLEAN,
         NEW from \in Int, NEW to \in Int
  PROVE  LET r == Following(p, q, n, last, from, to)
         IN  r \in PacketSet /\ r.act = p.act /\ r.type = p.type
  BY DEF Following, PacketSet, SpanSet

\* An acknowledgement asks for more only if something was sent as a fragment.
LEMMA Acknowledges ==
  ASSUME RpcAssumption, Inv, FragAck
  PROVE  Inv'
<1> DEFINE p == Arrived
           c == Collected(Found(p.act), p)
           s == Acknowledged(c)
           rest == s.out_len - s.sent_pos
           size == IF RestFits(rest) THEN rest ELSE MaxPdu - Header
           next == [s.packet EXCEPT !.seq = p.seq, !.num = s.out_nbr, !.last = RestFits(rest),
                                    !.span.from = s.sent_pos, !.span.to = s.sent_pos + size]
<1>1. Handled /\ p.type = "fack" /\ client' = client /\ executed' = executed
  BY DEF FragAck, Whole
<1>2. /\ p \in PacketSet /\ p.act \in Acts /\ p.seq \in Nat
      /\ SessionOK(c) /\ c.act = p.act /\ ~c.armed
      /\ c.parts = <<>> \/ c.parts[1][1] = p.seq \/ c.parts = Found(p.act).parts
  BY <1>1, Comes DEF PacketSet
<1>3. executed' \in [Acts -> ExecutedSet]  BY <1>1 DEF Inv, TypeOK
<1>4. /\ c \in SessionSet /\ c.in_nbr = Len(c.parts) /\ InOrder(c.parts) /\ Answering(c)
      /\ c.sent_pos \in Int /\ c.send_len \in Int /\ c.out_nbr \in Nat /\ c.out_len \in Int
      /\ c.packet \in PacketSet
  BY <1>2 DEF SessionOK, SessionSet
<1> HIDE DEF c
<1> DEFINE pos == c.sent_pos + c.send_len - (IF c.out_nbr > 0 THEN Header ELSE 0)
           nbr == c.out_nbr + 1
<1>5. Header \in Nat /\ MaxPdu \in Nat  BY Sizes
<1>6. pos \in Int /\ nbr \in Nat  BY <1>4, <1>5
<1>7. s = [c EXCEPT !.sent_pos = pos, !.out_nbr = nbr]
  BY DEF Acknowledged
<1> HIDE DEF pos, nbr
<1>8. /\ s \in SessionSet /\ s.act = c.act /\ s.parts = c.parts /\ s.in_nbr = c.in_nbr
      /\ s.packet = c.packet /\ s.ar = c.ar /\ s.armed = c.armed /\ s.send_len = c.send_len
      /\ s.out_len = c.out_len /\ s.sent_pos = pos /\ s.out_nbr = nbr
  <2> HIDE DEF s
  <2> QED  BY <1>4, <1>6, <1>7 DEF SessionSet
<1> HIDE DEF s
<1>9. rest > 0 => c.act \in Acts /\ c.packet.act = c.act /\ c.packet.type = "response" /\ c.ar
  BY <1>2, <1>4, <1>8 DEF Answering, pos
<1>10. rest \in Int /\ size \in Int
  BY <1>4, <1>5, <1>6, <1>8 DEF RestFits
<1>11. CASE rest > 0 /\ SendWithTimeout(At(p.act), [s EXCEPT !.send_len = size + Header],
                                        next, FALSE)
  <2> DEFINE t == [s EXCEPT !.send_len = size + Header]
             z(sent) == Awaiting(t, next, sent)
  <2>1. next \in PacketSet /\ next.act = p.act /\ next.type = "response"
    <3>1. s.packet \in PacketSet /\ s.packet.act = p.act /\ s.packet.type = "response"
      BY <1>2, <1>4, <1>8, <1>9, <1>11
    <3>2. s.sent_pos \in Int  BY <1>6, <1>8
    <3>3. RestFits(rest) \in BOOLEAN  BY DEF RestFits
    <3>4. s.out_nbr \in Nat /\ s.sent_pos + size \in Int  BY <1>6, <1>8, <1>10
    <3>5. next = Following(s.packet, p.seq, s.out_nbr, RestFits(rest), s.sent_pos,
                           s.sent_pos + size)
      BY Zenon DEF Following
    <3> HIDE DEF rest, size, next
    <3> QED  BY <1>2, <3>1, <3>2, <3>3, <3>4, <3>5, Continued
  <2> HIDE DEF next
  <2>2. /\ t \in SessionSet /\ t.act = s.act /\ t.parts = s.parts /\ t.in_nbr = s.in_nbr
        /\ t.ar = s.ar
    <3>1. size + Header \in Int  BY <1>5, <1>10
    <3> HIDE DEF size
    <3> QED  BY <3>1, <1>8 DEF SessionSet
  <2>3. PICK sent \in BOOLEAN :
          /\ IF sent THEN Reply(next) ELSE UNCHANGED toClient
          /\ Store(At(p.act), z(sent), FALSE)
    BY <1>11 DEF SendWithTimeout, Awaiting
  <2> HIDE DEF t
  <2>4. SessionOK(z(sent)) /\ z(sent).act = p.act /\ z(sent).parts = s.parts
    <3>1. t.ar /\ t.act = p.act /\ next.act = t.act /\ next.act \in Acts
      BY <1>2, <1>8, <1>9, <1>11, <2>1, <2>2
    <3>2. t.in_nbr = Len(t.parts) /\ InOrder(t.parts)  BY <1>4, <1>8, <2>2
    <3> QED  BY <2>1, <2>2, <3>1, <3>2, Sending
  <2> HIDE DEF z
  <2>5. \/ toClient' = toClient
        \/ \E x \in PacketSet :
             toClient' = Append(toClient, x) /\ x.act = p.act /\ x.type # "fack"
    <3>1. toClient' = toClient \/ toClient' = Append(toClient, next)
      BY <2>1, <2>3, Replied DEF Inv
    <3> QED  BY <2>1, <3>1
  <2>6. \/ z(sent).parts = <<>>
        \/ z(sent).parts[1][1] = p.seq
        \/ z(sent).parts = Found(p.act).parts
    BY <1>2, <1>8, <2>4
  <2> QED  BY <1>1, <1>3, <2>3, <2>4, <2>5, <2>6, Taken
<1>12. CASE Store(At(p.act), Silent(s), FALSE) /\ UNCHANGED toClient
  <2> DEFINE q == Silent(s)
  <2>1. /\ q \in SessionSet /\ q.act = s.act /\ q.parts = s.parts /\ q.in_nbr = s.in_nbr
        /\ q.armed = s.armed /\ q.sent_pos = 0 /\ q.out_nbr = 0 /\ q.send_len = 0
        /\ q.out_len = 0
    BY <1>8, SilentFields
  <2> HIDE DEF q
  <2>2. SessionOK(q) /\ q.act = p.act /\ q.parts = c.parts
    BY <1>2, <1>4, <1>8, <2>1 DEF SessionOK, Answering
  <2>3. Store(At(p.act), q, FALSE) /\ toClient' = toClient  BY <1>12 DEF q
  <2> QED  BY <1>1, <1>2, <1>3, <2>2, <2>3, Taken
<1> QED  BY <1>11, <1>12 DEF FragAck, c, s


\* What a handler was given is a whole request.
WholeOne(x) == x.times > 0 => x.parts = [n \in 1 .. x.call.parts |-> <<x.seq, n - 1>>]

\* A sequence whose elements are the fragments 0, 1, ... of q.
LEMMA AllParts ==
  ASSUME NEW parts \in Seq(Nat \X Nat), NEW m \in Nat, Len(parts) = m, NEW q \in Nat,
         \A i \in 1 .. m : parts[i] = <<q, i - 1>>
  PROVE  parts = [n \in 1 .. m |-> <<q, n - 1>>]
<1>1. parts = [n \in 1 .. m |-> parts[n]]
  BY LenProperties
<1>2. \A n \in 1 .. m : parts[n] = <<q, n - 1>>  OBVIOUS
<1>3. [n \in 1 .. m |-> parts[n]] = [n \in 1 .. m |-> <<q, n - 1>>]
  BY <1>2, Zenon
<1> QED  BY <1>1, <1>3, Zenon

\* Which bytes of an answer a packet carries.
LEMMA AnswerSpan ==
  ASSUME RpcAssumption, NEW q \in Nat, NEW m \in Nat, NEW len \in Int
  PROVE  /\ [NoSpan EXCEPT !.seq = q, !.times = m, !.len = len] \in SpanSet
         /\ [NoSpan EXCEPT !.seq = q, !.len = len] \in SpanSet
<1>1. NoSpan \in SpanSet  BY NoTypes
<1> QED  BY <1>1 DEF SpanSet

\* A request is given to its handler, whole, or refused.
LEMMA Requests ==
  ASSUME RpcAssumption, IInv, Request
  PROVE  IInv'
<1> DEFINE p == Arrived
           F == Found(p.act)
           c == Collected(F, p)
           s == Silent(c)
           right == Awaited(F, p)
           x == executed[p.act]
           again == IF x.seq = p.seq THEN x.times + 1 ELSE 1
           given == IF p.frag THEN s.parts ELSE << <<p.seq, p.num>> >>
           e == [seq |-> p.seq, times |-> again, call |-> p.call, parts |-> given]
<1>1. Inv /\ RequestWhole  BY DEF IInv
<1>2. /\ Handled /\ p.type = "request" /\ (~p.frag \/ p.last) /\ client' = client
      /\ \/ /\ right
            /\ executed' = [executed EXCEPT ![p.act] = e]
            /\ \E h \in Served(s, p.call) :
                 Respond(At(p.act), s, p, h,
                   [NoSpan EXCEPT !.seq = p.seq, !.times = again, !.len = h.len])
         \/ /\ ~right
            /\ \E h \in Refused(s, p.call) :
                 Respond(At(p.act), s, p, h, [NoSpan EXCEPT !.seq = p.seq, !.len = h.len])
            /\ executed' = executed
         \/ /\ ~right
            /\ Store(At(p.act), s, FALSE)
            /\ toClient' = toClient /\ executed' = executed
  BY DEF Request, Whole
<1>3. /\ p \in PacketSet /\ p.act \in Acts /\ RequestOK(p, client[p.act])
      /\ SessionOK(c) /\ c.act = p.act /\ ~c.armed
      /\ c.parts = <<>> \/ c.parts[1][1] = p.seq \/ c.parts = F.parts
      /\ p.frag /\ right => c.parts # <<>> /\ c.parts[1][1] = p.seq /\ Len(c.parts) = p.num + 1
  BY <1>1, <1>2, Comes
<1>4. /\ p.seq \in Nat /\ p.num \in Nat /\ p.frag \in BOOLEAN /\ p.call \in CallSet
      /\ p.call \in Calls /\ p.num < p.call.parts /\ (p.frag <=> p.call.parts > 1)
      /\ (p.last <=> p.frag /\ p.num = p.call.parts - 1)
  BY <1>2, <1>3 DEF PacketSet, RequestOK
<1>5. /\ executed \in [Acts -> ExecutedSet] /\ x \in ExecutedSet
      /\ x.seq \in Nat /\ x.times \in Nat
  BY <1>1, <1>3 DEF Inv, TypeOK, ExecutedSet
<1>6. again \in Nat /\ again > 0  BY <1>5
<1>7. p.call.parts \in Nat /\ p.call.answer \in Nat /\ p.call.kind \in Kinds
  BY <1>4, Sizes DEF CallSet
<1> HIDE DEF c, right
<1>8. /\ SessionOK(s) /\ s.act = p.act /\ s.parts = c.parts /\ s.ar = c.ar /\ ~s.armed
      /\ s.sent_pos = 0 /\ s.out_nbr = 0
  BY <1>3, Quieted
<1>9. s.ar \in BOOLEAN  BY <1>8 DEF SessionOK, SessionSet
<1> HIDE DEF s
<1>10. right => /\ given \in Seq(Nat \X Nat)
                /\ given = [n \in 1 .. p.call.parts |-> <<p.seq, n - 1>>]
  <2> SUFFICES ASSUME right
               PROVE  /\ given \in Seq(Nat \X Nat)
                      /\ given = [n \in 1 .. p.call.parts |-> <<p.seq, n - 1>>]
    OBVIOUS
  <2>1. CASE p.frag
    <3>1. given = c.parts /\ c.parts \in Seq(Nat \X Nat) /\ InOrder(c.parts)
      BY <2>1, <1>3, <1>8 DEF SessionOK, SessionSet
    <3>2. Len(c.parts) = p.call.parts /\ c.parts[1][1] = p.seq
      <4>1. p.last  BY <2>1, <1>2
      <4>2. p.num = p.call.parts - 1  BY <4>1, <1>4
      <4>3. c.parts[1][1] = p.seq /\ Len(c.parts) = p.num + 1  BY <2>1, <1>3
      <4> QED  BY <4>2, <4>3, <1>4, <1>7
    <3>3. \A i \in 1 .. p.call.parts : c.parts[i] = <<p.seq, i - 1>>
      BY <3>1, <3>2 DEF InOrder
    <3> QED  BY <3>1, <3>2, <3>3, <1>4, <1>7, AllParts
  <2>2. CASE ~p.frag
    <3>1. p.num = 0 /\ p.call.parts = 1  BY <2>2, <1>4, <1>7
    <3>2. given = << <<p.seq, 0>> >>  BY <2>2, <3>1
    <3>3. <<p.seq, 0>> \in Nat \X Nat  BY <1>4
    <3>4. given \in Seq(Nat \X Nat) /\ Len(given) = 1 /\ given[1] = <<p.seq, 0>>
      BY <3>2, <3>3
    <3>5. \A i \in 1 .. p.call.parts : given[i] = <<p.seq, i - 1>>
      BY <3>1, <3>4
    <3> HIDE DEF given
    <3> QED  BY <3>1, <3>4, <3>5, <1>4, <1>7, AllParts
  <2> QED  BY <2>1, <2>2, <1>4
<1> HIDE DEF again, given
<1>11. right => e \in ExecutedSet /\ WholeOne(e)
  BY <1>4, <1>6, <1>10 DEF ExecutedSet, WholeOne
<1>12. \A a \in Acts : WholeOne(executed[a])
  BY <1>1 DEF RequestWhole, WholeOne
<1> DEFINE Answers == [ar : BOOLEAN, kill : BOOLEAN, len : Int]
<1>13. Short \in Int  BY Sizes
<1>14. \A h \in Served(s, p.call) : h \in Answers /\ (h.kill \/ h.ar)
  <2> DEFINE fails == [ar |-> FALSE, kill |-> TRUE, len |-> Short]
             With(ar, kill) == [ar |-> ar, kill |-> kill, len |-> p.call.answer]
  <2>1. fails \in Answers /\ fails.kill  BY <1>13
  <2>2. \A ar, kill \in BOOLEAN : /\ With(ar, kill) \in Answers
                                  /\ With(ar, kill).ar = ar /\ With(ar, kill).kill = kill
    BY <1>7
  <2> DEFINE new == [With(s.ar, FALSE) EXCEPT !.ar = TRUE]
  <2>3. p.call.kind = "connect" =>
          Served(s, p.call) = IF s.ar THEN {fails} ELSE {fails, new}
    BY Zenon DEF Served
  <2>9. new \in Answers /\ new.ar
    <3> HIDE DEF With
    <3>1. With(s.ar, FALSE) \in Answers  BY <2>2, <1>9
    <3> QED  BY <3>1
  <2>4. p.call.kind = "record" =>
          Served(s, p.call) = IF s.ar THEN {With(s.ar, FALSE)} ELSE {fails}
    BY Zenon DEF Served
  <2>5. p.call.kind = "implicit" => Served(s, p.call) = {With(s.ar, TRUE)}
    BY DEF Served
  <2>6. p.call.kind = "release" => Served(s, p.call) = {fails}
    BY DEF Served
  <2> HIDE DEF fails, new, With, Answers
  <2> QED  BY <1>7, <1>9, <2>1, <2>2, <2>3, <2>9, <2>4, <2>5, <2>6 DEF Kinds
<1>15. \A h \in Refused(s, p.call) : h \in Answers /\ (h.kill \/ h.ar)
  <2> DEFINE b == s.ar /\ p.call.kind # "connect"
             d == p.call.kind \in {"connect", "release", "implicit"} \/ ~s.ar
  <2>1. Refused(s, p.call) = {[ar |-> b, len |-> Short, kill |-> d]}
    BY Zenon DEF Refused
  <2>2. b \in BOOLEAN /\ d \in BOOLEAN  OBVIOUS
  <2>3. b \/ d  BY <1>9
  <2> HIDE DEF b, d
  <2> QED  BY <2>1, <2>2, <2>3, <1>13
<1> HIDE DEF e
<1>16. executed' \in [Acts -> ExecutedSet] /\ RequestWhole'
  <2>1. /\ executed' \in [Acts -> ExecutedSet]
        /\ \A a \in Acts : WholeOne(executed'[a])
    <3>1. CASE executed' = executed  BY <3>1, <1>5, <1>12
    <3>2. CASE right /\ executed' = [executed EXCEPT ![p.act] = e]
      BY <3>2, <1>5, <1>11, <1>12
    <3> QED  BY <1>2, <3>1, <3>2
  <2> QED  BY <2>1 DEF RequestWhole, WholeOne
<1>18. s.parts = <<>> \/ s.parts[1][1] = p.seq \/ s.parts = F.parts
  BY <1>3, <1>8
<1>19. CASE \E h \in Served(s, p.call) :
              Respond(At(p.act), s, p, h,
                [NoSpan EXCEPT !.seq = p.seq, !.times = again, !.len = h.len])
  <2>1. PICK h \in Served(s, p.call) :
              Respond(At(p.act), s, p, h,
                [NoSpan EXCEPT !.seq = p.seq, !.times = again, !.len = h.len])
    BY <1>19
  <2> DEFINE answer == [NoSpan EXCEPT !.seq = p.seq, !.times = again, !.len = h.len]
  <2>2. h \in Answers /\ (h.kill \/ h.ar) /\ h.len \in Int  BY <1>14
  <2>3. answer \in SpanSet  BY <1>4, <1>6, <2>2, AnswerSpan
  <2>4. Respond(At(p.act), s, p, h, answer)  BY <2>1
  <2> HIDE DEF answer
  <2>5. Inv'  BY <1>1, <1>2, <1>8, <1>16, <1>18, <2>2, <2>3, <2>4, Responds
  <2> QED  BY <2>5, <1>16 DEF IInv
<1>20. CASE \E h \in Refused(s, p.call) :
              Respond(At(p.act), s, p, h, [NoSpan EXCEPT !.seq = p.seq, !.len = h.len])
  <2>1. PICK h \in Refused(s, p.call) :
              Respond(At(p.act), s, p, h, [NoSpan EXCEPT !.seq = p.seq, !.len = h.len])
    BY <1>20
  <2> DEFINE answer == [NoSpan EXCEPT !.seq = p.seq, !.len = h.len]
  <2>2. h \in Answers /\ (h.kill \/ h.ar) /\ h.len \in Int  BY <1>15
  <2>3. answer \in SpanSet
    <3>1. 0 \in Nat  OBVIOUS
    <3> QED  BY <3>1, <1>4, <2>2, AnswerSpan
  <2>4. Respond(At(p.act), s, p, h, answer)  BY <2>1
  <2> HIDE DEF answer
  <2>5. Inv'  BY <1>1, <1>2, <1>8, <1>16, <1>18, <2>2, <2>3, <2>4, Responds
  <2> QED  BY <2>5, <1>16 DEF IInv
<1>21. CASE Store(At(p.act), s, FALSE) /\ toClient' = toClient
  <2>1. Inv'  BY <1>1, <1>2, <1>8, <1>16, <1>18, <1>21, Taken
  <2> QED  BY <2>1, <1>16 DEF IInv
<1> QED  BY <1>2, <1>19, <1>20, <1>21

-----------------------------------------------------------------------------
(* The steps of the clients.                                                 *)

\* A client goes on, or calls again, and may send a packet of its call: a later
\* fragment only after the device has had the first.
LEMMA GoesOn ==
  ASSUME RpcAssumption, Inv, NEW a \in Acts, NEW t \in ClientSet,
         client' = [client EXCEPT ![a] = t], ClientOK(t), client[a].seq <= t.seq,
         t.seq = client[a].seq => t.call = client[a].call,
         t.part > 0 => Started(a, t.seq),
         toClient' = toClient \/ (toClient # <<>> /\ toClient' = Tail(toClient)),
         \/ toDevice' = toDevice
         \/ \E r \in PacketSet :
              /\ toDevice' = Append(toDevice, r)
              /\ r.act = a /\ r.seq = t.seq /\ RequestOK(r, t)
              /\ r.type = "request" /\ r.num > 0 => Started(a, t.seq),
         session' = session, executed' = executed
  PROVE  Inv'
<1>1. /\ toDevice \in Seq(PacketSet) /\ toClient \in Seq(PacketSet)
      /\ session \in [1 .. MaxSess -> SessionSet] /\ client \in [Acts -> ClientSet]
      /\ executed \in [Acts -> ExecutedSet]
  BY DEF Inv, TypeOK
<1>2. t.seq \in Nat /\ client[a].seq \in Nat /\ \A b \in Acts : client[b].seq \in Nat
  BY <1>1 DEF ClientSet
<1>3. /\ client' \in [Acts -> ClientSet] /\ client'[a] = t
      /\ \A b \in Acts : b # a => client'[b] = client[b]
  BY <1>1
<1>4. /\ toDevice' \in Seq(PacketSet) /\ Len(toDevice) \in Nat /\ Len(toDevice') \in Nat
      /\ Len(toDevice) <= Len(toDevice')
      /\ \A i \in 1 .. Len(toDevice') : i <= Len(toDevice) => toDevice'[i] = toDevice[i]
      /\ \A i \in 1 .. Len(toDevice') : i > Len(toDevice) =>
           /\ i = Len(toDevice')
           /\ toDevice'[i].act = a /\ toDevice'[i].seq = t.seq /\ RequestOK(toDevice'[i], t)
           /\ toDevice'[i].type = "request" /\ toDevice'[i].num > 0 => Started(a, t.seq)
  <2>1. CASE toDevice' = toDevice  BY <2>1, <1>1, LenProperties
  <2>2. CASE toDevice' # toDevice
    <3>1. PICK r \in PacketSet :
            /\ toDevice' = Append(toDevice, r)
            /\ r.act = a /\ r.seq = t.seq /\ RequestOK(r, t)
            /\ r.type = "request" /\ r.num > 0 => Started(a, t.seq)
      BY <2>2
    <3>2. /\ toDevice' \in Seq(PacketSet) /\ Len(toDevice') = Len(toDevice) + 1
          /\ Len(toDevice) \in Nat
          /\ \A i \in 1 .. Len(toDevice) : toDevice'[i] = toDevice[i]
          /\ toDevice'[Len(toDevice) + 1] = r
      BY <3>1, <1>1, AppendProperties, LenProperties
    <3>3. \A i \in 1 .. Len(toDevice') :
            i > Len(toDevice) => i = Len(toDevice') /\ toDevice'[i] = r
      BY <3>2
    <3> QED  BY <3>1, <3>2, <3>3
  <2> QED  BY <2>1, <2>2
<1>5. /\ toClient' \in Seq(PacketSet)
      /\ \A i \in 1 .. Len(toClient') :
           \E j \in 1 .. Len(toClient) : toClient'[i] = toClient[j]
  <2>1. CASE toClient' = toClient  BY <2>1, <1>1
  <2>2. CASE toClient # <<>> /\ toClient' = Tail(toClient)  BY <2>2, <1>1, Rest
  <2> QED  BY <2>1, <2>2
<1>6. TypeOK'
  BY <1>1, <1>3, <1>4, <1>5 DEF TypeOK
<1>7. \A b \in Acts, q \in Nat : Started(b, q)' => Started(b, q)
  <2> SUFFICES ASSUME NEW b \in Acts, NEW q \in Nat, Started(b, q)'
               PROVE  Started(b, q)
    OBVIOUS
  <2>1. CASE \E i \in 1 .. Len(toDevice') :
               /\ toDevice'[i].act = b /\ toDevice'[i].type = "request"
               /\ toDevice'[i].num > 0 /\ toDevice'[i].seq = q
    <3>1. PICK i \in 1 .. Len(toDevice') :
               /\ toDevice'[i].act = b /\ toDevice'[i].type = "request"
               /\ toDevice'[i].num > 0 /\ toDevice'[i].seq = q
      BY <2>1
    <3>2. CASE i <= Len(toDevice)
      <4>1. i \in 1 .. Len(toDevice) /\ toDevice'[i] = toDevice[i]  BY <3>2, <1>4
      <4> QED  BY <3>1, <4>1 DEF Started
    <3>3. CASE ~(i <= Len(toDevice))
      <4>1. i > Len(toDevice)  BY <3>3, <1>4
      <4> QED  BY <3>1, <4>1, <1>4
    <3> QED  BY <3>2, <3>3
  <2>2. CASE \E i \in 1 .. Len(toClient') :
               toClient'[i].act = b /\ toClient'[i].type = "fack" /\ toClient'[i].seq = q
    BY <2>2, <1>5 DEF Started
  <2>3. CASE client'[b].part > 0 /\ client'[b].seq = q
    BY <2>3, <1>3 DEF Started
  <2> QED  BY <2>1, <2>2, <2>3 DEF Started
<1>8. \A q \in Nat : Started(a, q) => q <= client[a].seq
  BY DEF Started, Inv, RequestOK, AnswerOK
<1>9. \A i \in 1 .. Len(toDevice') : RequestOK(toDevice'[i], client'[toDevice'[i].act])
  <2> SUFFICES ASSUME NEW i \in 1 .. Len(toDevice')
               PROVE  RequestOK(toDevice'[i], client'[toDevice'[i].act])
    OBVIOUS
  <2>1. CASE i > Len(toDevice)  BY <2>1, <1>3, <1>4
  <2>2. CASE ~(i > Len(toDevice))
    <3> DEFINE p == toDevice[i]
    <3>1. i \in 1 .. Len(toDevice) /\ toDevice'[i] = p  BY <2>2, <1>4
    <3>2. RequestOK(p, client[p.act]) /\ p \in PacketSet  BY <3>1, <1>1 DEF Inv
    <3>3. CASE p.act # a  BY <3>1, <3>2, <3>3, <1>3 DEF RequestOK
    <3>4. CASE p.act = a
      <4>1. p.seq \in Nat  BY <3>2 DEF PacketSet
      <4>2. p.seq <= t.seq /\ (p.seq = t.seq => t.seq = client[a].seq)
        BY <3>2, <3>4, <4>1, <1>2 DEF RequestOK
      <4> QED  BY <3>1, <3>2, <3>4, <4>2, <1>3 DEF RequestOK
    <3> QED  BY <3>3, <3>4
  <2> QED  BY <2>1, <2>2
<1>10. \A i \in 1 .. Len(toClient') : AnswerOK(toClient'[i], client'[toClient'[i].act])
  <2> SUFFICES ASSUME NEW i \in 1 .. Len(toClient')
               PROVE  AnswerOK(toClient'[i], client'[toClient'[i].act])
    OBVIOUS
  <2> DEFINE p == toClient'[i]
  <2>1. AnswerOK(p, client[p.act]) /\ p \in PacketSet  BY <1>1, <1>5 DEF Inv
  <2>2. CASE p.act # a  BY <2>1, <2>2, <1>3 DEF AnswerOK
  <2>3. CASE p.act = a
    <3>1. p.seq \in Nat  BY <2>1 DEF PacketSet
    <3>2. p.type = "fack" => p.seq <= t.seq /\ (p.seq = t.seq => t.seq = client[a].seq)
      BY <2>1, <2>3, <3>1, <1>2 DEF AnswerOK
    <3> QED  BY <2>1, <2>3, <3>2, <1>3 DEF AnswerOK
  <2> QED  BY <2>2, <2>3
<1>11. \A b \in Acts : ClientOK(client'[b])
  BY <1>3 DEF Inv
<1>12. \A i \in 1 .. Len(toDevice) : toDevice[i].act = a => toDevice[i].seq <= t.seq
  <2> SUFFICES ASSUME NEW i \in 1 .. Len(toDevice), toDevice[i].act = a
               PROVE  toDevice[i].seq <= t.seq
    OBVIOUS
  <2>1. toDevice[i].seq <= client[a].seq /\ toDevice[i] \in PacketSet
    BY <1>1 DEF Inv, RequestOK
  <2> QED  BY <2>1, <1>2 DEF PacketSet
<1>13. Ordered'
  <2> SUFFICES ASSUME NEW i \in 1 .. Len(toDevice'), NEW j \in 1 .. Len(toDevice'),
                      i <= j, toDevice'[i].act = toDevice'[j].act
               PROVE  toDevice'[i].seq <= toDevice'[j].seq
    BY DEF Ordered
  <2>1. CASE j <= Len(toDevice)
    <3>1. i \in 1 .. Len(toDevice) /\ j \in 1 .. Len(toDevice)
          /\ toDevice'[i] = toDevice[i] /\ toDevice'[j] = toDevice[j]
      BY <2>1, <1>4
    <3> QED  BY <3>1 DEF Inv, Ordered
  <2>2. CASE ~(j <= Len(toDevice)) /\ i <= Len(toDevice)
    <3>1. i \in 1 .. Len(toDevice) /\ toDevice'[i] = toDevice[i]
          /\ toDevice'[j].act = a /\ toDevice'[j].seq = t.seq
      BY <2>2, <1>4
    <3> QED  BY <3>1, <1>12
  <2>3. CASE ~(j <= Len(toDevice)) /\ ~(i <= Len(toDevice))
    BY <2>3, <1>2, <1>4
  <2> QED  BY <2>1, <2>2, <2>3
<1>14. StartedOK'
  <2> SUFFICES ASSUME NEW b \in Acts, NEW q \in Nat, Started(b, q)'
               PROVE  /\ \A i \in 1 .. Len(toDevice') :
                           toDevice'[i].act = b => q <= toDevice'[i].seq
                      /\ \A k \in 1 .. MaxSess :
                           session'[k].act = b /\ session'[k].parts # <<>>
                             => q <= session'[k].parts[1][1]
    BY DEF StartedOK
  <2>1. Started(b, q)  BY <1>7
  <2>2. /\ \A i \in 1 .. Len(toDevice) : toDevice[i].act = b => q <= toDevice[i].seq
        /\ \A k \in 1 .. MaxSess :
             session[k].act = b /\ session[k].parts # <<>> => q <= session[k].parts[1][1]
    BY <2>1 DEF Inv, StartedOK
  <2>3. ASSUME NEW i \in 1 .. Len(toDevice'), toDevice'[i].act = b
        PROVE  q <= toDevice'[i].seq
    <3>1. CASE i <= Len(toDevice)
      <4>1. i \in 1 .. Len(toDevice) /\ toDevice'[i] = toDevice[i]  BY <3>1, <1>4
      <4> QED  BY <4>1, <2>2, <2>3
    <3>2. CASE ~(i <= Len(toDevice))
      <4>1. b = a /\ toDevice'[i].seq = t.seq  BY <3>2, <2>3, <1>4
      <4> QED  BY <4>1, <2>1, <1>2, <1>8
    <3> QED  BY <3>1, <3>2
  <2> QED  BY <2>2, <2>3
<1>15. Earlier'
  <2> SUFFICES ASSUME NEW k \in 1 .. MaxSess, session[k].act # NoAct, session[k].parts # <<>>
               PROVE  /\ session[k].parts[1][1] <= client'[session[k].act].seq
                      /\ \A i \in 1 .. Len(toDevice') : toDevice'[i].act = session[k].act
                           => session[k].parts[1][1] <= toDevice'[i].seq
    BY DEF Earlier
  <2> DEFINE q == session[k].parts[1][1]
             b == session[k].act
  <2>1. /\ q <= client[b].seq
        /\ \A i \in 1 .. Len(toDevice) : toDevice[i].act = b => q <= toDevice[i].seq
    BY DEF Inv, Earlier
  <2>2. b \in Acts /\ q \in Nat
    <3>1. session[k] \in SessionSet  BY <1>1
    <3>2. b \in Acts /\ session[k].parts \in Seq(Nat \X Nat)  BY <3>1 DEF SessionSet
    <3>3. 1 \in 1 .. Len(session[k].parts)  BY <3>2, LenProperties, EmptySeq
    <3>4. session[k].parts[1] \in Nat \X Nat  BY <3>2, <3>3, ElementOfSeq
    <3> QED  BY <3>2, <3>4
  <2> HIDE DEF q, b
  <2>3. q <= client'[b].seq
    BY <2>1, <2>2, <1>2, <1>3
  <2>4. ASSUME NEW i \in 1 .. Len(toDevice'), toDevice'[i].act = b
        PROVE  q <= toDevice'[i].seq
    <3>1. CASE i <= Len(toDevice)
      <4>1. i \in 1 .. Len(toDevice) /\ toDevice'[i] = toDevice[i]  BY <3>1, <1>4
      <4> QED  BY <4>1, <2>1, <2>4
    <3>2. CASE ~(i <= Len(toDevice))
      <4>1. b = a /\ toDevice'[i].seq = t.seq  BY <3>2, <2>4, <1>4
      <4> QED  BY <4>1, <2>3, <1>3
    <3> QED  BY <3>1, <3>2
  <2> QED  BY <2>3, <2>4 DEF q, b
<1>16. Unique' /\ \A k \in 1 .. MaxSess : SessionOK(session'[k])
  BY DEF Inv, Unique
<1> QED  BY <1>6, <1>9, <1>10, <1>11, <1>13, <1>14, <1>15, <1>16 DEF Inv


\* What a client sends of its call.
LEMMA PartOK ==
  ASSUME RpcAssumption, NEW a \in Acts, NEW t \in ClientSet, t.call \in Calls,
         NEW n \in Nat, n < t.call.parts
  PROVE  LET r == Part(a, t.seq, t.call, n)
         IN  /\ r \in PacketSet /\ r.act = a /\ r.seq = t.seq /\ r.num = n
             /\ r.type = "request" /\ RequestOK(r, t)
<1> DEFINE r == Part(a, t.seq, t.call, n)
<1>1. t.seq \in Nat /\ t.call \in CallSet  BY DEF ClientSet
<1>2. /\ r \in PacketSet /\ r.act = a /\ r.type = "request" /\ r.seq = t.seq
      /\ r.call = t.call /\ r.num = n
      /\ (r.frag <=> t.call.parts > 1) /\ (r.last <=> r.frag /\ n = t.call.parts - 1)
  BY <1>1, PartFields
<1> HIDE DEF r
<1>3. RequestOK(r, t)  BY <1>1, <1>2 DEF RequestOK
<1> QED  BY <1>2, <1>3 DEF r

\* What else a client sends.
LEMMA SmallOK ==
  ASSUME RpcAssumption, NEW a \in Acts, NEW t \in ClientSet,
         NEW type \in {"ping", "cancel", "fack"}, NEW k,
         k = Packet(a, type, t.seq)
  PROVE  /\ k \in PacketSet /\ k.act = a /\ k.seq = t.seq /\ k.type = type
         /\ ~ k.frag /\ RequestOK(k, t)
<1>1. t.seq \in Nat /\ type \in PacketTypes  BY DEF ClientSet, PacketTypes
<1>2. k \in PacketSet /\ k.act = a /\ k.seq = t.seq /\ k.type = type /\ ~k.frag
  BY <1>1, NoTypes DEF Packet
<1>3. RequestOK(k, t)  BY <1>1, <1>2 DEF RequestOK
<1> QED  BY <1>2, <1>3

\* The acknowledgement of fragment n of an answer.
AckOf(a, seq, n) == [Packet(a, "fack", seq) EXCEPT !.num = n]

\* ... is one too.
LEMMA AckOK ==
  ASSUME RpcAssumption, NEW a \in Acts, NEW t \in ClientSet, NEW n \in Nat,
         NEW r, r = AckOf(a, t.seq, n)
  PROVE  /\ r \in PacketSet /\ r.act = a /\ r.seq = t.seq /\ r.type = "fack"
         /\ RequestOK(r, t)
<1> DEFINE k == Packet(a, "fack", t.seq)
<1>1. r = [k EXCEPT !.num = n]  BY DEF AckOf
<1>2. t.seq \in Nat  BY DEF ClientSet
<1>3. k \in PacketSet /\ k.act = a /\ k.seq = t.seq /\ k.type = "fack" /\ ~k.frag
  BY SmallOK
<1> HIDE DEF k
<1>4. r \in PacketSet /\ r.act = a /\ r.seq = t.seq /\ r.type = "fack" /\ ~r.frag
  BY <1>1, <1>3 DEF PacketSet
<1>5. RequestOK(r, t)  BY <1>2, <1>4 DEF RequestOK
<1> QED  BY <1>4, <1>5

\* A client sends something, and it arrives or not.
LEMMA Asked ==
  ASSUME TypeOK, NEW r \in PacketSet, Asks(r)
  PROVE  toDevice' = toDevice \/ toDevice' = Append(toDevice, r)
BY SendsTo DEF Asks, TypeOK

\* A client whose later fragments are on their way had its first one taken.
LEMMA ClientIs ==
  ASSUME RpcAssumption, Inv, NEW a \in Acts
  PROVE  /\ client[a] \in ClientSet /\ ClientOK(client[a])
         /\ client[a].seq \in Nat /\ client[a].part \in Nat
         /\ client[a].part > 0 => Started(a, client[a].seq)
         /\ client[a].call \in Calls => client[a].part < client[a].call.parts
<1>1. client[a] \in ClientSet /\ ClientOK(client[a])  BY DEF Inv, TypeOK
<1>2. client[a].seq \in Nat /\ client[a].part \in Nat /\ client[a].call \in CallSet
  BY <1>1 DEF ClientSet
<1>3. client[a].call \in Calls => client[a].call.parts > 0  BY Sizes
<1> QED  BY <1>1, <1>2, <1>3 DEF ClientOK, Started, CallSet

\* A client calls: the invariant holds of its next call.
LEMMA CallsNext ==
  ASSUME RpcAssumption, Inv, NEW a \in Acts, NEW c \in Calls, Call(a, c)
  PROVE  Inv'
<1> DEFINE t == client[a]
           u == [t EXCEPT !.seq = t.seq + 1, !.phase = "asking", !.call = c, !.part = 0,
                          !.got = <<>>, !.nbr = 0]
           r == Part(a, t.seq + 1, c, 0)
<1>1. t \in ClientSet /\ t.seq \in Nat  BY ClientIs
<1>2. c \in CallSet /\ c.parts > 0  BY Sizes
<1>3. client' = [client EXCEPT ![a] = u] /\ Asks(r)
      /\ session' = session /\ toClient' = toClient /\ executed' = executed
  BY DEF Call
<1>4. /\ u \in ClientSet /\ u.seq = t.seq + 1 /\ u.call = c /\ u.part = 0
  <2> DEFINE With(seq, call, part, got) ==
               [t EXCEPT !.seq = seq, !.phase = "asking", !.call = call, !.part = part,
                         !.got = got, !.nbr = part]
  <2>1. \A seq \in Nat, call \in CallSet, part \in Nat, got \in Seq(SpanSet) :
          With(seq, call, part, got) \in ClientSet
    <3> HIDE DEF t
    <3> QED  BY <1>1 DEF ClientSet
  <2>2. u = With(t.seq + 1, c, 0, <<>>)  OBVIOUS
  <2>3. t.seq + 1 \in Nat /\ 0 \in Nat /\ <<>> \in Seq(SpanSet)  BY <1>1
  <2>4. u.seq = t.seq + 1 /\ u.call = c /\ u.part = 0
    <3> HIDE DEF t
    <3> QED  BY <1>1 DEF ClientSet
  <2> HIDE DEF With, u
  <2> QED  BY <1>2, <2>1, <2>2, <2>3, <2>4
<1> HIDE DEF u
<1>5. ClientOK(u)  BY <1>4 DEF ClientOK
<1>6. r \in PacketSet /\ r.act = a /\ r.seq = u.seq /\ r.num = 0 /\ RequestOK(r, u)
  BY <1>2, <1>4, PartOK
<1>7. toDevice' = toDevice \/ toDevice' = Append(toDevice, r)
  BY <1>3, <1>6, Asked DEF Inv
<1> HIDE DEF r
<1>8. \/ toDevice' = toDevice
      \/ \E x \in PacketSet :
           /\ toDevice' = Append(toDevice, x)
           /\ x.act = a /\ x.seq = u.seq /\ RequestOK(x, u)
           /\ x.type = "request" /\ x.num > 0 => Started(a, u.seq)
  BY <1>6, <1>7
<1>9. client[a].seq <= u.seq /\ u.seq # client[a].seq /\ ~(u.part > 0)  BY <1>1, <1>4
<1> HIDE DEF t
<1> QED  BY <1>3, <1>4, <1>5, <1>8, <1>9, GoesOn

\* A client sends its fragment again, or pings.
LEMMA Retries ==
  ASSUME RpcAssumption, Inv, NEW a \in Acts, Retry(a)
  PROVE  Inv'
<1> DEFINE t == client[a]
           u == [t EXCEPT !.tries = t.tries + 1]
           r == Part(a, t.seq, t.call, t.part)
           k == Packet(a, "ping", t.seq)
<1>1. /\ t \in ClientSet /\ ClientOK(t) /\ (t.part > 0 => Started(a, t.seq))
      /\ t.call \in Calls => t.part < t.call.parts
      /\ t.part \in Nat /\ t.seq \in Nat
  BY ClientIs
<1>2. /\ client' = [client EXCEPT ![a] = u]
      /\ (t.phase = "asking" /\ Asks(r)) \/ Asks(k)
      /\ session' = session /\ toClient' = toClient /\ executed' = executed
  BY DEF Retry
<1>3. /\ u \in ClientSet /\ u.seq = t.seq /\ u.call = t.call /\ u.part = t.part
      /\ u.phase = t.phase
  <2> HIDE DEF t
  <2>1. t.tries + 1 \in Nat  BY <1>1 DEF ClientSet
  <2> QED  BY <1>1, <2>1 DEF ClientSet
<1> HIDE DEF u
<1>4. ClientOK(u)  BY <1>1, <1>3 DEF ClientOK
<1>5. \/ toDevice' = toDevice
      \/ \E x \in PacketSet :
           /\ toDevice' = Append(toDevice, x)
           /\ x.act = a /\ x.seq = u.seq /\ RequestOK(x, u)
           /\ x.type = "request" /\ x.num > 0 => Started(a, u.seq)
  <2>1. CASE t.phase = "asking" /\ Asks(r)
    <3>1. t.call \in Calls /\ t.part < t.call.parts  BY <2>1, <1>1 DEF ClientOK
    <3>2. r \in PacketSet /\ r.act = a /\ r.seq = u.seq /\ r.num = t.part /\ RequestOK(r, u)
      BY <3>1, <1>1, <1>3, PartOK
    <3>3. toDevice' = toDevice \/ toDevice' = Append(toDevice, r)
      BY <2>1, <3>2, Asked DEF Inv
    <3> HIDE DEF r, t
    <3> QED  BY <1>1, <1>3, <3>2, <3>3
  <2>2. CASE Asks(k)
    <3>1. k \in PacketSet /\ k.act = a /\ k.seq = u.seq /\ k.type = "ping" /\ RequestOK(k, u)
      <4>1. u \in ClientSet /\ k = Packet(a, "ping", u.seq)  BY <1>3
      <4> HIDE DEF k, t
      <4> QED  BY <4>1, SmallOK
    <3>2. toDevice' = toDevice \/ toDevice' = Append(toDevice, k)
      BY <2>2, <3>1, Asked DEF Inv
    <3> HIDE DEF k, t
    <3> QED  BY <3>1, <3>2
  <2> QED  BY <1>2, <2>1, <2>2
<1> HIDE DEF t
<1>6. client[a].seq <= u.seq /\ u.call = client[a].call  BY <1>1, <1>3 DEF t
<1>7. u.part > 0 => Started(a, u.seq)  BY <1>1, <1>3
<1> QED  BY <1>2, <1>3, <1>4, <1>5, <1>6, <1>7, GoesOn

\* A client gives up, and may cancel.
LEMMA GivesUp ==
  ASSUME RpcAssumption, Inv, NEW a \in Acts, GiveUp(a)
  PROVE  Inv'
<1> DEFINE t == client[a]
           u == [t EXCEPT !.phase = "idle"]
           k == Packet(a, "cancel", t.seq)
<1>1. /\ t \in ClientSet /\ ClientOK(t) /\ (t.part > 0 => Started(a, t.seq))
      /\ t.part \in Nat /\ t.seq \in Nat
  BY ClientIs
<1>2. /\ client' = [client EXCEPT ![a] = u]
      /\ toDevice' = toDevice \/ Asks(k)
      /\ session' = session /\ toClient' = toClient /\ executed' = executed
  BY DEF GiveUp
<1>3. /\ u \in ClientSet /\ u.seq = t.seq /\ u.call = t.call /\ u.part = t.part
      /\ u.phase = "idle"
  <2> HIDE DEF t
  <2> QED  BY <1>1 DEF ClientSet
<1> HIDE DEF u
<1>4. ClientOK(u)  BY <1>1, <1>3 DEF ClientOK
<1>5. \/ toDevice' = toDevice
      \/ \E x \in PacketSet :
           /\ toDevice' = Append(toDevice, x)
           /\ x.act = a /\ x.seq = u.seq /\ RequestOK(x, u)
           /\ x.type = "request" /\ x.num > 0 => Started(a, u.seq)
  <2>1. CASE toDevice' = toDevice  BY <2>1
  <2>2. CASE Asks(k)
    <3>1. k \in PacketSet /\ k.act = a /\ k.seq = u.seq /\ k.type = "cancel" /\ RequestOK(k, u)
      <4>1. u \in ClientSet /\ k = Packet(a, "cancel", u.seq)  BY <1>3
      <4> HIDE DEF k, t
      <4> QED  BY <4>1, SmallOK
    <3>2. toDevice' = toDevice \/ toDevice' = Append(toDevice, k)
      BY <2>2, <3>1, Asked DEF Inv
    <3> HIDE DEF k, t
    <3> QED  BY <3>1, <3>2
  <2> QED  BY <1>2, <2>1, <2>2
<1> HIDE DEF t
<1>6. client[a].seq <= u.seq /\ u.call = client[a].call  BY <1>1, <1>3 DEF t
<1>7. u.part > 0 => Started(a, u.seq)  BY <1>1, <1>3
<1> QED  BY <1>2, <1>3, <1>4, <1>5, <1>6, <1>7, GoesOn


\* A client hears an answer, which may be a later fragment of it.
LEMMA HearsOne ==
  ASSUME RpcAssumption, Inv, Hears
  PROVE  Inv'
<1> DEFINE p == Head(toClient)
           a == p.act
           t == client[a]
           ack == [Packet(a, "fack", p.seq) EXCEPT !.num = p.num]
<1>1. /\ toClient \in Seq(PacketSet) /\ toClient # <<>>
      /\ toClient' = Tail(toClient) /\ session' = session /\ executed' = executed
  BY DEF Inv, TypeOK, Hears
<1>2. p \in PacketSet /\ p = toClient[1] /\ 1 \in 1 .. Len(toClient)
  BY <1>1, Rest
<1>3. AnswerOK(p, t) /\ a \in Acts  BY <1>2 DEF Inv, AnswerOK
<1>4. p.seq \in Nat /\ p.num \in Nat /\ p.span \in SpanSet  BY <1>2 DEF PacketSet
<1>5. /\ t \in ClientSet /\ ClientOK(t) /\ (t.part > 0 => Started(a, t.seq))
      /\ t.part \in Nat /\ t.seq \in Nat
  BY <1>3, ClientIs
<1>6. CASE /\ p.seq = t.seq /\ p.type = "fack" /\ t.phase = "asking" /\ p.num = t.part
           /\ client' = [client EXCEPT ![a].part = @ + 1]
           /\ Asks(Part(a, t.seq, t.call, t.part + 1))
  <2> DEFINE u == [t EXCEPT !.part = t.part + 1]
             r == Part(a, t.seq, t.call, t.part + 1)
  <2>1. client' = [client EXCEPT ![a] = u] /\ Asks(r)  BY <1>6
  <2>2. t.call \in Calls /\ t.part + 1 < t.call.parts
    BY <1>3, <1>5, <1>6 DEF ClientOK, AnswerOK
  <2>3. /\ u \in ClientSet /\ u.seq = t.seq /\ u.call = t.call /\ u.part = t.part + 1
        /\ u.phase = t.phase
    <3>1. t.part + 1 \in Nat  BY <1>5
    <3> HIDE DEF t
    <3> QED  BY <1>5, <3>1 DEF ClientSet
  <2> HIDE DEF u
  <2>4. ClientOK(u)  BY <2>2, <2>3 DEF ClientOK
  <2>5. Started(a, t.seq)  BY <1>2, <1>6 DEF Started
  <2>6. r \in PacketSet /\ r.act = a /\ r.seq = u.seq /\ RequestOK(r, u)
    <3>1. u.call \in Calls /\ t.part + 1 < u.call.parts /\ t.part + 1 \in Nat
      BY <1>5, <2>2, <2>3
    <3>2. r = Part(a, u.seq, u.call, t.part + 1)  BY <2>3
    <3> HIDE DEF r, a, t
    <3> QED  BY <1>3, <2>3, <3>1, <3>2, PartOK
  <2>7. toDevice' = toDevice \/ toDevice' = Append(toDevice, r)
    BY <2>1, <2>6, Asked DEF Inv
  <2> HIDE DEF r
  <2>8. \/ toDevice' = toDevice
        \/ \E x \in PacketSet :
             /\ toDevice' = Append(toDevice, x)
             /\ x.act = a /\ x.seq = u.seq /\ RequestOK(x, u)
             /\ x.type = "request" /\ x.num > 0 => Started(a, u.seq)
    BY <2>3, <2>5, <2>6, <2>7
  <2>9. client[a].seq <= u.seq /\ u.call = client[a].call /\ Started(a, u.seq)
    BY <1>5, <2>3, <2>5
  <2> HIDE DEF a, t
  <2> QED  BY <1>1, <1>3, <2>1, <2>3, <2>4, <2>8, <2>9, GoesOn
<1> DEFINE u == [t EXCEPT !.phase = "idle"]
           v(phase) == [t EXCEPT !.phase = phase, !.got = Append(t.got, p.span),
                                 !.nbr = t.nbr + 1]
<1>7. ASSUME p.seq = t.seq, NEW w \in ClientSet, client' = [client EXCEPT ![a] = w],
             w.seq = t.seq, w.call = t.call, w.part = t.part, w.phase # "asking",
             toDevice' = toDevice \/ Asks(ack)
      PROVE  Inv'
  <2>1. ClientOK(w)  BY <1>5, <1>7 DEF ClientOK
  <2>2. ack \in PacketSet /\ ack.act = a /\ ack.seq = w.seq /\ ack.type = "fack"
        /\ RequestOK(ack, w)
    <3>1. ack = AckOf(a, w.seq, p.num)  BY <1>7, Zenon DEF AckOf
    <3>2. a \in Acts /\ p.num \in Nat  BY <1>3, <1>4
    <3> HIDE DEF ack, a, t, p
    <3> QED  BY <1>7, <3>1, <3>2, AckOK
  <2>3. toDevice' = toDevice \/ toDevice' = Append(toDevice, ack)
    BY <1>7, <2>2, Asked DEF Inv
  <2> HIDE DEF ack
  <2>4. \/ toDevice' = toDevice
        \/ \E x \in PacketSet :
             /\ toDevice' = Append(toDevice, x)
             /\ x.act = a /\ x.seq = w.seq /\ RequestOK(x, w)
             /\ x.type = "request" /\ x.num > 0 => Started(a, w.seq)
    BY <2>2, <2>3
  <2>5. client[a].seq <= w.seq /\ w.call = client[a].call /\ (w.part > 0 => Started(a, w.seq))
    BY <1>5, <1>7
  <2> HIDE DEF a, t
  <2> QED  BY <1>1, <1>3, <1>7, <2>1, <2>4, <2>5, GoesOn
<1>8. ASSUME client' = client,
             toDevice' = toDevice \/ (p.seq = t.seq /\ Asks(ack))
      PROVE  Inv'
  <2>1. client' = [client EXCEPT ![a] = t]
    <3>1. client \in [Acts -> ClientSet]  BY DEF Inv, TypeOK
    <3> QED  BY <1>3, <1>8, <3>1
  <2>2. CASE toDevice' = toDevice
    <3>1. client[a].seq <= t.seq /\ t.call = client[a].call  BY <1>5
    <3> HIDE DEF a, t
    <3> QED  BY <1>1, <1>3, <1>5, <2>1, <2>2, <3>1, GoesOn
  <2>3. CASE p.seq = t.seq /\ Asks(ack)
    <3>1. ack \in PacketSet /\ ack.act = a /\ ack.seq = t.seq /\ ack.type = "fack"
          /\ RequestOK(ack, t)
      <4>1. ack = AckOf(a, t.seq, p.num)  BY <2>3, Zenon DEF AckOf
      <4>2. a \in Acts /\ p.num \in Nat /\ t \in ClientSet  BY <1>3, <1>4, <1>5
      <4> HIDE DEF ack, a, t, p
      <4> QED  BY <4>1, <4>2, AckOK
    <3>2. toDevice' = toDevice \/ toDevice' = Append(toDevice, ack)
      BY <2>3, <3>1, Asked DEF Inv
    <3> HIDE DEF ack
    <3>3. \/ toDevice' = toDevice
          \/ \E x \in PacketSet :
               /\ toDevice' = Append(toDevice, x)
               /\ x.act = a /\ x.seq = t.seq /\ RequestOK(x, t)
               /\ x.type = "request" /\ x.num > 0 => Started(a, t.seq)
      BY <3>1, <3>2
    <3>4. client[a].seq <= t.seq /\ t.call = client[a].call  BY <1>5
    <3> HIDE DEF a, t
    <3> QED  BY <1>1, <1>3, <1>5, <2>1, <3>3, <3>4, GoesOn
  <2> QED  BY <1>8, <2>2, <2>3
<1>9. \A phase \in {"reading", "done"} :
        /\ v(phase) \in ClientSet /\ v(phase).seq = t.seq /\ v(phase).call = t.call
        /\ v(phase).part = t.part /\ v(phase).phase = phase
  <2>1. t.nbr + 1 \in Nat /\ Append(t.got, p.span) \in Seq(SpanSet)
    <3>1. t.nbr \in Nat /\ t.got \in Seq(SpanSet)  BY <1>5 DEF ClientSet
    <3> HIDE DEF t, p
    <3> QED  BY <1>4, <3>1, AppendProperties
  <2> DEFINE got == Append(t.got, p.span)
             nbr == t.nbr + 1
  <2>2. \A phase : v(phase) = [t EXCEPT !.phase = phase, !.got = got, !.nbr = nbr]
    OBVIOUS
  <2> HIDE DEF t, got, nbr, v
  <2>3. \A phase \in {"reading", "done"} :
          LET x == [t EXCEPT !.phase = phase, !.got = got, !.nbr = nbr]
          IN  /\ x \in ClientSet /\ x.seq = t.seq /\ x.call = t.call
              /\ x.part = t.part /\ x.phase = phase
    <3>1. got \in Seq(SpanSet) /\ nbr \in Nat  BY <2>1 DEF got, nbr
    <3> QED  BY <1>5, <3>1 DEF ClientSet
  <2> QED  BY <2>2, <2>3, Zenon
<1>10. CASE /\ p.seq = t.seq
            /\ client' = [client EXCEPT ![a] =
                 [t EXCEPT !.phase = (IF p.frag /\ ~p.last THEN "reading" ELSE "done"),
                           !.got = Append(@, p.span), !.nbr = @ + 1]]
            /\ IF p.frag THEN Asks(ack) ELSE UNCHANGED toDevice
  <2> DEFINE phase == IF p.frag /\ ~p.last THEN "reading" ELSE "done"
  <2>1. phase \in {"reading", "done"}  OBVIOUS
  <2>2. client' = [client EXCEPT ![a] = v(phase)]  BY <1>10
  <2>3. toDevice' = toDevice \/ Asks(ack)  BY <1>10
  <2> HIDE DEF phase, v, ack, t, a
  <2> QED  BY <1>7, <1>9, <1>10, <2>1, <2>2, <2>3
<1>11. CASE /\ p.seq = t.seq /\ client' = [client EXCEPT ![a].phase = "idle"]
            /\ toDevice' = toDevice
  <2>1. client' = [client EXCEPT ![a] = u]  BY <1>11
  <2>2. /\ u \in ClientSet /\ u.seq = t.seq /\ u.call = t.call /\ u.part = t.part
        /\ u.phase = "idle"
    <3> HIDE DEF t
    <3> QED  BY <1>5 DEF ClientSet
  <2> HIDE DEF u, t, a, ack
  <2> QED  BY <1>7, <1>11, <2>1, <2>2
<1> QED  BY <1>6, <1>8, <1>10, <1>11 DEF Hears
-----------------------------------------------------------------------------
(* The theorems.                                                             *)

\* The invariant holds at the start.
LEMMA Starts ==
  ASSUME RpcAssumption, Init
  PROVE  IInv
<1>1. Free \in SessionSet /\ SessionOK(Free) /\ Free.act = NoAct /\ Free.parts = <<>>
      /\ NoCall \in CallSet
  BY NoTypes DEF Free
<1>2. session = [k \in 1 .. MaxSess |-> Free] /\ toDevice = <<>> /\ toClient = <<>>
  BY DEF Init
<1>3. \A k \in 1 .. MaxSess : session[k] = Free  BY <1>2
<1>4. \A a \in Acts : /\ client[a] \in ClientSet /\ client[a].part = 0
                      /\ client[a].phase = "idle"
                      /\ executed[a] \in ExecutedSet /\ executed[a].times = 0
  BY <1>1 DEF Init, ClientSet, ExecutedSet
<1>5. TypeOK
  <2>1. client \in [Acts -> ClientSet] /\ executed \in [Acts -> ExecutedSet]
    BY <1>4 DEF Init
  <2>2. session \in [1 .. MaxSess -> SessionSet]  BY <1>1, <1>2
  <2>3. toDevice \in Seq(PacketSet) /\ toClient \in Seq(PacketSet)  BY <1>2
  <2> QED  BY <2>1, <2>2, <2>3 DEF TypeOK
<1>6. Len(toDevice) = 0 /\ Len(toClient) = 0  BY <1>2
<1>7. Unique /\ Ordered /\ Earlier /\ \A k \in 1 .. MaxSess : SessionOK(session[k])
  BY <1>1, <1>3, <1>6 DEF Unique, Ordered, Earlier
<1>8. StartedOK /\ \A a \in Acts : ClientOK(client[a])
  BY <1>3, <1>1, <1>4, <1>6 DEF StartedOK, Started, ClientOK
<1>9. RequestWhole  BY <1>4 DEF RequestWhole
<1> QED  BY <1>5, <1>6, <1>7, <1>8, <1>9 DEF IInv, Inv

\* Each step keeps it.
LEMMA Steps ==
  ASSUME RpcAssumption, IInv, [Next]_vars
  PROVE  IInv'
<1>1. Inv /\ RequestWhole  BY DEF IInv
<1>2. ASSUME Inv', executed' = executed PROVE IInv'
  BY <1>1, <1>2 DEF IInv, RequestWhole
<1>3. CASE OutOfSessions  BY <1>1, <1>2, <1>3, Ignores DEF OutOfSessions
<1>4. CASE TooLong  BY <1>1, <1>2, <1>4, Rejects DEF TooLong
<1>5. CASE Fragment  BY <1>1, <1>2, <1>5, TakesFragment DEF Fragment
<1>6. CASE Ping  BY <1>1, <1>2, <1>6, Pings DEF Ping
<1>7. CASE Request  BY <1>7, Requests
<1>8. CASE FragAck  BY <1>1, <1>2, <1>8, Acknowledges DEF FragAck
<1>9. CASE Cancel  BY <1>1, <1>2, <1>9, Cancels DEF Cancel
<1>10. ASSUME NEW k \in 1 .. MaxSess, Resend(k) PROVE IInv'
  BY <1>1, <1>2, <1>10, ResendsOne DEF Resend
<1>11. ASSUME NEW k \in 1 .. MaxSess, Abort(k) PROVE IInv'
  BY <1>1, <1>2, <1>11, Aborts DEF Abort
<1>12. ASSUME NEW a \in Acts, Retry(a) PROVE IInv'
  BY <1>1, <1>2, <1>12, Retries DEF Retry
<1>13. ASSUME NEW a \in Acts, GiveUp(a) PROVE IInv'
  BY <1>1, <1>2, <1>13, GivesUp DEF GiveUp
<1>14. ASSUME NEW a \in Acts, NEW c \in Calls, Call(a, c) PROVE IInv'
  BY <1>1, <1>2, <1>14, CallsNext DEF Call
<1>15. CASE Hears  BY <1>1, <1>2, <1>15, HearsOne DEF Hears
<1>16. CASE UNCHANGED vars
  <2>1. /\ session' = session /\ toDevice' = toDevice /\ toClient' = toClient
        /\ client' = client /\ executed' = executed
    BY <1>16 DEF vars
  <2>2. /\ session \in [1 .. MaxSess -> SessionSet]
        /\ \A k \in 1 .. MaxSess : SessionOK(session[k])
    BY <1>1 DEF Inv, TypeOK
  <2>3. Inv'  BY <1>1, <2>1, <2>2, Fewer
  <2> QED  BY <1>2, <2>1, <2>3
<1>17. CASE Over  BY <1>16, <1>17 DEF Over
<1> QED
  BY <1>3, <1>4, <1>5, <1>6, <1>7, <1>8, <1>9, <1>10, <1>11, <1>12, <1>13, <1>14, <1>15, <1>16,
     <1>17 DEF Next

\* What a handler is given is one request, all of it and in its order, for any
\* clients, requests and sizes and however many packets are on their way.
THEOREM GivenWhole ==
  ASSUME RpcAssumption
  PROVE  Spec => []RequestWhole
<1>1. Init => IInv  BY Starts
<1>2. IInv /\ [Next]_vars => IInv'  BY Steps
<1>3. IInv => RequestWhole  BY DEF IInv
<1> QED  BY <1>1, <1>2, <1>3, PTL DEF Spec

\* A fragment is sent again only for a session with an AR.
THEOREM ResentForAr ==
  ASSUME RpcAssumption
  PROVE  Spec => []ResendHasAr
<1>1. Init => IInv  BY Starts
<1>2. IInv /\ [Next]_vars => IInv'  BY Steps
<1>3. IInv => ResendHasAr
  BY DEF IInv, Inv, SessionOK, Answering, ResendHasAr
<1> QED  BY <1>1, <1>2, <1>3, PTL DEF Spec
=============================================================================
