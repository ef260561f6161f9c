-------------------------------- MODULE Rpc --------------------------------
(* DCE RPC over UDP, as pf_cmrpc.c speaks it: a request comes in fragments    *)
(* that are put together in a session's in_buffer, the answer goes out in     *)
(* fragments from its out_buffer, each acknowledged and, without a packet     *)
(* from the other side, sent again.                                           *)
(*                                                                            *)
(* UDP keeps the order here but loses packets, and both sides send again what *)
(* may have arrived.  A client is the RPC layer of a controller: it waits for *)
(* the acknowledgement of a fragment before it sends the next, takes the      *)
(* fragments of an answer in their order and acknowledges each, sends again,  *)
(* pings, cancels, and gives up when it likes.  What a handler does with a    *)
(* request is that of ArLifecycle: here it only tells whether the session has *)
(* an AR, whether it is killed, and how long the answer is.  Endpoint mapper  *)
(* requests and requests of the device (CControl) are in ArLifecycle, too.    *)
EXTENDS Integers, Sequences, FiniteSets

CONSTANTS
  Acts,      \* activities, one client each
  NoAct,
  Calls,     \* what a client may ask: [kind, parts, answer, long]
  MaxSess,   \* PF_MAX_SESSION
  MaxPdu,    \* PF_MAX_UDP_PAYLOAD_SIZE
  Header,    \* PF_CMRPC_PDU_HEADER_SIZE
  MaxParts,  \* how many fragments fit in in_buffer
  Resends,   \* PF_CMRPC_NUMBER_OF_RESENDS
  Bounds,    \* bound: how many calls each client makes, and packets besides
             \* those of its calls: a set of [Acts -> [calls, tries]]
  MaxWire    \* bound: packets under way in each direction

VARIABLES
  session,   \* cmrpc_session_info
  toDevice,  \* packets under way
  toClient,
  client,    \* what each client is at
  executed   \* ghost: the last request of each activity that a handler was given

vars == <<session, toDevice, toClient, client, executed>>

Short == Header + 1   \* an answer that only says how it went

\* What is asked: a Connect, a read or write of an AR, a read without one, or
\* its release.
Kinds == {"connect", "record", "implicit", "release"}

\* A request has a fragment at least.
RpcAssumption ==
  /\ NoAct \notin Acts
  /\ Calls \subseteq [kind : Kinds, parts : Nat \ {0}, answer : Nat, long : BOOLEAN]
  /\ {MaxSess, MaxPdu, Header, MaxParts, Resends, MaxWire} \subseteq Nat
-----------------------------------------------------------------------------
(* Packets.  span is which bytes of which answer a fragment carries.          *)
NoSpan == [seq |-> 0, times |-> 0, from |-> 0, to |-> 0, len |-> 0]
NoCall == [kind |-> "none", parts |-> 0, answer |-> 0, long |-> FALSE]

Packet(a, type, seq) ==
  [act |-> a, type |-> type, seq |-> seq, frag |-> FALSE, last |-> FALSE, num |-> 0,
   call |-> NoCall, span |-> NoSpan]

Part(a, seq, c, n) ==
  [Packet(a, "request", seq) EXCEPT
     !.frag = c.parts > 1, !.last = c.parts > 1 /\ n = c.parts - 1, !.num = n, !.call = c]

NoPacket == Packet(NoAct, "none", 0)

\* A packet that may be lost.
Sends(wire, p) == IF Len(wire) < MaxWire THEN {wire, Append(wire, p)} ELSE {wire}
-----------------------------------------------------------------------------
(* Sessions.                                                                  *)
Free ==
  [act |-> NoAct, ar |-> FALSE, parts |-> <<>>, in_nbr |-> 0,
   out_len |-> 0, sent_pos |-> 0, send_len |-> 0, out_nbr |-> 0,
   packet |-> NoPacket, resends |-> 0, armed |-> FALSE]

Of(a) == {k \in 1 .. MaxSess : session[k].act = a}
Known(a) == Of(a) # {}

\* The session of the activity, or the first free one.
At(a) ==
  LET S == IF Known(a) THEN Of(a) ELSE Of(NoAct)
  IN  CHOOSE k \in S : \A j \in S : k <= j

\* What the packet finds there.
Found(a) == IF Known(a) THEN session[At(a)] ELSE [Free EXCEPT !.act = a]

\* The first fragment, and what is no fragment, starts the session anew.
Begun(s, p) ==
  IF p.frag /\ p.num > 0 THEN s ELSE [s EXCEPT !.parts = <<>>, !.in_nbr = 0]

\* Mutant: any fragment is taken for which there is room.
AwaitedAny(s, p) == ~p.frag \/ Len(Begun(s, p).parts) < MaxParts

\* The fragment is the one awaited, and there is room for it.
Awaited(s, p) ==
  ~p.frag \/ (p.num = Begun(s, p).in_nbr /\ Len(Begun(s, p).parts) < MaxParts)

\* The session with the packet's body, if it is a fragment; resending stops.
Collected(s, p) ==
  LET b == [Begun(s, p) EXCEPT !.armed = FALSE]
  IN  IF p.frag /\ Awaited(s, p)
        THEN [b EXCEPT !.parts = Append(@, <<p.seq, p.num>>), !.in_nbr = @ + 1]
        ELSE b

Silent(s) == [s EXCEPT !.out_len = 0, !.sent_pos = 0, !.send_len = 0, !.out_nbr = 0]

Init ==
  /\ session = [k \in 1 .. MaxSess |-> Free]
  /\ toDevice = <<>> /\ toClient = <<>>
  /\ client = [a \in Acts |-> [seq |-> 0, phase |-> "idle", call |-> NoCall, part |-> 0,
                               got |-> <<>>, nbr |-> 0, tries |-> 0]]
  /\ executed = [a \in Acts |-> [seq |-> 0, parts |-> <<>>, times |-> 0, call |-> NoCall]]
-----------------------------------------------------------------------------
(* pf_cmrpc_dce_packet(), by what has arrived.                                *)
Arrived == Head(toDevice)
Arrives == toDevice # <<>> /\ toDevice' = Tail(toDevice)

Store(k, s, kill) == session' = [session EXCEPT ![k] = IF kill THEN Free ELSE s]

Reply(p) == toClient' \in Sends(toClient, p)

\* All sessions are taken by other activities: the packet is ignored.
OutOfSessions ==
  /\ Arrives /\ ~Known(Arrived.act) /\ Of(NoAct) = {}
  /\ UNCHANGED <<session, toClient, client, executed>>

Handled == Arrives /\ (Known(Arrived.act) \/ Of(NoAct) # {})

\* The body is longer than a fragment may be: nothing of it is looked at.
TooLong ==
  LET p == Arrived IN
  /\ Handled /\ p.call.long
  /\ Reply(Packet(p.act, "reject", p.seq))
  /\ Store(At(p.act), [Found(p.act) EXCEPT !.armed = FALSE], ~Known(p.act))
  /\ UNCHANGED <<client, executed>>

\* A fragment that is not the last.  It is acknowledged even when it was not
\* the one awaited and is thrown away.
Fragment ==
  LET p == Arrived IN
  /\ Handled /\ ~p.call.long /\ p.frag /\ ~p.last
  /\ Reply([Packet(p.act, "fack", p.seq) EXCEPT !.num = p.num])
  /\ Store(At(p.act), Collected(Found(p.act), p), FALSE)
  /\ UNCHANGED <<client, executed>>

Whole == Handled /\ ~Arrived.call.long /\ (~Arrived.frag \/ Arrived.last)

Ping ==
  LET p == Arrived IN
  /\ Whole /\ p.type = "ping"
  /\ Reply(Packet(p.act, "pong", p.seq))
  /\ Store(At(p.act), Silent(Collected(Found(p.act), p)), ~Known(p.act))
  /\ UNCHANGED <<client, executed>>

\* What the handlers make of a request that was refused, or served.
Refused(s, c) ==
  {[ar |-> s.ar /\ c.kind # "connect", len |-> Short,
    kill |-> c.kind \in {"connect", "release", "implicit"} \/ ~s.ar]}

Served(s, c) ==
  LET fails == [ar |-> FALSE, kill |-> TRUE, len |-> Short]
      answers == [ar |-> s.ar, kill |-> FALSE, len |-> c.answer]
  IN  CASE c.kind = "connect"  -> IF s.ar THEN {fails} ELSE {fails, [answers EXCEPT !.ar = TRUE]}
        [] c.kind = "record"   -> IF s.ar THEN {answers} ELSE {fails}
        [] c.kind = "implicit" -> {[answers EXCEPT !.kill = TRUE]}
        [] c.kind = "release"  -> {fails}

\* A fragment of an answer is sent, and will be sent again; if it can not be
\* sent it is left at that.
SendWithTimeout(k, s, p, kill) ==
  \E sent \in BOOLEAN :
    /\ IF sent THEN Reply(p) ELSE UNCHANGED toClient
    /\ Store(k, [s EXCEPT !.packet = p, !.resends = Resends - 1, !.armed = sent], kill)

\* Does all of the answer go into one packet?
FitsOne(len) == len < MaxPdu

Respond(k, s, p, h, answer) ==
  LET head == [Packet(p.act, "response", p.seq) EXCEPT !.span = answer]
      t == [s EXCEPT !.ar = h.ar, !.out_len = h.len]
  IN  IF FitsOne(h.len)
        THEN /\ Reply([head EXCEPT !.span.from = Header, !.span.to = h.len])
             /\ Store(k, [t EXCEPT !.send_len = h.len], h.kill)
        ELSE SendWithTimeout(
               k, [t EXCEPT !.send_len = MaxPdu],
               [head EXCEPT !.frag = TRUE, !.span.from = Header, !.span.to = MaxPdu], h.kill)

\* A request.  After a fragment out of turn its own body is taken for the head
\* of the request: that is wrong and nothing is answered, or by chance it
\* looks right and the handler answers that the session is out of step.
Request ==
  LET p == Arrived
      k == At(p.act)
      s == Silent(Collected(Found(p.act), p))
      right == Awaited(Found(p.act), p)
      x == executed[p.act]
      again == IF x.seq = p.seq THEN x.times + 1 ELSE 1
  IN  /\ Whole /\ p.type = "request"
      /\ \/ /\ right
            /\ executed' = [executed EXCEPT ![p.act] =
                 [seq |-> p.seq, times |-> again, call |-> p.call,
                  parts |-> IF p.frag THEN s.parts ELSE << <<p.seq, p.num>> >>]]
            /\ \E h \in Served(s, p.call) :
                 Respond(k, s, p, h,
                   [NoSpan EXCEPT !.seq = p.seq, !.times = again, !.len = h.len])
         \/ /\ ~right
            /\ \E h \in Refused(s, p.call) :
                 Respond(k, s, p, h, [NoSpan EXCEPT !.seq = p.seq, !.len = h.len])
            /\ UNCHANGED executed
         \/ /\ ~right
            /\ Store(k, s, FALSE)
            /\ UNCHANGED <<toClient, executed>>
      /\ UNCHANGED client

\* Mutant: the header of a fragment is counted as data.
AcknowledgedWithHeader(s) == [s EXCEPT !.sent_pos = @ + s.send_len, !.out_nbr = @ + 1]

\* How far the other side is, once it has acknowledged what was sent last.
Acknowledged(s) ==
  [s EXCEPT !.sent_pos = @ + s.send_len - (IF s.out_nbr > 0 THEN Header ELSE 0),
            !.out_nbr = @ + 1]

\* Is what remains the last fragment?
RestFits(rest) == rest < MaxPdu - Header

\* A fragment of the answer is acknowledged; which one is not looked at.  The
\* header of the next is made from that of the acknowledgement.
FragAck ==
  LET p == Arrived
      k == At(p.act)
      s == Acknowledged(Collected(Found(p.act), p))
      rest == s.out_len - s.sent_pos
      size == IF RestFits(rest) THEN rest ELSE MaxPdu - Header
      next == [s.packet EXCEPT !.seq = p.seq, !.num = s.out_nbr, !.last = RestFits(rest),
                               !.span.from = s.sent_pos, !.span.to = s.sent_pos + size]
  IN  /\ Whole /\ p.type = "fack"
      /\ \/ /\ rest > 0
            /\ SendWithTimeout(k, [s EXCEPT !.send_len = size + Header], next, FALSE)
         \/ /\ rest <= 0
            /\ Store(k, Silent(s), FALSE)
            /\ UNCHANGED toClient
      /\ UNCHANGED <<client, executed>>

\* The client cancels: the AR is aborted, the session ends.
Cancel ==
  /\ Whole /\ Arrived.type = "cancel"
  /\ Store(At(Arrived.act), Free, TRUE)
  /\ UNCHANGED <<toClient, client, executed>>
-----------------------------------------------------------------------------
\* pf_cmrpc_send_with_timeout(), called by the scheduler.  After the last time
\* the AR is aborted, which ends the session.
Resend(k) ==
  LET s == session[k] IN
  /\ s.armed
  /\ \/ /\ s.resends > 0
        /\ \E sent \in BOOLEAN :
             /\ IF sent THEN Reply(s.packet) ELSE UNCHANGED toClient
             /\ Store(k, [s EXCEPT !.resends = @ - 1, !.armed = sent], FALSE)
     \/ /\ s.resends = 0
        /\ Store(k, Free, TRUE)
        /\ UNCHANGED toClient
  /\ UNCHANGED <<toDevice, client, executed>>

\* pf_cmrpc_cmdev_state_ind(): the AR is aborted for another reason.
Abort(k) ==
  /\ session[k].ar
  /\ Store(k, Free, TRUE)
  /\ UNCHANGED <<toDevice, toClient, client, executed>>
-----------------------------------------------------------------------------
(* The clients.                                                               *)
Asks(p) == toDevice' \in Sends(toDevice, p)

Bounded ==
  \E b \in Bounds :
    \A a \in Acts : client'[a].seq <= b[a].calls /\ client'[a].tries <= b[a].tries

Call(a, c) ==
  LET t == client[a] IN
  /\ t.phase \in {"idle", "done"}
  /\ client' = [client EXCEPT ![a] =
       [t EXCEPT !.seq = @ + 1, !.phase = "asking", !.call = c, !.part = 0, !.got = <<>>,
                 !.nbr = 0]]
  /\ Bounded
  /\ Asks(Part(a, t.seq + 1, c, 0))
  /\ UNCHANGED <<session, toClient, executed>>

\* It waits no longer: it sends the fragment again, pings, or gives up.
Retry(a) ==
  LET t == client[a] IN
  /\ t.phase \in {"asking", "reading"}
  /\ client' = [client EXCEPT ![a].tries = @ + 1]
  /\ Bounded
  /\ \/ t.phase = "asking" /\ Asks(Part(a, t.seq, t.call, t.part))
     \/ Asks(Packet(a, "ping", t.seq))
  /\ UNCHANGED <<session, toClient, executed>>

GiveUp(a) ==
  LET t == client[a] IN
  /\ t.phase \in {"asking", "reading"}
  /\ client' = [client EXCEPT ![a].phase = "idle"]
  /\ UNCHANGED toDevice \/ Asks(Packet(a, "cancel", t.seq))
  /\ UNCHANGED <<session, toClient, executed>>

\* A packet from the device.
Hears ==
  LET p == Head(toClient)
      t == client[p.act]
      mine == p.seq = t.seq
      waits == t.phase \in {"asking", "reading"}
      ack == [Packet(p.act, "fack", p.seq) EXCEPT !.num = p.num]
      with(phase) == [client EXCEPT ![p.act] =
                        [t EXCEPT !.phase = phase, !.got = Append(@, p.span), !.nbr = @ + 1]]
  IN  /\ toClient # <<>> /\ toClient' = Tail(toClient)
      /\ \/ /\ mine /\ p.type = "fack" /\ t.phase = "asking" /\ p.num = t.part
            /\ client' = [client EXCEPT ![p.act].part = @ + 1]
            /\ Asks(Part(p.act, t.seq, t.call, t.part + 1))
         \/ /\ mine /\ p.type = "response" /\ waits /\ p.num = t.nbr
            /\ client' = with(IF p.frag /\ ~p.last THEN "reading" ELSE "done")
            /\ IF p.frag THEN Asks(ack) ELSE UNCHANGED toDevice
         \/ /\ mine /\ p.type = "response" /\ p.frag /\ p.num < t.nbr
            /\ Asks(ack)
            /\ UNCHANGED client
         \/ /\ mine /\ p.type = "reject" /\ waits
            /\ client' = [client EXCEPT ![p.act].phase = "idle"]
            /\ UNCHANGED toDevice
         \/ UNCHANGED <<client, toDevice>>
      /\ UNCHANGED <<session, executed>>

\* The clients want no more and nothing is under way.
Over ==
  /\ toDevice = <<>> /\ toClient = <<>>
  /\ \A a \in Acts : client[a].phase \in {"idle", "done"}
  /\ UNCHANGED vars

Next ==
  \/ OutOfSessions \/ TooLong \/ Fragment \/ Ping \/ Request \/ FragAck \/ Cancel
  \/ \E k \in 1 .. MaxSess : Resend(k) \/ Abort(k)
  \/ \E a \in Acts : Retry(a) \/ GiveUp(a) \/ (\E c \in Calls : Call(a, c))
  \/ Hears \/ Over

Spec == Init /\ [][Next]_vars
-----------------------------------------------------------------------------
(* Properties.                                                                *)

\* What a handler is given is one request, all of it, its fragments in their
\* order, whatever was lost, sent again, given up or pinged in between: the
\* session is used for one request after the other, and a fragment that was
\* thrown away is acknowledged like one that was taken (pf_cmrpc.c:5108).
RequestWhole ==
  \A a \in Acts :
    LET x == executed[a]
    IN  x.times > 0 => x.parts = [n \in 1 .. x.call.parts |-> <<x.seq, n - 1>>]

\* What a client puts together from the fragments of an answer is an answer to
\* what it asked last, from its first byte on and without a hole, although the
\* device does not look at which fragment was acknowledged (pf_cmrpc.c:4830).
ResponseWhole ==
  \A a \in Acts :
    LET got == client[a].got
    IN  \A n \in 1 .. Len(got) :
          /\ got[n].seq = client[a].seq
          /\ got[n].from = IF n = 1 THEN Header ELSE got[n - 1].to
          /\ got[n].to <= got[n].len
          /\ n = Len(got) /\ client[a].phase = "done" => got[n].to = got[n].len

\* A fragment is sent again only for a session with an AR, which is aborted if
\* that does not help either (pf_cmrpc.c:1143 does not ask whether it has one).
ResendHasAr == \A k \in 1 .. MaxSess : session[k].armed => session[k].ar

(* What is not so.                                                            *)
Quiet == toDevice = <<>> /\ toClient = <<>>

\* A client that reads an answer, and did nothing but ask and acknowledge, is
\* sent the rest.  Not so: an implicit read kills its session with the first
\* fragment (pf_cmrpc.c:3745); an answer that fills its last packet ends
\* without a fragment that says it is the last (pf_cmrpc.c:4758 and 4886); and
\* two acknowledgements of a fragment that was sent twice count for two
\* fragments, of which the second may be lost (pf_cmrpc.c:4830).
AnswersEnd ==
  \A a \in Acts :
    /\ Quiet /\ client[a].phase = "reading" /\ client[a].tries = 0
    /\ client[a].call.kind = "implicit" \/ \E k \in Of(a) : session[k].ar
    => \E k \in Of(a) : session[k].out_len > 0

\* A session without an AR is free again once its client is done.  Not so: a
\* late acknowledgement, a cancelled fragment or a wrong header leaves it in
\* use for good (pf_cmrpc.c:4358).
SessionsReturn ==
  Quiet /\ (\A a \in Acts : client[a].phase \in {"idle", "done"})
    => \A k \in 1 .. MaxSess : session[k].act = NoAct \/ session[k].ar

\* An answer is that of one execution.  Not so: a request that is sent again is
\* executed again (pf_cmrpc.c:4606), in the middle of its answer.
OneExecution ==
  \A a \in Acts :
    LET got == client[a].got
    IN  \A m, n \in 1 .. Len(got) : got[m].times = got[n].times
=============================================================================
