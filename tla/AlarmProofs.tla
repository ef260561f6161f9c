---------------------------- MODULE AlarmProofs ----------------------------
(***************************************************************************)
(* Proofs about Alarm, for every range of the sequence numbers, number of  *)
(* resends, queue size and load: the state is well typed, the frame that   *)
(* is kept agrees with the machines and the timers, no alarm of the        *)
(* application is forgotten while no send fails, and then the device and   *)
(* the controller together implement AlarmService.                         *)
(***************************************************************************)
EXTENDS Alarm, TLAPS

\* One APMX with its ALPMX: what Kept says of it without the timers.
KeptBy(d) == /\ (d.apms = "WTACK") <=> (d.rta # NoFrame)
             /\ d.alpmr = "W_TACK" => d.rta.kind = "answer"

\* Timers are there for what waits for them.
Timed == \A p \in Prios : dev[p].apms = "WTACK" \/ held[p] => armed[p] > 0

\* Nothing is queued for an AR that is not up.
Idle == ~ up => \A p \in Prios : sendQ[p] = << >>

IInv == /\ TypeOK /\ (\A p \in Prios : KeptBy(dev[p])) /\ Timed /\ Idle
        /\ Accounted

-----------------------------------------------------------------------------
(* Data.                                                                    *)

LEMMA Constants ==
  /\ Modulus \in Nat /\ Modulus > 2 /\ Retries \in Nat /\ QueueSize \in Nat
  /\ QueueSize > 0
  /\ 0 \in SeqNums /\ Start \in SeqNums /\ Before \in SeqNums
  /\ 0 \in 0 .. Retries /\ Retries \in 0 .. Retries
BY SizeAssumption DEF SeqNums, Start, Before

\* A number follows every number.
LEMMA NextIsSeqNum == ASSUME NEW s \in SeqNums PROVE NextSeq(s) \in SeqNums
<1>1. s \in Int /\ (s + 1) \in Int  BY Constants DEF SeqNums, Start, Before
<1>2. (s + 1) % Modulus \in 0 .. Modulus - 1  BY <1>1, Constants
<1> QED  BY <1>2, Constants DEF NextSeq, SeqNums

LEMMA NoFrameType == NoFrame \in FrameType
BY Constants DEF NoFrame, FrameType, Kinds

LEMMA StartTypes ==
  /\ Closed \in DevType /\ Activated \in DevType /\ NoCtrl \in CtrlType
  /\ NoApp \in AppType
<1>1. Closed \in DevType
  BY Constants, NoFrameType DEF Closed, DevType
<1>2. Activated \in DevType
  BY <1>1, Constants DEF Activated, DevType
<1>3. NoCtrl \in CtrlType
  BY Constants, NoFrameType DEF NoCtrl, CtrlType
<1>4. NoApp \in AppType
  BY DEF NoApp, AppType
<1> QED  BY <1>1, <1>2, <1>3, <1>4

LEMMA StartKept == KeptBy(Closed) /\ KeptBy(Activated)
BY DEF KeptBy, Closed, Activated, NoFrame

\* What is sent on a wire stays a sequence of frames.
LEMMA SentType ==
  ASSUME NEW wire \in [Prios -> Seq(FrameType)], NEW p \in Prios,
         NEW f \in FrameType
  PROVE  Sent(wire, p, f) \in [Prios -> Seq(FrameType)]
BY DEF Sent

LEMMA AcknowledgedDev ==
  ASSUME NEW d \in DevType, NEW f \in FrameType, KeptBy(d)
  PROVE  /\ Acknowledged(d, f) \in DevType /\ KeptBy(Acknowledged(d, f))
         /\ Acknowledged(d, f).alpmi = d.alpmi
         /\ Acknowledged(d, f).apms = "WTACK" => d.apms = "WTACK"
<1>1. d.seq \in SeqNums /\ NextSeq(d.seq) \in SeqNums
  BY NextIsSeqNum DEF DevType
<1>2. Acknowledged(d, f) \in DevType
  BY <1>1, NoFrameType DEF Acknowledged, DevType
<1> QED  BY <1>2 DEF Acknowledged, DevType, KeptBy

LEMMA TakenDev ==
  ASSUME NEW d \in DevType, NEW f \in FrameType, KeptBy(d)
  PROVE  /\ Taken(d, f) \in DevType /\ KeptBy(Taken(d, f))
         /\ Taken(d, f).alpmi = d.alpmi
         /\ Taken(d, f).apms = "WTACK" => d.apms = "WTACK"
<1> DEFINE a == Acknowledged(d, f)
<1>1. /\ a \in DevType /\ KeptBy(a) /\ a.alpmi = d.alpmi
      /\ a.apms = "WTACK" => d.apms = "WTACK"
  BY AcknowledgedDev
<1>2. d.exp \in SeqNums /\ NextSeq(d.exp) \in SeqNums
  BY NextIsSeqNum DEF DevType
<1>3. Taken(d, f) = [a EXCEPT !.expO = d.exp, !.exp = NextSeq(d.exp)]
  BY DEF Taken
<1> HIDE DEF a
<1> QED  BY <1>1, <1>2, <1>3 DEF DevType, KeptBy

LEMMA DeliveredDev ==
  ASSUME NEW d \in DevType, NEW f \in FrameType, KeptBy(d),
         f.kind = "notify" => d.alpmr = "W_NOTIFY"
  PROVE  /\ Delivered(d, f) \in DevType /\ KeptBy(Delivered(d, f))
         /\ Delivered(d, f).apms = d.apms
BY DEF Delivered, DevType, KeptBy

\* The frame that goes out when APMS is OPEN is kept.
LEMMA WaitingDev ==
  ASSUME NEW d \in DevType, KeptBy(d), d.apms = "OPEN",
         NEW kind \in {"notify", "answer"}, NEW id \in Nat,
         NEW f, f = Data(d, kind, id)
  PROVE  /\ f \in FrameType /\ Waiting(d, f) \in DevType
         /\ KeptBy(Waiting(d, f))
         /\ Waiting(d, f).alpmi = d.alpmi /\ d.alpmr # "W_TACK"
<1>1. f \in FrameType /\ f.kind = kind
  BY DEF Data, FrameType, Kinds, DataKinds, DevType
<1>2. f # NoFrame
  BY <1>1 DEF NoFrame
<1>3. d.alpmr # "W_TACK"
  BY DEF KeptBy, NoFrame
<1>4. Waiting(d, f) \in DevType
  BY <1>1, Constants DEF Waiting, DevType
<1> QED  BY <1>1, <1>2, <1>3, <1>4 DEF Waiting, KeptBy, DevType

LEMMA TackFrames ==
  ASSUME NEW d \in DevType
  PROVE  Tack(d) \in FrameType /\ Nack(d) \in FrameType
BY DEF Tack, Nack, FrameType, Kinds, DevType

LEMMA CtrlAckedType ==
  ASSUME NEW c \in CtrlType, NEW f \in FrameType
  PROVE  CtrlAcked(c, f) \in CtrlType
<1>1. c.seq \in SeqNums /\ NextSeq(c.seq) \in SeqNums
  BY NextIsSeqNum DEF CtrlType
<1> QED  BY <1>1, NoFrameType DEF CtrlAcked, CtrlType

LEMMA CtrlTakenType ==
  ASSUME NEW c \in CtrlType, NEW f \in FrameType
  PROVE  CtrlTaken(c, f) \in CtrlType
<1> DEFINE a == CtrlAcked(c, f)
           d == [a EXCEPT !.expO = c.exp, !.exp = NextSeq(c.exp)]
<1>1. a \in CtrlType  BY CtrlAckedType
<1>2. c.exp \in SeqNums /\ NextSeq(c.exp) \in SeqNums
  BY NextIsSeqNum DEF CtrlType
<1> HIDE DEF a
<1>3. d \in CtrlType  BY <1>1, <1>2 DEF CtrlType
<1>4. CtrlTaken(c, f) = IF f.kind = "notify" THEN [d EXCEPT !.got = f.id]
                                             ELSE [d EXCEPT !.answered = f.id]
  BY DEF CtrlTaken, a
<1>5. f.id \in Nat  BY DEF FrameType
<1> HIDE DEF d
<1> QED  BY <1>3, <1>4, <1>5 DEF CtrlType

-----------------------------------------------------------------------------
(* The shapes of a step.                                                    *)

\* Only the controller and the wires move.
LEMMA OutsideStep ==
  ASSUME IInv, UNCHANGED device, ctrl' \in [Prios -> CtrlType],
         toCtrl' \in [Prios -> Seq(FrameType)],
         toDev' \in [Prios -> Seq(FrameType)]
  PROVE  IInv'
<1> USE DEF device
<1>1. TypeOK'  BY DEF IInv, TypeOK
<1>2. (\A p \in Prios : KeptBy(dev[p]))'  BY DEF IInv, KeptBy
<1>3. Timed' /\ Idle' /\ Accounted'  BY DEF IInv, Timed, Idle, Accounted
<1> QED  BY <1>1, <1>2, <1>3 DEF IInv

\* The AR ends, with the timers arm and the handles hold.
LEMMA CloseStep ==
  ASSUME IInv, NEW arm \in [Prios -> Nat], NEW hold \in [Prios -> BOOLEAN],
         \A p \in Prios : hold[p] => arm[p] > 0,
         CloseWith(arm, hold), crashed' \in BOOLEAN
  PROVE  IInv'
<1> USE DEF CloseWith, All
<1>1. armed' \in [Prios -> Nat]  BY DEF TimersLeft
<1>2. /\ dev' = [p \in Prios |-> Closed] /\ ctrl' = [p \in Prios |-> NoCtrl]
      /\ app' = [p \in Prios |-> NoApp]
      /\ dev' \in [Prios -> DevType] /\ ctrl' \in [Prios -> CtrlType]
      /\ app' \in [Prios -> AppType]
  BY StartTypes
<1>3. /\ sendQ' = [p \in Prios |-> << >>] /\ recvQ' = [p \in Prios |-> << >>]
      /\ toCtrl' \in [Prios -> Seq(FrameType)]
      /\ toDev' \in [Prios -> Seq(FrameType)]
  OBVIOUS
<1>4. TypeOK'
  <2>1. /\ sendQ' \in [Prios -> Seq(Nat)] /\ recvQ' \in [Prios -> Seq(FrameType)]
        /\ \A p \in Prios : Len(sendQ'[p]) = 0 /\ Len(recvQ'[p]) = 0
    BY <1>3
  <2>2. /\ load' \in Loads /\ up' \in BOOLEAN /\ enabled' \in BOOLEAN
        /\ failed' \in BOOLEAN /\ held' \in [Prios -> BOOLEAN]
    BY DEF IInv, TypeOK
  <2> QED  BY <1>1, <1>2, <1>3, <2>1, <2>2, Constants DEF TypeOK
<1>5. (\A p \in Prios : KeptBy(dev[p]))'
  BY <1>2, StartKept DEF KeptBy
<1>6. Timed'
  <2>1. \A p \in Prios : dev'[p].apms = "CLOSED" /\ held'[p] = FALSE
    BY <1>2 DEF Closed
  <2> QED  BY <2>1 DEF Timed
<1>7. Idle' /\ Accounted'
  BY <1>3 DEF Idle, Accounted
<1> QED  BY <1>4, <1>5, <1>6, <1>7 DEF IInv

\* One APMX becomes d; what is sent, queued and told is typed.
LEMMA DevStep ==
  ASSUME IInv, NEW p \in Prios, NEW d \in DevType, KeptBy(d),
         dev' = [dev EXCEPT ![p] = d],
         UNCHANGED <<load, up, enabled, ctrl, crashed, toDev>>,
         failed' \in BOOLEAN, app' \in [Prios -> AppType],
         armed' \in [Prios -> Nat], held' \in [Prios -> BOOLEAN],
         sendQ' \in [Prios -> Seq(Nat)], recvQ' \in [Prios -> Seq(FrameType)],
         \A q \in Prios : /\ Len(sendQ'[q]) <= QueueSize
                          /\ Len(recvQ'[q]) <= QueueSize,
         toCtrl' \in [Prios -> Seq(FrameType)],
         Timed', Idle', Accounted'
  PROVE  IInv'
<1>1. dev' \in [Prios -> DevType] /\ \A q \in Prios : KeptBy(dev'[q])
  BY DEF IInv, TypeOK
<1>2. TypeOK'
  BY <1>1 DEF IInv, TypeOK
<1>3. (\A q \in Prios : KeptBy(dev[q]))'
  BY <1>1 DEF KeptBy
<1> QED  BY <1>2, <1>3 DEF IInv

-----------------------------------------------------------------------------
(* The start, the application and the timers.                               *)

LEMMA InitInv == Init => IInv
<1> SUFFICES ASSUME Init PROVE IInv  OBVIOUS
<1> USE DEF Init, All
<1>1. TypeOK
  <2>1. /\ dev \in [Prios -> DevType] /\ ctrl \in [Prios -> CtrlType]
        /\ app \in [Prios -> AppType]
    BY StartTypes
  <2>2. /\ sendQ = [p \in Prios |-> << >>] /\ recvQ = [p \in Prios |-> << >>]
        /\ toCtrl = [p \in Prios |-> << >>] /\ toDev = [p \in Prios |-> << >>]
    OBVIOUS
  <2>3. /\ sendQ \in [Prios -> Seq(Nat)] /\ recvQ \in [Prios -> Seq(FrameType)]
        /\ toCtrl \in [Prios -> Seq(FrameType)]
        /\ toDev \in [Prios -> Seq(FrameType)]
        /\ \A p \in Prios : Len(sendQ[p]) = 0 /\ Len(recvQ[p]) = 0
    BY <2>2
  <2>4. armed \in [Prios -> Nat] /\ held \in [Prios -> BOOLEAN]
    OBVIOUS
  <2>5. \A p \in Prios : Len(sendQ[p]) <= QueueSize /\ Len(recvQ[p]) <= QueueSize
    BY <2>3, Constants
  <2>6. /\ load \in Loads /\ up \in BOOLEAN /\ enabled \in BOOLEAN
        /\ failed \in BOOLEAN /\ crashed \in BOOLEAN
    OBVIOUS
  <2> HIDE DEF Init, All
  <2> QED  BY <2>1, <2>3, <2>4, <2>5, <2>6 DEF TypeOK
<1>2. \A p \in Prios : KeptBy(dev[p])
  BY StartKept
<1>3. Timed /\ Idle /\ Accounted
  BY DEF Timed, Idle, Accounted, Closed
<1> QED  BY <1>1, <1>2, <1>3 DEF IInv

LEMMA ActivateInv == IInv /\ Activate => IInv'
<1> SUFFICES ASSUME IInv, Activate PROVE IInv'  OBVIOUS
<1> USE DEF Activate, All
<1>1. TypeOK'
  <2>1. /\ dev' \in [Prios -> DevType] /\ ctrl' \in [Prios -> CtrlType]
        /\ app' \in [Prios -> AppType]
    BY StartTypes
  <2>2. /\ toCtrl' = [p \in Prios |-> << >>] /\ toDev' = [p \in Prios |-> << >>]
    OBVIOUS
  <2>3. /\ toCtrl' \in [Prios -> Seq(FrameType)]
        /\ toDev' \in [Prios -> Seq(FrameType)]
    BY <2>2
  <2>4. held' \in [Prios -> BOOLEAN]
    OBVIOUS
  <2> QED  BY <2>1, <2>3, <2>4 DEF IInv, TypeOK
<1>2. (\A p \in Prios : KeptBy(dev[p]))'
  BY StartKept DEF KeptBy
<1>3. \A p \in Prios : /\ dev'[p].apms = "OPEN" /\ dev'[p].alpmi = "W_ALARM"
                       /\ held'[p] = FALSE /\ sendQ'[p] = << >>
                       /\ app'[p].posted = 0 /\ app'[p].confirmed = 0
  BY DEF IInv, Idle, Activated, Closed, NoApp
<1>4. Timed' /\ Idle' /\ Accounted'
  BY <1>3 DEF Timed, Idle, Accounted
<1> QED  BY <1>1, <1>2, <1>4 DEF IInv

LEMMA EnableInv == IInv /\ Enable => IInv'
<1> SUFFICES ASSUME IInv, Enable PROVE IInv'  OBVIOUS
<1> USE DEF Enable
<1>1. TypeOK'  BY DEF IInv, TypeOK
<1>2. (\A p \in Prios : KeptBy(dev[p]))'  BY DEF IInv, KeptBy
<1>3. Timed' /\ Idle' /\ Accounted'  BY DEF IInv, Timed, Idle, Accounted
<1> QED  BY <1>1, <1>2, <1>3 DEF IInv

LEMMA CloseInv == IInv /\ Close /\ crashed' \in BOOLEAN => IInv'
BY CloseStep DEF Close, IInv, TypeOK, Timed

LEMMA PostInv == ASSUME IInv, NEW p \in Prios, Post(p) PROVE IInv'
<1> USE DEF Post
<1>1. /\ app' \in [Prios -> AppType] /\ sendQ' \in [Prios -> Seq(Nat)]
      /\ \A q \in Prios : Len(sendQ'[q]) <= QueueSize
  <2>1. app[p] \in AppType /\ sendQ[p] \in Seq(Nat) /\ Len(sendQ[p]) < QueueSize
    BY DEF IInv, TypeOK
  <2>2. app[p].posted + 1 \in Nat
    BY <2>1 DEF AppType
  <2>3. [app[p] EXCEPT !.posted = app[p].posted + 1] \in AppType
    BY <2>1, <2>2 DEF AppType
  <2>4. app' \in [Prios -> AppType]
    BY <2>3 DEF IInv, TypeOK
  <2>5. /\ Append(sendQ[p], app[p].posted + 1) \in Seq(Nat)
        /\ Len(Append(sendQ[p], app[p].posted + 1)) <= QueueSize
    BY <2>1, <2>2, Constants
  <2> QED  BY <2>4, <2>5 DEF IInv, TypeOK
<1>2. TypeOK'  BY <1>1 DEF IInv, TypeOK
<1>3. (\A q \in Prios : KeptBy(dev[q]))'  BY DEF IInv, KeptBy
<1>4. Timed' /\ Idle'  BY DEF IInv, Timed, Idle
<1>5. Accounted'
  <2>1. \A q \in Prios : q # p => app'[q] = app[q] /\ sendQ'[q] = sendQ[q]
    BY DEF IInv, TypeOK
  <2>2. /\ app'[p].posted = app[p].posted + 1
        /\ app'[p].confirmed = app[p].confirmed
        /\ Len(sendQ'[p]) = Len(sendQ[p]) + 1
    BY DEF IInv, TypeOK, AppType
  <2>3. \A q \in Prios : /\ app[q].posted \in Nat /\ app[q].confirmed \in Nat
                         /\ Len(sendQ[q]) \in Nat
    <3> SUFFICES ASSUME NEW q \in Prios
                 PROVE  /\ app[q].posted \in Nat /\ app[q].confirmed \in Nat
                        /\ Len(sendQ[q]) \in Nat
      OBVIOUS
    <3>1. app[q] \in AppType /\ sendQ[q] \in Seq(Nat)  BY DEF IInv, TypeOK
    <3> QED  BY <3>1 DEF AppType
  <2>4. UNCHANGED <<up, failed, dev>>  OBVIOUS
  <2> SUFFICES ASSUME NEW q \in Prios, up, ~ failed
               PROVE  app'[q].posted = Len(sendQ'[q]) + app'[q].confirmed
                        + (IF dev[q].alpmi = "W_ACK" THEN 1 ELSE 0)
    BY <2>4 DEF Accounted
  <2>5. app[q].posted = Len(sendQ[q]) + app[q].confirmed
                        + (IF dev[q].alpmi = "W_ACK" THEN 1 ELSE 0)
    BY DEF IInv, Accounted
  <2>6. CASE q = p  BY ONLY q = p, p \in Prios, <2>2, <2>3, <2>5, <2>6
  <2>7. CASE q # p  BY ONLY q \in Prios, <2>1, <2>5, <2>7
  <2> QED  BY <2>6, <2>7
<1> QED  BY <1>2, <1>3, <1>4, <1>5 DEF IInv

\* A frame is kept and its timer armed.
LEMMA ArmTypes ==
  ASSUME IInv, NEW p \in Prios, Arm(p)
  PROVE  /\ armed' \in [Prios -> Nat] /\ held' \in [Prios -> BOOLEAN]
         /\ armed'[p] > 0
         /\ \A q \in Prios : q # p => armed'[q] = armed[q] /\ held'[q] = held[q]
<1>1. armed \in [Prios -> Nat] /\ held \in [Prios -> BOOLEAN]
  BY DEF IInv, TypeOK
<1> QED  BY <1>1 DEF Arm

LEMMA SendAlarmInv ==
  ASSUME IInv, NEW p \in Prios, SendAlarm(p)
  PROVE  IInv'
<1>1. PICK sent \in BOOLEAN :
        LET f == Data(dev[p], "notify", Head(sendQ[p]))
        IN /\ Transmit(p, f, sent)
           /\ dev' = [dev EXCEPT ![p] =
                IF sent THEN [Waiting(dev[p], f) EXCEPT !.alpmi = "W_ACK"]
                        ELSE Waiting(dev[p], f)]
  BY DEF SendAlarm
<1> DEFINE f == Data(dev[p], "notify", Head(sendQ[p]))
           w == Waiting(dev[p], f)
           d == IF sent THEN [w EXCEPT !.alpmi = "W_ACK"] ELSE w
<1>2. /\ dev[p] \in DevType /\ KeptBy(dev[p]) /\ sendQ[p] \in Seq(Nat)
      /\ sendQ[p] # << >> /\ dev[p].apms = "OPEN" /\ dev[p].alpmi = "W_ALARM"
      /\ up
  BY DEF IInv, TypeOK, SendAlarm, Fetches
<1>3. /\ Head(sendQ[p]) \in Nat /\ Tail(sendQ[p]) \in Seq(Nat)
      /\ Len(Tail(sendQ[p])) = Len(sendQ[p]) - 1 /\ Len(sendQ[p]) \in Nat
  BY <1>2
<1>4. /\ f \in FrameType /\ w \in DevType /\ KeptBy(w)
      /\ w.alpmi = dev[p].alpmi
  BY <1>2, <1>3, WaitingDev
<1> HIDE DEF w
<1>5. /\ d \in DevType /\ KeptBy(d)
      /\ d.alpmi = IF sent THEN "W_ACK" ELSE "W_ALARM"
  BY <1>2, <1>4 DEF DevType, KeptBy
<1>6. dev' = [dev EXCEPT ![p] = d] /\ dev'[p] = d
      /\ \A q \in Prios : q # p => dev'[q] = dev[q]
  BY <1>1 DEF IInv, TypeOK, w
<1> HIDE DEF d
<1>7. Arm(p) /\ failed' = (failed \/ ~ sent)
      /\ toCtrl' = IF sent THEN Sent(toCtrl, p, f) ELSE toCtrl
  BY <1>1 DEF Transmit
<1> HIDE DEF f
<1>8. toCtrl' \in [Prios -> Seq(FrameType)]
  BY <1>4, <1>7, SentType DEF IInv, TypeOK
<1>9. /\ sendQ' = [sendQ EXCEPT ![p] = Tail(sendQ[p])]
      /\ UNCHANGED <<load, up, enabled, recvQ, toDev, ctrl, app, crashed>>
  BY DEF SendAlarm
<1>10. /\ sendQ' \in [Prios -> Seq(Nat)] /\ sendQ'[p] = Tail(sendQ[p])
       /\ \A q \in Prios : q # p => sendQ'[q] = sendQ[q]
  BY <1>3, <1>9 DEF IInv, TypeOK
<1>11. \A q \in Prios : /\ Len(sendQ'[q]) <= QueueSize
                        /\ Len(recvQ'[q]) <= QueueSize
  BY <1>3, <1>9, <1>10, Constants DEF IInv, TypeOK
<1>12. Timed'
  BY <1>6, <1>7, ArmTypes DEF IInv, Timed
<1>13. Idle'
  BY <1>2, <1>9 DEF Idle
<1>14. Accounted'
  <2> SUFFICES ASSUME NEW q \in Prios, ~ failed', up'
               PROVE  app'[q].posted = Len(sendQ'[q]) + app'[q].confirmed
                        + (IF dev'[q].alpmi = "W_ACK" THEN 1 ELSE 0)
    BY DEF Accounted
  <2>1. sent /\ ~ failed
    BY <1>7
  <2>2. app[q].posted = Len(sendQ[q]) + app[q].confirmed
                        + (IF dev[q].alpmi = "W_ACK" THEN 1 ELSE 0)
    BY <1>2, <2>1 DEF IInv, Accounted
  <2>3. app[q].posted \in Nat /\ app[q].confirmed \in Nat
    BY DEF IInv, TypeOK, AppType
  <2>4. CASE q = p
    BY <2>1, <2>2, <2>3, <2>4, <1>2, <1>3, <1>5, <1>6, <1>9, <1>10
  <2>5. CASE q # p
    BY <2>2, <2>5, <1>6, <1>9, <1>10
  <2> QED  BY <2>4, <2>5
<1> QED
  <2>1. failed' \in BOOLEAN /\ app' \in [Prios -> AppType]
        /\ recvQ' \in [Prios -> Seq(FrameType)]
    BY <1>7, <1>9 DEF IInv, TypeOK
  <2> QED
    BY <1>5, <1>6, <1>7, <1>8, <1>9, <1>10, <1>11, <1>12, <1>13, <1>14, <2>1,
       ArmTypes, DevStep

\* A step that leaves queues, counts and ALPMI alone leaves the accounts so.
LEMMA StillAccounted ==
  ASSUME IInv, UNCHANGED <<up, sendQ, app>>, failed => failed',
         \A q \in Prios : dev'[q].alpmi = dev[q].alpmi
  PROVE  Idle' /\ Accounted'
BY DEF IInv, Idle, Accounted

LEMMA SendAnswerInv == ASSUME IInv, SendAnswer PROVE IInv'
<1> DEFINE p == "high"
           f == Data(dev[p], "answer", app[p].indicated)
           w == Waiting(dev[p], f)
           d == [w EXCEPT !.alpmr = "W_TACK"]
<1>1. PICK sent \in BOOLEAN :
        /\ Transmit(p, f, sent) /\ dev' = [dev EXCEPT ![p] = d]
  BY DEF SendAnswer
<1>2. /\ p \in Prios /\ dev[p] \in DevType /\ KeptBy(dev[p])
      /\ dev[p].apms = "OPEN" /\ app[p].indicated \in Nat
  BY DEF IInv, TypeOK, SendAnswer, Prios, AppType
<1>3. /\ f \in FrameType /\ w \in DevType /\ KeptBy(w)
      /\ w.alpmi = dev[p].alpmi /\ w.rta = f
  <2> DEFINE d0 == dev[p]   i == app[p].indicated
  <2>1. d0 \in DevType /\ KeptBy(d0) /\ d0.apms = "OPEN" /\ i \in Nat
    BY <1>2
  <2>2. "answer" \in {"notify", "answer"} /\ f = Data(d0, "answer", i)
    OBVIOUS
  <2> HIDE DEF f, d0, i
  <2>3. /\ f \in FrameType /\ Waiting(d0, f) \in DevType
        /\ KeptBy(Waiting(d0, f)) /\ Waiting(d0, f).alpmi = d0.alpmi
    BY <2>1, <2>2, WaitingDev
  <2>4. Waiting(d0, f).rta = f
    BY <2>1 DEF Waiting, DevType
  <2> QED  BY <2>3, <2>4 DEF d0
<1>4. f.kind = "answer"
  BY DEF Data
<1>5. Arm(p) /\ failed' = (failed \/ ~ sent)
      /\ toCtrl' = IF sent THEN Sent(toCtrl, p, f) ELSE toCtrl
  BY <1>1 DEF Transmit
<1> HIDE DEF f, w
<1>6. d \in DevType /\ KeptBy(d) /\ d.alpmi = dev[p].alpmi
  BY <1>3, <1>4 DEF DevType, KeptBy
<1> HIDE DEF d
<1>7. /\ dev'[p] = d /\ \A q \in Prios : q # p => dev'[q] = dev[q]
  BY <1>1, <1>2 DEF IInv, TypeOK
<1> HIDE DEF p
<1>8. toCtrl' \in [Prios -> Seq(FrameType)]
  BY <1>2, <1>3, <1>5, SentType DEF IInv, TypeOK
<1>9. UNCHANGED <<load, up, enabled, sendQ, recvQ, toDev, ctrl, app, crashed>>
  BY DEF SendAnswer
<1>10. Timed'
  BY <1>2, <1>5, <1>7, ArmTypes DEF IInv, Timed
<1>11. Idle' /\ Accounted'
  <2>1. failed => failed'
    BY <1>5
  <2>2. \A q \in Prios : dev'[q].alpmi = dev[q].alpmi
    BY <1>6, <1>7
  <2> QED  BY <1>9, <2>1, <2>2, StillAccounted
<1> QED
  <2>1. /\ failed' \in BOOLEAN /\ app' \in [Prios -> AppType]
        /\ sendQ' \in [Prios -> Seq(Nat)] /\ recvQ' \in [Prios -> Seq(FrameType)]
        /\ \A q \in Prios : /\ Len(sendQ'[q]) <= QueueSize
                            /\ Len(recvQ'[q]) <= QueueSize
    BY <1>5, <1>9 DEF IInv, TypeOK
  <2> QED
    BY <1>1, <1>2, <1>5, <1>6, <1>8, <1>9, <1>10, <1>11, <2>1, ArmTypes, DevStep

LEMMA ResendInv == ASSUME IInv, NEW p \in Prios, Resend(p) PROVE IInv'
<1> DEFINE d == [dev[p] EXCEPT !.resends = dev[p].resends - 1]
<1>1. /\ dev[p] \in DevType /\ KeptBy(dev[p]) /\ dev[p].resends # 0
      /\ armed[p] > 0
  BY DEF IInv, TypeOK, Resend, GivesUp
<1>2. d \in DevType /\ KeptBy(d) /\ d.alpmi = dev[p].alpmi
      /\ d.apms = dev[p].apms
  BY <1>1, Constants DEF DevType, KeptBy
<1>3. dev' = [dev EXCEPT ![p] = d]
  BY DEF Resend
<1> HIDE DEF d
<1>4. dev'[p] = d /\ \A q \in Prios : q # p => dev'[q] = dev[q]
  BY <1>3 DEF IInv, TypeOK
<1>5. /\ toCtrl' = Sent(toCtrl, p, dev[p].rta) /\ held' = [held EXCEPT ![p] = TRUE]
      /\ UNCHANGED <<load, up, enabled, sendQ, recvQ, armed, toDev, ctrl, app,
                     failed, crashed>>
  BY DEF Resend
<1>6. toCtrl' \in [Prios -> Seq(FrameType)] /\ held' \in [Prios -> BOOLEAN]
  <2>1. dev[p].rta \in FrameType
    BY <1>1 DEF DevType
  <2> QED  BY <1>5, <2>1, SentType DEF IInv, TypeOK
<1>7. Timed'
  BY <1>1, <1>2, <1>4, <1>5 DEF IInv, TypeOK, Timed
<1>8. Idle' /\ Accounted'
  <2>1. \A q \in Prios : dev'[q].alpmi = dev[q].alpmi
    BY <1>2, <1>4
  <2> QED  BY <1>5, <2>1, StillAccounted
<1> QED
  <2>1. /\ failed' \in BOOLEAN /\ app' \in [Prios -> AppType]
        /\ armed' \in [Prios -> Nat]
        /\ sendQ' \in [Prios -> Seq(Nat)] /\ recvQ' \in [Prios -> Seq(FrameType)]
        /\ \A q \in Prios : /\ Len(sendQ'[q]) <= QueueSize
                            /\ Len(recvQ'[q]) <= QueueSize
    BY <1>5 DEF IInv, TypeOK
  <2> QED  BY <1>2, <1>3, <1>5, <1>6, <1>7, <1>8, <2>1, DevStep

LEMMA SendExpiresInv == ASSUME IInv, NEW p \in Prios, SendExpires(p) PROVE IInv'
<1> DEFINE arm == [armed EXCEPT ![p] = armed[p] - 1]
           hold == [held EXCEPT ![p] = FALSE]
<1>1. CloseWith(arm, hold) /\ armed[p] > 0 /\ crashed' = crashed
  BY DEF SendExpires
<1>2. /\ armed \in [Prios -> Nat] /\ held \in [Prios -> BOOLEAN]
      /\ crashed \in BOOLEAN /\ \A q \in Prios : held[q] => armed[q] > 0
  BY DEF IInv, TypeOK, Timed
<1>3. /\ arm \in [Prios -> Nat] /\ hold \in [Prios -> BOOLEAN]
      /\ \A q \in Prios : hold[q] => arm[q] > 0
  BY <1>1, <1>2
<1> HIDE DEF arm, hold
<1> QED  BY <1>1, <1>2, <1>3, CloseStep

LEMMA TimerEndsInv == ASSUME IInv, NEW p \in Prios, TimerEnds(p) PROVE IInv'
<1> DEFINE d == [dev[p] EXCEPT !.rta = NoFrame]
<1>1. /\ dev[p] \in DevType /\ KeptBy(dev[p]) /\ dev[p].apms # "WTACK"
      /\ armed[p] > 0
  BY DEF IInv, TypeOK, TimerEnds
<1>2. d \in DevType /\ KeptBy(d) /\ d.alpmi = dev[p].alpmi
      /\ d.apms = dev[p].apms
  BY <1>1, NoFrameType DEF DevType, KeptBy
<1>3. dev' = [dev EXCEPT ![p] = d]
  BY DEF TimerEnds
<1> HIDE DEF d
<1>4. dev'[p] = d /\ \A q \in Prios : q # p => dev'[q] = dev[q]
  BY <1>3 DEF IInv, TypeOK
<1>5. /\ armed' = [armed EXCEPT ![p] = armed[p] - 1]
      /\ held' = [held EXCEPT ![p] = FALSE]
      /\ UNCHANGED <<load, up, enabled, sendQ, recvQ, toCtrl, toDev, ctrl, app,
                     failed, crashed>>
  BY DEF TimerEnds
<1>6. armed' \in [Prios -> Nat] /\ held' \in [Prios -> BOOLEAN]
  BY <1>1, <1>5 DEF IInv, TypeOK
<1>7. Timed'
  BY <1>1, <1>2, <1>4, <1>5 DEF IInv, TypeOK, Timed
<1>8. Idle' /\ Accounted'
  <2>1. \A q \in Prios : dev'[q].alpmi = dev[q].alpmi
    BY <1>2, <1>4
  <2> QED  BY <1>5, <2>1, StillAccounted
<1> QED
  <2>1. /\ failed' \in BOOLEAN /\ app' \in [Prios -> AppType]
        /\ toCtrl' \in [Prios -> Seq(FrameType)]
        /\ sendQ' \in [Prios -> Seq(Nat)] /\ recvQ' \in [Prios -> Seq(FrameType)]
        /\ \A q \in Prios : /\ Len(sendQ'[q]) <= QueueSize
                            /\ Len(recvQ'[q]) <= QueueSize
    BY <1>5 DEF IInv, TypeOK
  <2> QED  BY <1>2, <1>3, <1>5, <1>6, <1>7, <1>8, <2>1, DevStep

-----------------------------------------------------------------------------
(* The receiver.                                                            *)

LEMMA ArriveInv == ASSUME IInv, NEW p \in Prios, Arrive(p) PROVE IInv'
<1> USE DEF Arrive
<1>1. toDev[p] \in Seq(FrameType) /\ toDev[p] # << >>
  BY DEF IInv, TypeOK
<1>2. Head(toDev[p]) \in FrameType /\ Tail(toDev[p]) \in Seq(FrameType)
  BY <1>1
<1>3. toDev' \in [Prios -> Seq(FrameType)]
  BY <1>2 DEF IInv, TypeOK
<1>4. /\ recvQ' \in [Prios -> Seq(FrameType)]
      /\ \A q \in Prios : Len(recvQ'[q]) <= QueueSize
  <2>1. /\ recvQ[p] \in Seq(FrameType) /\ Len(recvQ[p]) \in Nat
        /\ Append(recvQ[p], Head(toDev[p])) \in Seq(FrameType)
        /\ Len(Append(recvQ[p], Head(toDev[p]))) = Len(recvQ[p]) + 1
    BY <1>2 DEF IInv, TypeOK
  <2> QED  BY <2>1, Constants DEF IInv, TypeOK
<1>5. TypeOK'  BY <1>3, <1>4 DEF IInv, TypeOK
<1>6. (\A q \in Prios : KeptBy(dev[q]))'  BY DEF IInv, KeptBy
<1>7. Timed' /\ Idle' /\ Accounted'  BY DEF IInv, Timed, Idle, Accounted
<1> QED  BY <1>5, <1>6, <1>7 DEF IInv

\* The frame taken out of the queue, and what is left.
LEMMA FetchedFrame ==
  ASSUME IInv, NEW p \in Prios, Fetched(p), Rest(p)
  PROVE  /\ Head(recvQ[p]) \in FrameType
         /\ recvQ' \in [Prios -> Seq(FrameType)]
         /\ \A q \in Prios : Len(recvQ'[q]) <= QueueSize
         /\ dev[p] \in DevType /\ KeptBy(dev[p])
<1>1. recvQ[p] \in Seq(FrameType) /\ recvQ[p] # << >>
  BY DEF IInv, TypeOK, Fetched
<1>2. /\ Head(recvQ[p]) \in FrameType /\ Tail(recvQ[p]) \in Seq(FrameType)
      /\ Len(Tail(recvQ[p])) = Len(recvQ[p]) - 1 /\ Len(recvQ[p]) \in Nat
  BY <1>1
<1> QED  BY <1>2, Constants DEF IInv, TypeOK, Rest

\* A frame that leaves queue of alarms, counts and ALPMI alone, and that at
\* most ends a wait for a TACK.
LEMMA FrameStep ==
  ASSUME IInv, NEW p \in Prios, Fetched(p), Rest(p),
         NEW d \in DevType, KeptBy(d), d.alpmi = dev[p].alpmi,
         d.apms = "WTACK" => dev[p].apms = "WTACK",
         dev' = [dev EXCEPT ![p] = d],
         toCtrl' \in [Prios -> Seq(FrameType)],
         failed' \in BOOLEAN, failed => failed',
         UNCHANGED <<load, up, enabled, sendQ, armed, held, toDev, ctrl, app,
                     crashed>>
  PROVE  IInv'
<1>1. dev'[p] = d /\ \A q \in Prios : q # p => dev'[q] = dev[q]
  BY DEF IInv, TypeOK
<1>2. Timed'
  BY <1>1 DEF IInv, Timed
<1>3. Idle' /\ Accounted'
  <2>1. \A q \in Prios : dev'[q].alpmi = dev[q].alpmi
    BY <1>1
  <2> QED  BY <2>1, StillAccounted
<1>4. /\ app' \in [Prios -> AppType] /\ sendQ' \in [Prios -> Seq(Nat)]
      /\ armed' \in [Prios -> Nat] /\ held' \in [Prios -> BOOLEAN]
      /\ recvQ' \in [Prios -> Seq(FrameType)]
      /\ \A q \in Prios : /\ Len(sendQ'[q]) <= QueueSize
                          /\ Len(recvQ'[q]) <= QueueSize
  BY FetchedFrame DEF IInv, TypeOK
<1> QED  BY <1>2, <1>3, <1>4, DevStep

LEMMA AckInv == ASSUME IInv, NEW p \in Prios, Ack(p) PROVE IInv'
<1> DEFINE d == Acknowledged(dev[p], Head(recvQ[p]))
<1>1. /\ Fetched(p) /\ Rest(p) /\ dev' = [dev EXCEPT ![p] = d]
      /\ UNCHANGED <<load, up, enabled, sendQ, armed, held, toCtrl, toDev, ctrl,
                     app, failed, crashed>>
  BY DEF Ack
<1>2. /\ d \in DevType /\ KeptBy(d) /\ d.alpmi = dev[p].alpmi
      /\ d.apms = "WTACK" => dev[p].apms = "WTACK"
  BY <1>1, FetchedFrame, AcknowledgedDev
<1>3. /\ toCtrl' \in [Prios -> Seq(FrameType)]
      /\ failed' \in BOOLEAN /\ (failed => failed')
  BY <1>1 DEF IInv, TypeOK
<1> HIDE DEF d
<1> QED  BY <1>1, <1>2, <1>3, FrameStep

LEMMA IgnoreInv == ASSUME IInv, NEW p \in Prios, Ignore(p) PROVE IInv'
<1>1. /\ Fetched(p) /\ Rest(p) /\ dev' = dev
      /\ UNCHANGED <<load, up, enabled, sendQ, armed, held, toCtrl, toDev, ctrl,
                     app, failed, crashed>>
  BY DEF Ignore
<1>2. /\ dev' = [dev EXCEPT ![p] = dev[p]]
      /\ dev[p] \in DevType /\ KeptBy(dev[p])
  BY <1>1 DEF IInv, TypeOK
<1>3. /\ toCtrl' \in [Prios -> Seq(FrameType)]
      /\ failed' \in BOOLEAN /\ (failed => failed')
  BY <1>1 DEF IInv, TypeOK
<1> QED  BY <1>1, <1>2, <1>3, FrameStep

LEMMA RepeatInv == ASSUME IInv, NEW p \in Prios, Repeat(p) PROVE IInv'
<1> DEFINE f == Head(recvQ[p])
           d == Acknowledged(dev[p], f)
<1>1. /\ Fetched(p) /\ Rest(p)
      /\ UNCHANGED <<load, up, enabled, sendQ, armed, held, toDev, ctrl, app,
                     failed, crashed>>
      /\ IF IsOld(dev[p], f)
           THEN /\ dev' = [dev EXCEPT ![p] = d]
                /\ toCtrl' = Sent(toCtrl, p, Tack(d))
           ELSE /\ toCtrl' = Sent(toCtrl, p, Nack(dev[p]))
                /\ UNCHANGED dev
  BY DEF Repeat
<1>2. f \in FrameType /\ dev[p] \in DevType /\ KeptBy(dev[p])
  BY <1>1, FetchedFrame
<1>3. /\ d \in DevType /\ KeptBy(d) /\ d.alpmi = dev[p].alpmi
      /\ d.apms = "WTACK" => dev[p].apms = "WTACK"
  BY <1>2, AcknowledgedDev
<1> HIDE DEF f, d
<1>4. Tack(d) \in FrameType /\ Nack(dev[p]) \in FrameType
  BY <1>2, <1>3, TackFrames
<1>5. failed' \in BOOLEAN /\ (failed => failed')
      /\ toCtrl \in [Prios -> Seq(FrameType)]
  BY <1>1 DEF IInv, TypeOK
<1>6. toCtrl' \in [Prios -> Seq(FrameType)]
  BY <1>1, <1>4, <1>5, SentType
<1>7. CASE IsOld(dev[p], f)
  BY <1>1, <1>3, <1>5, <1>6, <1>7, FrameStep
<1>8. CASE ~ IsOld(dev[p], f)
  <2>1. dev' = [dev EXCEPT ![p] = dev[p]]
    BY <1>1, <1>8 DEF IInv, TypeOK
  <2> QED  BY <1>1, <1>2, <1>5, <1>6, <2>1, FrameStep
<1> QED  BY <1>7, <1>8

\* A new frame: an answer that is awaited is counted and frees ALPMI.
LEMMA DeliveredAccounts ==
  ASSUME IInv, NEW p \in Prios, up, NEW d \in DevType, NEW f \in FrameType,
         f.kind \in {"notify", "answer"}, d.alpmi = dev[p].alpmi,
         dev' = [dev EXCEPT ![p] = Delivered(d, f)],
         app' = [app EXCEPT ![p] = Told(app[p], d, f)],
         UNCHANGED <<up, sendQ, failed>>
  PROVE  app' \in [Prios -> AppType] /\ Idle' /\ Accounted'
<1>1. /\ app[p] \in AppType /\ app[p].confirmed + 1 \in Nat /\ f.id \in Nat
  BY DEF IInv, TypeOK, AppType, FrameType
<1>2. Told(app[p], d, f) \in AppType
  BY <1>1 DEF Told, AppType
<1>3. app' \in [Prios -> AppType]
  BY <1>2 DEF IInv, TypeOK
<1>4. /\ dev'[p] = Delivered(d, f) /\ app'[p] = Told(app[p], d, f)
      /\ \A q \in Prios : q # p => dev'[q] = dev[q] /\ app'[q] = app[q]
  BY DEF IInv, TypeOK
<1>5. Idle'  BY DEF Idle
<1>6. Accounted'
  <2> SUFFICES ASSUME NEW q \in Prios, ~ failed', up'
               PROVE  app'[q].posted = Len(sendQ'[q]) + app'[q].confirmed
                        + (IF dev'[q].alpmi = "W_ACK" THEN 1 ELSE 0)
    BY DEF Accounted
  <2>1. app[q].posted = Len(sendQ[q]) + app[q].confirmed
                        + (IF dev[q].alpmi = "W_ACK" THEN 1 ELSE 0)
    BY DEF IInv, Accounted
  <2>2. CASE q # p
    BY <1>4, <2>1, <2>2
  <2>3. CASE q = p
    <3>1. /\ app[p].confirmed \in Nat /\ app[p].posted \in Nat
          /\ Len(sendQ[p]) \in Nat
      BY <1>1 DEF IInv, TypeOK, AppType
    <3>2. CASE f.kind = "answer"
      <4>1. CASE d.alpmi = "W_ACK"
        <5>1. /\ app'[p].posted = app[p].posted
              /\ app'[p].confirmed = app[p].confirmed + 1
          BY <1>1, <1>4, <3>2, <4>1 DEF Told, AppType
        <5>2. dev'[p].alpmi = "W_ALARM"
          BY <1>4, <3>2, <4>1 DEF Delivered, DevType
        <5> QED  BY <2>1, <2>3, <3>1, <4>1, <5>1, <5>2
      <4>2. CASE d.alpmi # "W_ACK"
        <5>1. app'[p] = app[p]
          BY <1>4, <3>2, <4>2 DEF Told
        <5>2. dev'[p].alpmi = d.alpmi
          BY <1>4, <3>2, <4>2 DEF Delivered, DevType
        <5> QED  BY <2>1, <2>3, <4>2, <5>1, <5>2
      <4> QED  BY <4>1, <4>2
    <3>3. CASE f.kind # "answer"
      <4>1. /\ app'[p].posted = app[p].posted
            /\ app'[p].confirmed = app[p].confirmed
        BY <1>1, <1>4, <3>3 DEF Told, AppType
      <4>2. dev'[p].alpmi = d.alpmi
        BY <1>4, <3>3 DEF Delivered, DevType
      <4> QED  BY <2>1, <2>3, <4>1, <4>2
    <3> QED  BY <3>2, <3>3
  <2> QED  BY <2>2, <2>3
<1> QED  BY <1>3, <1>5, <1>6

LEMMA ReceiveInv == ASSUME IInv, NEW p \in Prios, Receive(p) PROVE IInv'
<1> DEFINE f == Head(recvQ[p])
           d == Taken(dev[p], f)
<1>1. /\ Fetched(p) /\ Rest(p) /\ up
      /\ f.kind \in {"notify", "answer"}
      /\ f.kind = "notify" => d.alpmr = "W_NOTIFY"
      /\ UNCHANGED <<load, up, enabled, sendQ, armed, held, toDev, ctrl, crashed>>
  BY DEF Receive, Fetched
<1>2. \/ /\ toCtrl' = Sent(toCtrl, p, Tack(d))
         /\ dev' = [dev EXCEPT ![p] = Delivered(d, f)]
         /\ app' = [app EXCEPT ![p] = Told(app[p], d, f)]
         /\ UNCHANGED failed
      \/ /\ failed' = TRUE /\ dev' = [dev EXCEPT ![p] = d]
         /\ UNCHANGED <<toCtrl, app>>
  BY DEF Receive
<1>3. f \in FrameType /\ dev[p] \in DevType /\ KeptBy(dev[p])
  BY <1>1, FetchedFrame
<1>4. /\ d \in DevType /\ KeptBy(d) /\ d.alpmi = dev[p].alpmi
      /\ d.apms = "WTACK" => dev[p].apms = "WTACK"
  BY <1>3, TakenDev
<1>5. recvQ' \in [Prios -> Seq(FrameType)]
      /\ \A q \in Prios : Len(recvQ'[q]) <= QueueSize
  BY <1>1, FetchedFrame
<1> HIDE DEF f, d
<1>6. CASE /\ toCtrl' = Sent(toCtrl, p, Tack(d))
           /\ dev' = [dev EXCEPT ![p] = Delivered(d, f)]
           /\ app' = [app EXCEPT ![p] = Told(app[p], d, f)]
           /\ UNCHANGED failed
  <2> DEFINE e == Delivered(d, f)
  <2>1. e \in DevType /\ KeptBy(e) /\ e.apms = d.apms
    BY <1>1, <1>3, <1>4, DeliveredDev
  <2>2. app' \in [Prios -> AppType] /\ Idle' /\ Accounted'
    BY <1>1, <1>3, <1>4, <1>6, DeliveredAccounts
  <2>3. dev' = [dev EXCEPT ![p] = e]
    BY <1>6
  <2> HIDE DEF e
  <2>4. toCtrl' \in [Prios -> Seq(FrameType)]
    BY <1>4, <1>6, TackFrames, SentType DEF IInv, TypeOK
  <2>5. Timed'
    BY <1>1, <1>4, <2>1, <2>3 DEF IInv, TypeOK, Timed
  <2>6. /\ failed' \in BOOLEAN /\ sendQ' \in [Prios -> Seq(Nat)]
        /\ armed' \in [Prios -> Nat] /\ held' \in [Prios -> BOOLEAN]
        /\ \A q \in Prios : Len(sendQ'[q]) <= QueueSize
    BY <1>1, <1>6 DEF IInv, TypeOK
  <2> QED  BY <1>1, <1>5, <2>1, <2>2, <2>3, <2>4, <2>5, <2>6, DevStep
<1>7. CASE /\ failed' = TRUE /\ dev' = [dev EXCEPT ![p] = d]
           /\ UNCHANGED <<toCtrl, app>>
  <2>1. /\ failed' \in BOOLEAN /\ (failed => failed')
        /\ toCtrl' \in [Prios -> Seq(FrameType)]
    BY <1>7 DEF IInv, TypeOK
  <2> QED  BY <1>1, <1>3, <1>4, <1>7, <2>1, FrameStep
<1> QED  BY <1>2, <1>6, <1>7

-----------------------------------------------------------------------------
(* The end of the AR, the controller and the wires.                         *)

LEMMA EndsInv ==
  ASSUME IInv, \/ Abort \/ SendAnswerBusy
               \/ \E p \in Prios : \/ ProtocolFault(p) \/ SendAlarmBusy(p)
                                    \/ CtrlExpires(p)
  PROVE  IInv'
<1>1. crashed \in BOOLEAN  BY DEF IInv, TypeOK
<1>2. CASE Abort  BY <1>1, <1>2, CloseInv DEF Abort
<1>3. CASE SendAnswerBusy  BY <1>3, CloseInv DEF SendAnswerBusy, Crash
<1>4. CASE \E p \in Prios : ProtocolFault(p)
  BY <1>1, <1>4, CloseInv DEF ProtocolFault
<1>5. CASE \E p \in Prios : SendAlarmBusy(p)
  BY <1>5, CloseInv DEF SendAlarmBusy, Crash
<1>6. CASE \E p \in Prios : CtrlExpires(p)
  BY <1>1, <1>6, CloseInv DEF CtrlExpires
<1> QED  BY <1>2, <1>3, <1>4, <1>5, <1>6

LEMMA CtrlReceiveInv == ASSUME IInv, NEW p \in Prios, CtrlReceive(p) PROVE IInv'
<1> DEFINE f == Head(toCtrl[p])
           c == IF f.kind \in DataKinds /\ f.seq = ctrl[p].exp
                  THEN CtrlTaken(ctrl[p], f)
                  ELSE IF f.kind = "junk" THEN ctrl[p]
                                          ELSE CtrlAcked(ctrl[p], f)
<1>1. /\ toCtrl[p] \in Seq(FrameType) /\ toCtrl[p] # << >>
      /\ ctrl[p] \in CtrlType
  BY DEF IInv, TypeOK, CtrlReceive
<1>2. f \in FrameType /\ Tail(toCtrl[p]) \in Seq(FrameType)
  BY <1>1
<1>3. /\ ctrl' = [ctrl EXCEPT ![p] = c]
      /\ toDev' = IF f.kind \in DataKinds /\ f.seq = c.expO
                    THEN Sent(toDev, p, Tack(c)) ELSE toDev
      /\ toCtrl' = [toCtrl EXCEPT ![p] = Tail(toCtrl[p])]
      /\ UNCHANGED device
  BY DEF CtrlReceive
<1>4. c \in CtrlType
  BY <1>1, <1>2, CtrlTakenType, CtrlAckedType
<1> HIDE DEF f, c
<1>5. Tack(c) \in FrameType
  BY <1>4 DEF Tack, FrameType, Kinds, CtrlType
<1>6. /\ ctrl' \in [Prios -> CtrlType]
      /\ toDev' \in [Prios -> Seq(FrameType)]
      /\ toCtrl' \in [Prios -> Seq(FrameType)]
  BY <1>2, <1>3, <1>4, <1>5, SentType DEF IInv, TypeOK
<1> QED  BY <1>3, <1>6, OutsideStep

LEMMA CtrlSendInv ==
  ASSUME IInv, NEW p \in Prios, NEW kind \in {"notify", "answer"}, NEW id \in Nat,
         CtrlSend(p, kind, id)
  PROVE  IInv'
<1> DEFINE f == Data(ctrl[p], kind, id)
           acked == IF kind = "answer" THEN ctrl[p].acked + 1 ELSE ctrl[p].acked
           asked == IF kind = "notify" THEN ctrl[p].asked + 1 ELSE ctrl[p].asked
           c == [ctrl[p] EXCEPT !.out = f, !.resends = Retries,
                                !.acked = acked, !.asked = asked]
<1>1. ctrl[p] \in CtrlType
  BY DEF IInv, TypeOK
<1>2. f \in FrameType
  BY <1>1 DEF Data, FrameType, Kinds, DataKinds, CtrlType
<1>3. /\ toDev' = Sent(toDev, p, f) /\ ctrl' = [ctrl EXCEPT ![p] = c]
      /\ UNCHANGED <<toCtrl, device>>
  BY DEF CtrlSend
<1>4. acked \in Nat /\ asked \in Nat
  BY <1>1 DEF CtrlType
<1> HIDE DEF f, acked, asked
<1>5. c \in CtrlType
  BY <1>1, <1>2, <1>4, Constants DEF CtrlType
<1> HIDE DEF c
<1>6. /\ ctrl' \in [Prios -> CtrlType]
      /\ toDev' \in [Prios -> Seq(FrameType)]
      /\ toCtrl' \in [Prios -> Seq(FrameType)]
  BY <1>2, <1>3, <1>5, SentType DEF IInv, TypeOK
<1> QED  BY <1>3, <1>6, OutsideStep

LEMMA OutsideInv ==
  ASSUME IInv, NEW p \in Prios,
         CtrlAnswer(p) \/ CtrlAsk(p) \/ CtrlResend(p) \/ Lose(p) \/ Noise(p)
  PROVE  IInv'
<1>1. /\ ctrl[p] \in CtrlType /\ ctrl \in [Prios -> CtrlType]
      /\ toCtrl \in [Prios -> Seq(FrameType)]
      /\ toDev \in [Prios -> Seq(FrameType)]
  BY DEF IInv, TypeOK
<1>2. CASE CtrlAnswer(p)
  <2>1. ctrl[p].acked + 1 \in Nat  BY <1>1 DEF CtrlType
  <2> QED  BY <1>2, <2>1, CtrlSendInv DEF CtrlAnswer
<1>3. CASE CtrlAsk(p)
  <2>1. ctrl[p].asked + 1 \in Nat  BY <1>1 DEF CtrlType
  <2> QED  BY <1>3, <2>1, CtrlSendInv DEF CtrlAsk
<1>4. CASE CtrlResend(p)
  <2> DEFINE c == [ctrl[p] EXCEPT !.resends = ctrl[p].resends - 1]
  <2>1. c \in CtrlType /\ ctrl[p].out \in FrameType
    <3>1. /\ ctrl[p].resends \in 0 .. Retries /\ ctrl[p].resends > 0
          /\ ctrl[p].out \in FrameType
      BY <1>1, <1>4 DEF CtrlResend, CtrlType
    <3>2. ctrl[p].resends - 1 \in 0 .. Retries
      BY <3>1, Constants
    <3> QED  BY <1>1, <3>1, <3>2 DEF CtrlType
  <2>2. /\ ctrl' = [ctrl EXCEPT ![p] = c] /\ toDev' = Sent(toDev, p, ctrl[p].out)
        /\ UNCHANGED <<toCtrl, device>>
    BY <1>4 DEF CtrlResend
  <2> HIDE DEF c
  <2>3. /\ ctrl' \in [Prios -> CtrlType]
        /\ toDev' \in [Prios -> Seq(FrameType)]
        /\ toCtrl' \in [Prios -> Seq(FrameType)]
    BY <1>1, <2>1, <2>2, SentType
  <2> QED  BY <2>2, <2>3, OutsideStep
<1>5. CASE Lose(p)
  <2>1. /\ toCtrl[p] # << >> => Tail(toCtrl[p]) \in Seq(FrameType)
        /\ toDev[p] # << >> => Tail(toDev[p]) \in Seq(FrameType)
    BY <1>1
  <2>2. /\ ctrl' \in [Prios -> CtrlType]
        /\ toDev' \in [Prios -> Seq(FrameType)]
        /\ toCtrl' \in [Prios -> Seq(FrameType)]
    BY <1>1, <1>5, <2>1 DEF Lose
  <2> QED  BY <1>5, <2>2, OutsideStep DEF Lose
<1>6. CASE Noise(p)
  <2> DEFINE Frames == [kind : {"unknown"}, seq : SeqNums, ack : {Before},
                        id : {0}]
                       \cup {NoFrame, [NoFrame EXCEPT !.kind = "err"]}
  <2>1. PICK f \in Frames : toDev' = [toDev EXCEPT ![p] = <<f>>]
    BY <1>6 DEF Noise
  <2>2. f \in FrameType
    <3>1. [NoFrame EXCEPT !.kind = "err"] \in FrameType
      BY NoFrameType DEF FrameType, Kinds
    <3>2. [kind : {"unknown"}, seq : SeqNums, ack : {Before}, id : {0}]
            \subseteq FrameType
      BY Constants DEF FrameType, Kinds, DataKinds
    <3> QED  BY <3>1, <3>2, NoFrameType
  <2> HIDE DEF Frames
  <2>3. <<f>> \in Seq(FrameType)
    BY <2>2
  <2>4. /\ ctrl' \in [Prios -> CtrlType]
        /\ toDev' \in [Prios -> Seq(FrameType)]
        /\ toCtrl' \in [Prios -> Seq(FrameType)]
    BY <1>1, <1>6, <2>1, <2>3 DEF Noise
  <2> QED  BY <1>6, <2>4, OutsideStep DEF Noise
<1> QED  BY <1>2, <1>3, <1>4, <1>5, <1>6

-----------------------------------------------------------------------------
(* The theorems.                                                            *)

LEMMA Stutter == IInv /\ UNCHANGED vars => IInv'
<1> SUFFICES ASSUME IInv, UNCHANGED vars PROVE IInv'  OBVIOUS
<1>1. /\ UNCHANGED device /\ ctrl' \in [Prios -> CtrlType]
      /\ toCtrl' \in [Prios -> Seq(FrameType)]
      /\ toDev' \in [Prios -> Seq(FrameType)]
  BY DEF vars, device, IInv, TypeOK
<1> QED  BY <1>1, OutsideStep

LEMMA Step == IInv /\ [Next]_vars => IInv'
<1> SUFFICES ASSUME IInv, [Next]_vars PROVE IInv'  OBVIOUS
<1>1. CASE Activate  BY <1>1, ActivateInv
<1>2. CASE Enable  BY <1>2, EnableInv
<1>3. CASE Abort \/ SendAnswerBusy  BY <1>3, EndsInv
<1>4. CASE SendAnswer  BY <1>4, SendAnswerInv
<1>5. CASE Gone \/ UNCHANGED vars  BY <1>5, Stutter DEF Gone
<1>6. ASSUME NEW p \in Prios, Post(p) PROVE IInv'  BY <1>6, PostInv
<1>7. ASSUME NEW p \in Prios, Timer(p) PROVE IInv'
  BY <1>7, ResendInv, SendExpiresInv, TimerEndsInv DEF Timer
<1>8. ASSUME NEW p \in Prios, Periodic(p) PROVE IInv'
  BY <1>8, AckInv, IgnoreInv, EndsInv, ReceiveInv, RepeatInv, SendAlarmInv
     DEF Periodic
<1>9. ASSUME NEW p \in Prios, Arrive(p) PROVE IInv'  BY <1>9, ArriveInv
<1>10. ASSUME NEW p \in Prios, CtrlReceive(p) PROVE IInv'
  BY <1>10, CtrlReceiveInv
<1>11. ASSUME NEW p \in Prios,
              \/ CtrlAnswer(p) \/ CtrlAsk(p) \/ CtrlTimer(p) \/ Lose(p) \/ Noise(p)
       PROVE  IInv'
  BY <1>11, OutsideInv, EndsInv DEF CtrlTimer
<1> QED
  BY <1>1, <1>2, <1>3, <1>4, <1>5, <1>6, <1>7, <1>8, <1>9, <1>10, <1>11 DEF Next

LEMMA Invariant == Spec => []IInv
BY InitInv, Step, PTL DEF Spec

\* Every variable stays within its type, and no queue of the AR outgrows its
\* PNET_MAX_ALARMS entries (pf_alarm_add_send_queue, pf_alarm_add_receive_queue).
THEOREM TypeCorrect == Spec => []TypeOK
<1>1. IInv => TypeOK  BY DEF IInv
<1> QED  BY <1>1, Invariant, PTL

\* A frame is kept exactly while its TACK is awaited, with a timer armed, and
\* ALPMR waits for a TACK only while its own answer is kept (pf_apmx_t).
THEOREM KeptTogether == Spec => []Kept
<1>1. IInv => Kept  BY DEF IInv, KeptBy, Timed, Kept
<1> QED  BY <1>1, Invariant, PTL

\* Where no send fails, no alarm that the stack has accepted is forgotten: it is
\* queued, awaits its confirmation or was confirmed (pf_alarm_almpi_periodic,
\* pf_alarm_alpmi_apms_a_data_ind).
THEOREM AllAccounted == Spec => []Accounted
<1>1. IInv => Accounted  BY DEF IInv
<1> QED  BY <1>1, Invariant, PTL

\* Both together: whatever is lost or repeated on the wire, nothing that waits
\* is without its timer and nothing that was accepted is forgotten.
THEOREM AllTracked == Spec => []Tracked
BY KeptTogether, AllAccounted, PTL DEF Tracked

-----------------------------------------------------------------------------
(* The window of one.  For each priority the device and the controller each  *)
(* keep at most one block until it is acknowledged, and the receiver tells   *)
(* a new block from the last one.  Conn is what holds between them, the      *)
(* queues and the wires, as long as no send is refused.                      *)

\* Number t comes right before number u.
Succ(t, u) == \/ t = Before /\ u = Start
              \/ t # Before /\ u = NextSeq(t)

\* x is the number e, or the one before.
Late(x, e) == x = e \/ Succ(x, e)

Blocks == {"notify", "answer"}
Carriers == Blocks \cup {"tack"}

\* The device, or the controller, waits for the acknowledge of the block it keeps.
DOut(d) == d.apms = "WTACK"
COut(c) == c.out # NoFrame

\* The sender has the numbers seq and seqO, the receiver exp and expO: what the
\* sender has is new to the receiver, or the block that is out was taken.
Window(seq, seqO, exp, expO, out) ==
  /\ seq \in SeqNums /\ seqO \in SeqNums /\ exp \in SeqNums /\ expO \in SeqNums
  /\ Succ(seqO, seq)
  /\ \/ exp = seq /\ expO = seqO
     \/ out /\ expO = seq /\ exp = NextSeq(seq)

Windows(d, c) == /\ Window(d.seq, d.seqO, c.exp, c.expO, DOut(d))
                 /\ Window(c.seq, c.seqO, d.exp, d.expO, COut(c))

\* A block that is kept has its sender's number and acknowledges what the sender
\* took last, or what it took before.
KeptBlock(f, seq, expO) == f.kind \in Blocks /\ f.seq = seq /\ Late(f.ack, expO)
KeptBlocks(d, c) == /\ DOut(d) => KeptBlock(d.rta, d.seq, d.expO)
                    /\ COut(c) => KeptBlock(c.out, c.seq, c.expO)

\* The block that is kept is new to the receiver.
DNew(d, c) == DOut(d) /\ c.exp = d.seq
CNew(d, c) == COut(c) /\ d.exp = c.seq

Bit(b) == IF b THEN 1 ELSE 0
\* The alarms that the device has begun to send.
Begun(d, a) == a.confirmed + Bit(d.alpmi = "W_ACK")

\* Where the alarms and the answers are that one end counts and the other does not.
DevCounts(d, c, a) ==
  /\ d.alpmi \in {"W_ALARM", "W_ACK"} /\ d.alpmr \in {"W_NOTIFY", "W_USER_ACK", "W_TACK"}
  /\ d.alpmr = "W_TACK" <=> DOut(d) /\ d.rta.kind = "answer"
  /\ DOut(d) /\ d.rta.kind = "notify" => d.rta.id = Begun(d, a)
  /\ DOut(d) /\ d.rta.kind = "answer" => d.rta.id = a.indicated
  /\ COut(c) /\ c.out.kind = "notify" => c.out.id = c.asked
Ends(d, c, a) ==
  /\ c.got = Begun(d, a) - Bit(DNew(d, c) /\ d.rta.kind = "notify")
  /\ a.indicated = c.answered + Bit(d.alpmr = "W_USER_ACK")
                     + Bit(DNew(d, c) /\ d.rta.kind = "answer")
  /\ c.acked = a.confirmed + Bit(CNew(d, c) /\ c.out.kind = "answer") /\ c.acked <= c.got
  /\ c.asked = a.indicated + Bit(CNew(d, c) /\ c.out.kind = "notify")
  /\ c.asked <= c.answered + 1
Queued(d, a, s) == /\ \A i \in DOMAIN s : s[i] = Begun(d, a) + i
                   /\ a.posted = Begun(d, a) + Len(s)

\* A side whose block is still out although it took another one since has nothing
\* more to send before that block is taken, and the next from the other side
\* acknowledges it.
CtrlStale(d, c) ==
  COut(c) /\ c.out.ack # c.expO =>
    /\ CNew(d, c) => d.alpmi = "W_ACK" /\ d.alpmr # "W_USER_ACK"
    /\ DNew(d, c) => d.rta.ack = c.seq
DevStale(d, c) ==
  DOut(d) /\ d.rta.ack # d.expO =>
    /\ DNew(d, c) => c.acked = c.got /\ c.answered < c.asked
    /\ CNew(d, c) => c.out.ack = d.seq

Machines(d, c, a, s) ==
  /\ Windows(d, c) /\ KeptBlocks(d, c) /\ DevCounts(d, c, a) /\ Ends(d, c, a)
  /\ Queued(d, a, s) /\ CtrlStale(d, c) /\ DevStale(d, c)

\* Frames under way, those of q before those of w: all are in the set all, and none
\* of first comes behind one of then.
Way(q, w, all, first, then) ==
  /\ \A i \in DOMAIN q : q[i] \in all
  /\ \A i \in DOMAIN w : w[i] \in all
  /\ \A i, j \in DOMAIN q : i < j /\ q[i] \in then => q[j] \notin first
  /\ \A i, j \in DOMAIN w : i < j /\ w[i] \in then => w[j] \notin first
  /\ \A i \in DOMAIN q, j \in DOMAIN w : q[i] \in then => w[j] \notin first

\* Copies of the block that is kept come behind those of the last one, which are
\* gone once the new one was taken.
Copies(kept, out, new, seqO) ==
  {f \in FrameType : f.kind \in Blocks => (out /\ f = kept) \/ (new /\ f.seq = seqO)}
With(seq) == {f \in FrameType : f.kind \in Blocks /\ f.seq = seq}
Without(seq) == {f \in FrameType : f.kind \in Blocks /\ f.seq # seq}
BlocksWay(q, w, kept, out, new, seq, seqO) ==
  Way(q, w, Copies(kept, out, new, seqO), Without(seq), With(seq))

\* What is acknowledged: the last number that was taken, e, the one before, and, while
\* the sender of the block does not know of e, also the one before that.
Acks(e, new, seqO) ==
  {f \in FrameType :
     f.kind \in Carriers => Late(f.ack, e) \/ (~ new /\ Succ(f.ack, seqO))}
Newest(e) == {f \in FrameType : f.kind \in Carriers /\ f.ack = e}
Older(e) == {f \in FrameType : f.kind \in Carriers /\ ~ Late(f.ack, e)}
AcksWay(q, w, e, new, seqO) == Way(q, w, Acks(e, new, seqO), Older(e), Newest(e))

ToCtrl(d, c, w) ==
  /\ \A i \in DOMAIN w : w[i].kind \in Carriers \cup {"junk"}
  /\ BlocksWay(<< >>, w, d.rta, DOut(d), c.exp = d.seq, d.seq, d.seqO)
  /\ AcksWay(<< >>, w, d.expO, d.exp = c.seq, c.seqO)

Foreign == {f \in FrameType : f.kind = "unknown" => f.ack = Before}
ToDev(d, c, q, w) ==
  /\ Way(q, w, Foreign, {}, {})
  /\ BlocksWay(q, w, c.out, COut(c), d.exp = c.seq, c.seq, c.seqO)
  /\ AcksWay(q, w, c.expO, c.exp = d.seq, d.seqO)

Conn(d, c, a, s, q, w, x) == Machines(d, c, a, s) /\ ToDev(d, c, q, w) /\ ToCtrl(d, c, x)

Connected ==
  IF up THEN \A p \in Prios : Conn(dev[p], ctrl[p], app[p], sendQ[p], recvQ[p],
                                   toDev[p], toCtrl[p])
        ELSE \A p \in Prios : recvQ[p] = << >>

-----------------------------------------------------------------------------
(* Numbers.                                                                   *)

\* Numbers next to each other, or with one between, differ.
LEMMA Numbers ==
  ASSUME NEW t \in SeqNums, NEW u \in SeqNums, Succ(t, u)
  PROVE  /\ t # u /\ u # Before /\ Succ(u, NextSeq(u)) /\ NextSeq(u) \in SeqNums
         /\ NextSeq(u) # u /\ NextSeq(u) # t
<1>1. Modulus \in Nat /\ Modulus > 2 /\ Start = -1 /\ Before = -2
  BY Constants DEF Start, Before
<1>2. NextSeq(u) \in SeqNums  BY NextIsSeqNum
<1>3. u # Before /\ u \in {-1} \cup 0 .. Modulus - 1
  <2>1. CASE t = Before /\ u = Start  BY <1>1, <2>1
  <2>2. CASE t # Before /\ u = NextSeq(t)
    <3>1. t \in Int /\ t + 1 \in Int  BY <1>1 DEF SeqNums
    <3>2. (t + 1) % Modulus \in 0 .. Modulus - 1  BY <1>1, <3>1
    <3> QED  BY <1>1, <2>2, <3>2 DEF NextSeq
  <2> QED  BY <2>1, <2>2 DEF Succ
<1>4. NextSeq(u) = IF u = -1 THEN 0 ELSE IF u = Modulus - 1 THEN 0 ELSE u + 1
  <2>1. CASE u = -1  BY <1>1, <2>1 DEF NextSeq
  <2>2. CASE u = Modulus - 1
    <3>1. Modulus % Modulus = 0  BY <1>1
    <3> QED  BY <1>1, <2>2, <3>1 DEF NextSeq
  <2>3. CASE u \in 0 .. Modulus - 2
    <3>1. u + 1 \in 0 .. Modulus - 1  BY <1>1, <2>3
    <3>2. (u + 1) % Modulus = u + 1  BY <1>1, <3>1
    <3> QED  BY <1>1, <2>3, <3>2 DEF NextSeq
  <2> QED  BY <1>1, <1>3, <2>1, <2>2, <2>3
<1>5. CASE t = Before /\ u = Start
  BY <1>1, <1>2, <1>4, <1>5 DEF Succ
<1>6. CASE t # Before /\ u = NextSeq(t)
  <2>1. t \in {-1} \cup 0 .. Modulus - 1  BY <1>1, <1>6 DEF SeqNums
  <2>2. u = IF t = -1 THEN 0 ELSE IF t = Modulus - 1 THEN 0 ELSE t + 1
    <3>1. CASE t = -1  BY <1>1, <1>6, <3>1 DEF NextSeq
    <3>2. CASE t = Modulus - 1
      <4>1. Modulus % Modulus = 0  BY <1>1
      <4> QED  BY <1>1, <1>6, <3>2, <4>1 DEF NextSeq
    <3>3. CASE t \in 0 .. Modulus - 2
      <4>1. t + 1 \in 0 .. Modulus - 1  BY <1>1, <3>3
      <4>2. (t + 1) % Modulus = t + 1  BY <1>1, <4>1
      <4> QED  BY <1>1, <1>6, <3>3, <4>2 DEF NextSeq
    <3> QED  BY <1>1, <2>1, <3>1, <3>2, <3>3
  <2> QED  BY <1>1, <1>2, <1>3, <1>4, <2>1, <2>2 DEF Succ
<1> QED  BY <1>5, <1>6 DEF Succ

\* No number that is acknowledged late is the next one.
LEMMA LateIsOld ==
  ASSUME NEW x \in SeqNums, NEW e \in SeqNums, NEW u \in SeqNums, Late(x, e), Succ(e, u)
  PROVE  x # u /\ (x = e => Late(x, u))
<1>1. CASE x = e  BY <1>1, Numbers DEF Late
<1>2. CASE Succ(x, e)
  <2>1. NextSeq(e) # x /\ e # Before  BY <1>2, Numbers
  <2>2. u = NextSeq(e)  BY <2>1 DEF Succ
  <2> QED  BY <1>2, <2>1, <2>2, Numbers
<1> QED  BY <1>1, <1>2 DEF Late

\* A window is in one of two phases.
LEMMA Phases ==
  ASSUME NEW seq, NEW seqO, NEW exp, NEW expO, NEW out, Window(seq, seqO, exp, expO, out)
  PROVE  /\ seq # seqO /\ Succ(expO, exp) /\ Succ(seq, NextSeq(seq)) /\ NextSeq(seq) # seq
         /\ NextSeq(seq) \in SeqNums
         /\ seq # Before
         /\ exp = seq => expO = seqO
         /\ exp # seq => out /\ expO = seq /\ exp = NextSeq(seq)
<1>1. seq \in SeqNums /\ seqO \in SeqNums /\ Succ(seqO, seq)  BY DEF Window
<1>2. /\ seq # seqO /\ Succ(seq, NextSeq(seq)) /\ NextSeq(seq) # seq /\ seq # Before
      /\ NextSeq(seq) \in SeqNums
  BY <1>1, Numbers
<1> QED  BY <1>1, <1>2 DEF Window

\* The receiver takes the block; the sender learns of it.
LEMMA WindowMoves ==
  ASSUME NEW seq, NEW seqO, NEW exp, NEW expO, NEW out, Window(seq, seqO, exp, expO, out)
  PROVE  /\ exp = seq /\ out => Window(seq, seqO, NextSeq(exp), exp, out)
         /\ exp # seq => Window(NextSeq(seq), seq, exp, expO, FALSE)
BY Phases DEF Window

-----------------------------------------------------------------------------
(* The ways.                                                                  *)

\* The wire takes the frame or loses it.
Put(w, f) == IF Len(w) < WireSize THEN Append(w, f) ELSE w

\* What a frame does that comes behind.
LEMMA Appended ==
  ASSUME NEW w \in Seq(FrameType), NEW f \in FrameType
  PROVE  \A i \in DOMAIN Append(w, f) :
           \/ i \in DOMAIN w /\ Append(w, f)[i] = w[i] /\ i < Len(w) + 1
           \/ i = Len(w) + 1 /\ Append(w, f)[i] = f
<1> DEFINE v == Append(w, f)
<1>1. /\ Len(w) \in Nat /\ DOMAIN w = 1 .. Len(w) /\ DOMAIN v = 1 .. Len(w) + 1
      /\ v[Len(w) + 1] = f /\ \A i \in 1 .. Len(w) : v[i] = w[i]
  OBVIOUS
<1> HIDE DEF v
<1>2. ASSUME NEW i \in DOMAIN v
      PROVE  \/ i \in DOMAIN w /\ v[i] = w[i] /\ i < Len(w) + 1
             \/ i = Len(w) + 1 /\ v[i] = f
  <2>1. CASE i = Len(w) + 1  BY <1>1, <2>1
  <2>2. CASE i # Len(w) + 1
    <3>1. i \in 1 .. Len(w) /\ i < Len(w) + 1  BY <1>1, <2>2
    <3> QED  BY <1>1, <3>1
  <2> QED  BY <2>1, <2>2
<1> QED  BY <1>2 DEF v

\* The way with that frame behind.
LEMMA WayAppends ==
  ASSUME NEW q \in Seq(FrameType), NEW w \in Seq(FrameType), NEW all, NEW first, NEW then,
         Way(q, w, all, first, then), NEW f \in FrameType, f \in all, f \notin first
  PROVE  Way(q, Append(w, f), all, first, then)
<1> DEFINE v == Append(w, f)
<1> HIDE DEF v
<1>2. \A i \in DOMAIN v : \/ i \in DOMAIN w /\ v[i] = w[i] /\ i < Len(w) + 1
                          \/ i = Len(w) + 1 /\ v[i] = f
  BY Appended DEF v
<1>3. \A i \in DOMAIN v : v[i] \in all  BY <1>2 DEF Way
<1>4. \A i \in DOMAIN q, j \in DOMAIN v : q[i] \in then => v[j] \notin first
  BY <1>2 DEF Way
<1>5. \A i, j \in DOMAIN v : i < j /\ v[i] \in then => v[j] \notin first
  <2> SUFFICES ASSUME NEW i \in DOMAIN v, NEW j \in DOMAIN v, i < j, v[i] \in then
               PROVE  v[j] \notin first
    OBVIOUS
  <2>1. CASE j = Len(w) + 1 /\ v[j] = f  BY <2>1
  <2>2. CASE j \in DOMAIN w /\ v[j] = w[j] /\ j < Len(w) + 1
    <3>1. i # Len(w) + 1  BY <2>2
    <3>2. i \in DOMAIN w /\ v[i] = w[i]  BY <1>2, <3>1
    <3> QED  BY <2>2, <3>2 DEF Way
  <2> QED  BY <1>2, <2>1, <2>2
<1> QED  BY <1>3, <1>4, <1>5 DEF Way, v

\* So it is where the wire may lose the frame.
LEMMA WayPuts ==
  ASSUME NEW q \in Seq(FrameType), NEW w \in Seq(FrameType), NEW all, NEW first, NEW then,
         Way(q, w, all, first, then), NEW f \in FrameType, f \in all, f \notin first
  PROVE  Way(q, Put(w, f), all, first, then)
BY WayAppends DEF Put

\* A frame is taken from the wire, or from the queue.
LEMMA WayShortens ==
  ASSUME NEW q \in Seq(FrameType), NEW w \in Seq(FrameType), NEW all, NEW first, NEW then,
         Way(q, w, all, first, then)
  PROVE  /\ w # << >> => Way(q, Tail(w), all, first, then)
         /\ q # << >> => Way(Tail(q), w, all, first, then)
<1>1. ASSUME NEW v \in Seq(FrameType), v # << >>
      PROVE  /\ DOMAIN Tail(v) = 1 .. Len(v) - 1 /\ DOMAIN v = 1 .. Len(v) /\ Len(v) \in Nat
             /\ \A i \in DOMAIN Tail(v) : i \in Nat /\ i + 1 \in DOMAIN v /\ Tail(v)[i] = v[i + 1]
  BY <1>1
<1>2. ASSUME w # << >>  PROVE Way(q, Tail(w), all, first, then)
  <2>1. \A i \in DOMAIN Tail(w) : i \in Nat /\ i + 1 \in DOMAIN w /\ Tail(w)[i] = w[i + 1]
    BY <1>1, <1>2
  <2>2. \A i, j \in DOMAIN Tail(w) : i < j => i + 1 < j + 1  BY <2>1
  <2> QED  BY <2>1, <2>2 DEF Way
<1>3. ASSUME q # << >>  PROVE Way(Tail(q), w, all, first, then)
  <2>1. \A i \in DOMAIN Tail(q) : i \in Nat /\ i + 1 \in DOMAIN q /\ Tail(q)[i] = q[i + 1]
    BY <1>1, <1>3
  <2>2. \A i, j \in DOMAIN Tail(q) : i < j => i + 1 < j + 1  BY <2>1
  <2> QED  BY <2>1, <2>2 DEF Way
<1> QED  BY <1>2, <1>3

\* The Ethernet thread queues the first frame of the wire.
LEMMA WayQueues ==
  ASSUME NEW q \in Seq(FrameType), NEW w \in Seq(FrameType), NEW all, NEW first, NEW then,
         Way(q, w, all, first, then), w # << >>
  PROVE  Way(Append(q, Head(w)), Tail(w), all, first, then)
<1> DEFINE f == Head(w)   r == Append(q, f)   v == Tail(w)
<1>1. f = w[1] /\ 1 \in DOMAIN w /\ f \in FrameType  OBVIOUS
<1>2. \A i \in DOMAIN v : i \in Nat /\ i + 1 \in DOMAIN w /\ v[i] = w[i + 1] /\ 1 < i + 1
  OBVIOUS
<1>3. \A i, j \in DOMAIN v : i < j => i + 1 < j + 1  BY <1>2
<1> HIDE DEF r, v
<1>5. \A i \in DOMAIN r : \/ i \in DOMAIN q /\ r[i] = q[i] /\ i < Len(q) + 1
                          \/ i = Len(q) + 1 /\ r[i] = f
  BY <1>1, Appended DEF r
<1> HIDE DEF f
<1>6. \A i \in DOMAIN r : r[i] \in all  BY <1>1, <1>5 DEF Way
<1>7. \A i \in DOMAIN v : v[i] \in all  BY <1>2 DEF Way
<1>8. \A i, j \in DOMAIN v : i < j /\ v[i] \in then => v[j] \notin first
  BY <1>2, <1>3 DEF Way
<1>9. \A i \in DOMAIN r, j \in DOMAIN v : r[i] \in then => v[j] \notin first
  <2> SUFFICES ASSUME NEW i \in DOMAIN r, NEW j \in DOMAIN v, r[i] \in then
               PROVE  v[j] \notin first
    OBVIOUS
  <2>1. CASE i \in DOMAIN q /\ r[i] = q[i] /\ i < Len(q) + 1  BY <1>2, <2>1 DEF Way
  <2>2. CASE i = Len(q) + 1 /\ r[i] = f  BY <1>1, <1>2, <2>2 DEF Way
  <2> QED  BY <1>5, <2>1, <2>2
<1>10. \A i, j \in DOMAIN r : i < j /\ r[i] \in then => r[j] \notin first
  <2> SUFFICES ASSUME NEW i \in DOMAIN r, NEW j \in DOMAIN r, i < j, r[i] \in then
               PROVE  r[j] \notin first
    OBVIOUS
  <2>1. CASE j \in DOMAIN q /\ r[j] = q[j] /\ j < Len(q) + 1
    <3>1. i # Len(q) + 1  BY <2>1
    <3>2. i \in DOMAIN q /\ r[i] = q[i]  BY <1>5, <3>1
    <3> QED  BY <2>1, <3>2 DEF Way
  <2>2. CASE j = Len(q) + 1 /\ r[j] = f
    <3>1. i # Len(q) + 1 \/ i = j  BY <2>2
    <3>2. CASE i \in DOMAIN q /\ r[i] = q[i]  BY <1>1, <2>2, <3>2 DEF Way
    <3>3. CASE i = j
      <4>1. Len(q) + 1 \in Nat  OBVIOUS
      <4> QED  BY <2>2, <3>3, <4>1
    <3> QED  BY <1>5, <3>1, <3>2, <3>3
  <2> QED  BY <1>5, <2>1, <2>2
<1> QED  BY <1>6, <1>7, <1>8, <1>9, <1>10 DEF Way, f, r, v

\* Other sets that ask no more of the same frames.
LEMMA WayWeakens ==
  ASSUME NEW q, NEW w, NEW all, NEW first, NEW then, NEW all2, NEW first2, NEW then2,
         Way(q, w, all, first, then), all \subseteq all2,
         \/ all \cap first2 \subseteq first /\ all \cap then2 \subseteq then
         \/ all \cap then2 = {}
         \/ all \cap first2 = {}
  PROVE  Way(q, w, all2, first2, then2)
<1>1. (\A i \in DOMAIN q : q[i] \in all) /\ (\A i \in DOMAIN w : w[i] \in all)  BY DEF Way
<1>2. CASE all \cap first2 \subseteq first /\ all \cap then2 \subseteq then
  BY <1>1, <1>2 DEF Way
<1>3. CASE all \cap then2 = {} \/ all \cap first2 = {}
  BY <1>1, <1>3 DEF Way
<1> QED  BY <1>2, <1>3

\* The head of the queue, or of the wire where no queue is.
First(q, w, f) == \/ q # << >> /\ f = Head(q)
                  \/ q = << >> /\ w # << >> /\ f = Head(w)

\* Once a frame of then comes first there are none of first.
LEMMA WayTurns ==
  ASSUME NEW q \in Seq(FrameType), NEW w \in Seq(FrameType), NEW all, NEW first, NEW then,
         Way(q, w, all, first, then), NEW f, First(q, w, f), f \in then, f \notin first
  PROVE  Way(q, w, all \ first, first, then)
<1>1. CASE q # << >> /\ f = Head(q)
  <2>1. 1 \in DOMAIN q /\ q[1] = f /\ \A i \in DOMAIN q : i = 1 \/ 1 < i
    BY <1>1
  <2> QED  BY <2>1 DEF Way
<1>2. CASE q = << >> /\ w # << >> /\ f = Head(w)
  <2>1. 1 \in DOMAIN w /\ w[1] = f /\ \A i \in DOMAIN w : i = 1 \/ 1 < i
    BY <1>2
  <2>2. DOMAIN q = {}  BY <1>2
  <2> QED  BY <2>1, <2>2 DEF Way
<1> QED  BY <1>1, <1>2 DEF First

\* The frame that comes first is one of all.
LEMMA WayFirst ==
  ASSUME NEW q \in Seq(FrameType), NEW w \in Seq(FrameType), NEW all, NEW first, NEW then,
         Way(q, w, all, first, then), NEW f, First(q, w, f)
  PROVE  f \in all /\ f \in FrameType
<1>1. CASE q # << >> /\ f = Head(q)
  <2>1. 1 \in DOMAIN q /\ q[1] = f  BY <1>1
  <2> QED  BY <1>1, <2>1 DEF Way
<1>2. CASE q = << >> /\ w # << >> /\ f = Head(w)
  <2>1. 1 \in DOMAIN w /\ w[1] = f  BY <1>2
  <2> QED  BY <1>2, <2>1 DEF Way
<1> QED  BY <1>1, <1>2 DEF First

\* No block is out: whatever is kept then, and is to be sent, changes nothing.
LEMMA BlocksBegin ==
  ASSUME NEW q, NEW w, NEW kept, NEW new, NEW seq, NEW seqO,
         BlocksWay(q, w, kept, FALSE, new, seq, seqO), NEW k
  PROVE  BlocksWay(q, w, k, TRUE, new, seq, seqO)
<1> DEFINE all == Copies(kept, FALSE, new, seqO)
<1>1. Way(q, w, all, Without(seq), With(seq))  BY DEF BlocksWay
<1>2. all \subseteq Copies(k, TRUE, new, seqO)  BY DEF Copies
<1>3. all \cap Without(seq) \subseteq Without(seq) /\ all \cap With(seq) \subseteq With(seq)
  OBVIOUS
<1> HIDE DEF all
<1> QED  BY <1>1, <1>2, <1>3, WayWeakens DEF BlocksWay

\* The way of a block that the receiver takes: nothing of the last one is behind it.
LEMMA BlocksTaken ==
  ASSUME NEW q \in Seq(FrameType), NEW w \in Seq(FrameType), NEW kept, NEW out, NEW new,
         NEW seq, NEW seqO, BlocksWay(q, w, kept, out, new, seq, seqO), seq # seqO,
         NEW f, First(q, w, f), f.kind \in Blocks, f.seq = seq
  PROVE  BlocksWay(q, w, kept, out, FALSE, seq, seqO)
<1> DEFINE all == Copies(kept, out, new, seqO)
<1>1. Way(q, w, all, Without(seq), With(seq))  BY DEF BlocksWay
<1>2. f \in FrameType  BY <1>1, WayFirst
<1>3. f \in With(seq) /\ f \notin Without(seq)  BY <1>2 DEF With, Without
<1>4. Way(q, w, all \ Without(seq), Without(seq), With(seq))
  BY <1>1, <1>3, WayTurns
<1>5. all \ Without(seq) \subseteq Copies(kept, out, FALSE, seqO)
  BY DEF Copies, Without
<1>6. /\ (all \ Without(seq)) \cap Without(seq) \subseteq Without(seq)
      /\ (all \ Without(seq)) \cap With(seq) \subseteq With(seq)
  OBVIOUS
<1> HIDE DEF all
<1> QED  BY <1>4, <1>5, <1>6, WayWeakens DEF BlocksWay

\* The way of a block ends, and the next begins.
LEMMA BlocksEnd ==
  ASSUME NEW q \in Seq(FrameType), NEW w \in Seq(FrameType), NEW kept, NEW out, NEW seq,
         NEW seqO, BlocksWay(q, w, kept, out, FALSE, seq, seqO), out => kept.seq = seq,
         NEW s, NEW k, s # seq
  PROVE  BlocksWay(q, w, k, FALSE, TRUE, s, seq)
<1> DEFINE all == Copies(kept, out, FALSE, seqO)
<1>1. Way(q, w, all, Without(seq), With(seq))  BY DEF BlocksWay
<1>2. all \subseteq Copies(k, FALSE, TRUE, seq)  BY DEF Copies
<1>3. all \cap With(s) = {}  BY DEF Copies, With
<1> HIDE DEF all
<1> QED  BY <1>1, <1>2, <1>3, WayWeakens DEF BlocksWay

\* The ways of what is acknowledged: another number is taken, and it is heard of.
LEMMA AcksMove ==
  ASSUME NEW q \in Seq(FrameType), NEW w \in Seq(FrameType), NEW e \in SeqNums, NEW new,
         NEW seqO, AcksWay(q, w, e, new, seqO)
  PROVE  /\ new => \A u \in SeqNums : Succ(e, u) => AcksWay(q, w, u, FALSE, e)
         /\ new => \A s : AcksWay(q, w, e, TRUE, s)
         /\ \A f : First(q, w, f) /\ f.kind \in Carriers /\ f.ack = e =>
              \A s : AcksWay(q, w, e, TRUE, s)
<1> DEFINE all == Acks(e, new, seqO)
<1>1. Way(q, w, all, Older(e), Newest(e))  BY DEF AcksWay
<1>2. ASSUME new, NEW u \in SeqNums, Succ(e, u)  PROVE AcksWay(q, w, u, FALSE, e)
  <2>1. \A f \in all : f.ack \in SeqNums  BY DEF Acks, FrameType
  <2>2. \A f \in all : f.kind \in Carriers => Late(f.ack, e)  BY <1>2 DEF Acks
  <2>3. all \subseteq Acks(u, FALSE, e)  BY <1>2, <2>2 DEF Acks, Late
  <2>4. all \cap Newest(u) = {}
    BY <1>2, <2>1, <2>2, LateIsOld DEF Newest
  <2> HIDE DEF all
  <2> QED  BY <1>1, <2>3, <2>4, WayWeakens DEF AcksWay
<1>3. ASSUME new, NEW s  PROVE AcksWay(q, w, e, TRUE, s)
  <2>1. all = Acks(e, TRUE, s)  BY <1>3 DEF Acks
  <2> QED  BY <1>1, <2>1 DEF AcksWay
<1>4. ASSUME NEW f, First(q, w, f), f.kind \in Carriers, f.ack = e, NEW s
      PROVE  AcksWay(q, w, e, TRUE, s)
  <2>1. f \in FrameType  BY <1>1, <1>4, WayFirst
  <2>2. f \in Newest(e) /\ f \notin Older(e)  BY <1>4, <2>1 DEF Newest, Older, Late
  <2>3. Way(q, w, all \ Older(e), Older(e), Newest(e))
    BY <1>1, <1>4, <2>2, WayTurns
  <2>4. all \ Older(e) \subseteq Acks(e, TRUE, s)
    BY DEF Acks, Older
  <2>5. /\ (all \ Older(e)) \cap Older(e) \subseteq Older(e)
        /\ (all \ Older(e)) \cap Newest(e) \subseteq Newest(e)
    OBVIOUS
  <2> HIDE DEF all
  <2> QED  BY <2>3, <2>4, <2>5, WayWeakens DEF AcksWay
<1> QED  BY <1>2, <1>3, <1>4

\* A frame that acknowledges the sender's number comes only once it was taken.
LEMMA AckOfTaken ==
  ASSUME NEW seq, NEW seqO, NEW exp, NEW expO, NEW out, Window(seq, seqO, exp, expO, out),
         NEW f \in Acks(expO, exp = seq, seqO), f.kind \in Carriers, f.ack = seq
  PROVE  exp # seq
<1> SUFFICES ASSUME exp = seq  PROVE FALSE  OBVIOUS
<1>1. Late(f.ack, expO)  BY DEF Acks
<1>2. /\ expO = seqO /\ Succ(expO, seq) /\ expO \in SeqNums /\ seq \in SeqNums
      /\ f.ack \in SeqNums
  BY Phases DEF Window, Acks, FrameType
<1> QED  BY <1>1, <1>2, LateIsOld

-----------------------------------------------------------------------------
(* What the wires and the queue do.                                           *)

\* What the device may put on the wire, and the controller.
DevSends(d, f) == /\ f \in FrameType /\ f.kind \in Carriers \cup {"junk"}
                  /\ f.kind \in Blocks => DOut(d) /\ f = d.rta
                  /\ f.kind \in Carriers => Late(f.ack, d.expO)
CtrlSends(c, f) == /\ f \in FrameType
                   /\ f.kind = "unknown" => f.ack = Before
                   /\ f.kind \in Blocks => COut(c) /\ f = c.out
                   /\ f.kind \in Carriers => Late(f.ack, c.expO)

\* The device sends a frame.
LEMMA ToCtrlPuts ==
  ASSUME NEW d, NEW c, NEW x \in Seq(FrameType), ToCtrl(d, c, x), KeptBlocks(d, c),
         NEW f, DevSends(d, f)
  PROVE  ToCtrl(d, c, Put(x, f))
<1> DEFINE new == c.exp = d.seq   told == d.exp = c.seq
<1>1. f \in FrameType /\ f.kind \in Carriers \cup {"junk"}  BY DEF DevSends
<1>2. f \in Copies(d.rta, DOut(d), new, d.seqO) /\ f \notin Without(d.seq)
  BY DEF DevSends, Copies, Without, KeptBlocks, KeptBlock
<1>3. f \in Acks(d.expO, told, c.seqO) /\ f \notin Older(d.expO)
  BY DEF DevSends, Acks, Older
<1>4. << >> \in Seq(FrameType)  OBVIOUS
<1> HIDE DEF new, told
<1>5. BlocksWay(<< >>, Put(x, f), d.rta, DOut(d), new, d.seq, d.seqO)
  <2>1. Way(<< >>, x, Copies(d.rta, DOut(d), new, d.seqO), Without(d.seq), With(d.seq))
    BY DEF ToCtrl, BlocksWay, new
  <2> QED  BY <1>1, <1>2, <1>4, <2>1, WayPuts DEF BlocksWay
<1>6. AcksWay(<< >>, Put(x, f), d.expO, told, c.seqO)
  <2>1. Way(<< >>, x, Acks(d.expO, told, c.seqO), Older(d.expO), Newest(d.expO))
    BY DEF ToCtrl, AcksWay, told
  <2> QED  BY <1>1, <1>3, <1>4, <2>1, WayPuts DEF AcksWay
<1>7. \A i \in DOMAIN Put(x, f) : Put(x, f)[i].kind \in Carriers \cup {"junk"}
  BY <1>1, Appended DEF Put, ToCtrl
<1> QED  BY <1>5, <1>6, <1>7 DEF ToCtrl, new, told

\* The controller sends a frame.
LEMMA ToDevPuts ==
  ASSUME NEW d, NEW c, NEW q \in Seq(FrameType), NEW w \in Seq(FrameType),
         ToDev(d, c, q, w), KeptBlocks(d, c), NEW f, CtrlSends(c, f)
  PROVE  ToDev(d, c, q, Put(w, f)) /\ ToDev(d, c, q, Append(w, f))
<1> DEFINE new == d.exp = c.seq   told == c.exp = d.seq
<1>1. f \in FrameType /\ f \in Foreign /\ f \notin {}  BY DEF CtrlSends, Foreign
<1>2. f \in Copies(c.out, COut(c), new, c.seqO) /\ f \notin Without(c.seq)
  BY DEF CtrlSends, Copies, Without, KeptBlocks, KeptBlock
<1>3. f \in Acks(c.expO, told, d.seqO) /\ f \notin Older(c.expO)
  BY DEF CtrlSends, Acks, Older
<1> HIDE DEF new, told
<1>4. Way(q, w, Foreign, {}, {})  BY DEF ToDev
<1>5. Way(q, w, Copies(c.out, COut(c), new, c.seqO), Without(c.seq), With(c.seq))
  BY DEF ToDev, BlocksWay, new
<1>6. Way(q, w, Acks(c.expO, told, d.seqO), Older(c.expO), Newest(c.expO))
  BY DEF ToDev, AcksWay, told
<1>7. /\ Way(q, Append(w, f), Foreign, {}, {})
      /\ Way(q, Append(w, f), Copies(c.out, COut(c), new, c.seqO), Without(c.seq), With(c.seq))
      /\ Way(q, Append(w, f), Acks(c.expO, told, d.seqO), Older(c.expO), Newest(c.expO))
  BY <1>1, <1>2, <1>3, <1>4, <1>5, <1>6, WayAppends
<1>8. ToDev(d, c, q, Append(w, f))
  BY <1>7 DEF ToDev, BlocksWay, AcksWay, new, told
<1> QED  BY <1>8 DEF Put

\* A frame is lost or taken, or goes into the queue or beside it.
LEMMA WiresShorten ==
  ASSUME NEW d, NEW c, NEW q \in Seq(FrameType), NEW w \in Seq(FrameType),
         NEW x \in Seq(FrameType)
  PROVE  /\ ToCtrl(d, c, x) /\ x # << >> => ToCtrl(d, c, Tail(x))
         /\ ToDev(d, c, q, w) /\ w # << >> => ToDev(d, c, q, Tail(w))
         /\ ToDev(d, c, q, w) /\ q # << >> => ToDev(d, c, Tail(q), w)
         /\ ToDev(d, c, q, w) /\ w # << >> => ToDev(d, c, Append(q, Head(w)), Tail(w))
<1>1. ASSUME ToCtrl(d, c, x), x # << >>  PROVE ToCtrl(d, c, Tail(x))
  <2>1. \A i \in DOMAIN Tail(x) : i + 1 \in DOMAIN x /\ Tail(x)[i] = x[i + 1]
    BY <1>1
  <2>2. \A i \in DOMAIN Tail(x) : Tail(x)[i].kind \in Carriers \cup {"junk"}
    BY <1>1, <2>1 DEF ToCtrl
  <2>3. << >> \in Seq(FrameType)  OBVIOUS
  <2> QED  BY <1>1, <2>2, <2>3, WayShortens DEF ToCtrl, BlocksWay, AcksWay
<1>2. ToDev(d, c, q, w) /\ w # << >> => ToDev(d, c, q, Tail(w))
  BY WayShortens DEF ToDev, BlocksWay, AcksWay
<1>3. ToDev(d, c, q, w) /\ q # << >> => ToDev(d, c, Tail(q), w)
  BY WayShortens DEF ToDev, BlocksWay, AcksWay
<1>4. ToDev(d, c, q, w) /\ w # << >> => ToDev(d, c, Append(q, Head(w)), Tail(w))
  BY WayQueues DEF ToDev, BlocksWay, AcksWay
<1> QED  BY <1>1, <1>2, <1>3, <1>4

-----------------------------------------------------------------------------
(* What the machines do.                                                      *)

\* The device hears that its block was taken.
LEMMA DevHears ==
  ASSUME NEW d \in DevType, NEW c \in CtrlType, NEW a \in AppType, NEW s,
         Machines(d, c, a, s), DOut(d), c.exp # d.seq,
         NEW e \in DevType, e.seq = NextSeq(d.seq), e.seqO = d.seq, e.exp = d.exp,
         e.expO = d.expO, ~ DOut(e), e.alpmi = d.alpmi,
         e.alpmr = IF d.alpmr = "W_TACK" THEN "W_NOTIFY" ELSE d.alpmr
  PROVE  Machines(e, c, a, s)
<1>1. Windows(d, c) /\ KeptBlocks(d, c) /\ DevCounts(d, c, a) /\ Ends(d, c, a)
      /\ Queued(d, a, s) /\ CtrlStale(d, c) /\ DevStale(d, c)
  BY DEF Machines
<1>2. Windows(e, c)
  <2>1. Window(NextSeq(d.seq), d.seq, c.exp, c.expO, FALSE)
    BY <1>1, WindowMoves DEF Windows
  <2> QED  BY <1>1, <2>1 DEF Windows, Window
<1>3. ~ DNew(d, c) /\ ~ DNew(e, c) /\ (CNew(e, c) <=> CNew(d, c)) /\ Begun(e, a) = Begun(d, a)
  BY DEF DNew, CNew, Begun
<1>4. KeptBlocks(e, c)  BY <1>1 DEF KeptBlocks
<1>5. DevCounts(e, c, a)  BY <1>1, <1>3 DEF DevCounts
<1>6. Ends(e, c, a)
  <2>1. e.alpmr = "W_USER_ACK" <=> d.alpmr = "W_USER_ACK"  OBVIOUS
  <2> QED  BY <1>1, <1>3, <2>1 DEF Ends, Bit
<1>7. Queued(e, a, s)  BY <1>1, <1>3 DEF Queued
<1>8. CtrlStale(e, c) /\ DevStale(e, c)  BY <1>1, <1>3 DEF CtrlStale, DevStale
<1> QED  BY <1>2, <1>4, <1>5, <1>6, <1>7, <1>8 DEF Machines

\* So does the controller.
LEMMA CtrlHears ==
  ASSUME NEW d \in DevType, NEW c \in CtrlType, NEW a \in AppType, NEW s,
         Machines(d, c, a, s), COut(c), d.exp # c.seq,
         NEW e \in CtrlType, e.seq = NextSeq(c.seq), e.seqO = c.seq, e.exp = c.exp,
         e.expO = c.expO, ~ COut(e), e.got = c.got, e.acked = c.acked,
         e.asked = c.asked, e.answered = c.answered
  PROVE  Machines(d, e, a, s)
<1>1. Windows(d, c) /\ KeptBlocks(d, c) /\ DevCounts(d, c, a) /\ Ends(d, c, a)
      /\ Queued(d, a, s) /\ CtrlStale(d, c) /\ DevStale(d, c)
  BY DEF Machines
<1>2. Windows(d, e)
  <2>1. Window(NextSeq(c.seq), c.seq, d.exp, d.expO, FALSE)
    BY <1>1, WindowMoves DEF Windows
  <2> QED  BY <1>1, <2>1 DEF Windows, Window
<1>3. ~ CNew(d, c) /\ ~ CNew(d, e) /\ (DNew(d, e) <=> DNew(d, c))
  BY DEF DNew, CNew
<1>4. KeptBlocks(d, e)  BY <1>1 DEF KeptBlocks
<1>5. DevCounts(d, e, a)  BY <1>1 DEF DevCounts
<1>6. Ends(d, e, a)  BY <1>1, <1>3 DEF Ends, Bit
<1>7. CtrlStale(d, e) /\ DevStale(d, e)  BY <1>1, <1>3 DEF CtrlStale, DevStale
<1> QED  BY <1>1, <1>2, <1>4, <1>5, <1>6, <1>7 DEF Machines

\* The numbers of a connection.
LEMMA Counted ==
  ASSUME NEW d \in DevType, NEW c \in CtrlType, NEW a \in AppType
  PROVE  /\ c.got \in Nat /\ c.acked \in Nat /\ c.asked \in Nat /\ c.answered \in Nat
         /\ a.posted \in Nat /\ a.confirmed \in Nat /\ a.indicated \in Nat
         /\ Begun(d, a) \in Nat
BY DEF CtrlType, AppType, Begun, Bit

\* The device takes an alarm of the controller.
LEMMA DevTakesNotify ==
  ASSUME NEW d \in DevType, NEW c \in CtrlType, NEW a \in AppType, NEW s,
         Machines(d, c, a, s), CNew(d, c), c.out.kind = "notify", d.alpmr = "W_NOTIFY",
         DOut(d) => c.out.ack # d.seq,
         NEW e \in DevType, e.seq = d.seq, e.seqO = d.seqO, e.exp = NextSeq(d.exp),
         e.expO = d.exp, e.apms = d.apms, e.rta = d.rta, e.alpmi = d.alpmi,
         e.alpmr = "W_USER_ACK",
         NEW b \in AppType, b.posted = a.posted, b.confirmed = a.confirmed,
         b.indicated = c.out.id
  PROVE  Machines(e, c, b, s) /\ b.indicated = a.indicated + 1 /\ b.indicated <= c.asked
<1>1. Windows(d, c) /\ KeptBlocks(d, c) /\ DevCounts(d, c, a) /\ Ends(d, c, a)
      /\ Queued(d, a, s) /\ CtrlStale(d, c) /\ DevStale(d, c)
  BY DEF Machines
<1>2. /\ d.exp = c.seq /\ COut(c) /\ NextSeq(c.seq) # c.seq
      /\ Window(c.seq, c.seqO, e.exp, e.expO, COut(c))
  <2>1. Window(c.seq, c.seqO, d.exp, d.expO, COut(c)) /\ d.exp = c.seq /\ COut(c)
    BY <1>1 DEF Windows, CNew
  <2>2. Window(c.seq, c.seqO, NextSeq(d.exp), d.exp, COut(c))
    BY <2>1, WindowMoves
  <2> QED  BY <2>1, <2>2, Phases
<1>3. Windows(e, c)  BY <1>1, <1>2 DEF Windows, DOut
<1>4. (DNew(e, c) <=> DNew(d, c)) /\ ~ CNew(e, c) /\ Begun(e, b) = Begun(d, a)
      /\ (DOut(e) <=> DOut(d))
  BY <1>2 DEF DNew, CNew, Begun, DOut
<1>5. ~ (DOut(d) /\ d.rta.kind = "answer") /\ ~ (DNew(d, c) /\ d.rta.kind = "answer")
  BY <1>1 DEF DevCounts, DNew
<1>6. /\ c.asked = a.indicated + 1 /\ c.out.id = c.asked /\ a.indicated = c.answered
      /\ c.acked = a.confirmed
  BY <1>1, <1>2, <1>5, Counted DEF Ends, Bit, DevCounts
<1>7. KeptBlocks(e, c)
  <2>1. DOut(d) => Late(d.rta.ack, d.exp)
    <3> SUFFICES ASSUME DOut(d)  PROVE Late(d.rta.ack, d.exp)  OBVIOUS
    <3>1. d.rta.ack = d.expO  BY <1>1 DEF DevStale
    <3>2. Succ(d.expO, d.exp)  BY <1>1, Phases DEF Windows
    <3> QED  BY <3>1, <3>2 DEF Late
  <2> QED  BY <1>1, <1>4, <2>1 DEF KeptBlocks, KeptBlock
<1>8. DevCounts(e, c, b)  BY <1>1, <1>4, <1>5, <1>6 DEF DevCounts
<1>9. Ends(e, c, b)  BY <1>1, <1>4, <1>5, <1>6, Counted DEF Ends, Bit
<1>10. Queued(e, b, s)  BY <1>1, <1>4 DEF Queued
<1>11. CtrlStale(e, c)  BY <1>1, <1>4 DEF CtrlStale
<1>12. DevStale(e, c)
  <2> SUFFICES ASSUME DNew(d, c)  PROVE c.acked = c.got /\ c.answered < c.asked
    BY <1>4 DEF DevStale
  <2>1. d.rta.kind = "notify"  BY <1>1, <1>5 DEF KeptBlocks, KeptBlock, DNew, Blocks
  <2> QED  BY <1>1, <1>6, <2>1, Counted DEF Ends, Bit, Begun
<1> QED  BY <1>3, <1>6, <1>7, <1>8, <1>9, <1>10, <1>11, <1>12, Counted DEF Machines

\* The device takes the answer to its alarm, which it waits for.
LEMMA DevTakesAnswer ==
  ASSUME NEW d \in DevType, NEW c \in CtrlType, NEW a \in AppType, NEW s,
         Machines(d, c, a, s), CNew(d, c), c.out.kind = "answer",
         DOut(d) => c.out.ack # d.seq,
         NEW e \in DevType, e.seq = d.seq, e.seqO = d.seqO, e.exp = NextSeq(d.exp),
         e.expO = d.exp, e.apms = d.apms, e.rta = d.rta,
         d.alpmi = "W_ACK" => e.alpmi = "W_ALARM", e.alpmr = d.alpmr,
         NEW b \in AppType, b.posted = a.posted, b.indicated = a.indicated,
         d.alpmi = "W_ACK" => b.confirmed = a.confirmed + 1
  PROVE  Machines(e, c, b, s) /\ d.alpmi = "W_ACK" /\ b.confirmed <= c.acked
<1>1. Windows(d, c) /\ KeptBlocks(d, c) /\ DevCounts(d, c, a) /\ Ends(d, c, a)
      /\ Queued(d, a, s) /\ CtrlStale(d, c) /\ DevStale(d, c)
  BY DEF Machines
<1>2. /\ d.exp = c.seq /\ COut(c) /\ NextSeq(c.seq) # c.seq
      /\ Window(c.seq, c.seqO, e.exp, e.expO, COut(c))
  <2>1. Window(c.seq, c.seqO, d.exp, d.expO, COut(c)) /\ d.exp = c.seq /\ COut(c)
    BY <1>1 DEF Windows, CNew
  <2>2. Window(c.seq, c.seqO, NextSeq(d.exp), d.exp, COut(c))
    BY <2>1, WindowMoves
  <2> QED  BY <2>1, <2>2, Phases
<1>3. Windows(e, c)  BY <1>1, <1>2 DEF Windows, DOut
<1>4. c.acked = a.confirmed + 1 /\ c.acked <= c.got /\ c.asked = a.indicated
  BY <1>1, Counted DEF Ends, Bit
<1>5. d.alpmi = "W_ACK" /\ c.got = Begun(d, a) /\ Begun(d, a) = a.confirmed + 1
      /\ ~ (DNew(d, c) /\ d.rta.kind = "notify")
  BY <1>1, <1>4, Counted DEF Ends, Bit, Begun
<1>6. (DNew(e, c) <=> DNew(d, c)) /\ ~ CNew(e, c) /\ Begun(e, b) = Begun(d, a)
      /\ (DOut(e) <=> DOut(d))
  BY <1>2, <1>5, Counted DEF DNew, CNew, Begun, DOut, Bit
<1>7. KeptBlocks(e, c)
  <2>1. DOut(d) => Late(d.rta.ack, d.exp)
    <3> SUFFICES ASSUME DOut(d)  PROVE Late(d.rta.ack, d.exp)  OBVIOUS
    <3>1. d.rta.ack = d.expO  BY <1>1 DEF DevStale
    <3>2. Succ(d.expO, d.exp)  BY <1>1, Phases DEF Windows
    <3> QED  BY <3>1, <3>2 DEF Late
  <2> QED  BY <1>1, <1>6, <2>1 DEF KeptBlocks, KeptBlock
<1>8. DevCounts(e, c, b)  BY <1>1, <1>5, <1>6 DEF DevCounts
<1>9. Ends(e, c, b)  BY <1>1, <1>4, <1>5, <1>6, Counted DEF Ends, Bit
<1>10. Queued(e, b, s)  BY <1>1, <1>6 DEF Queued
<1>11. CtrlStale(e, c)
  BY <1>1, <1>2, <1>6 DEF CtrlStale
<1>12. DevStale(e, c)
  <2> SUFFICES ASSUME DNew(d, c)  PROVE c.acked = c.got /\ c.answered < c.asked
    BY <1>6 DEF DevStale
  <2>1. d.rta.kind = "answer"  BY <1>1, <1>5 DEF KeptBlocks, KeptBlock, DNew, Blocks
  <2> QED  BY <1>1, <1>4, <1>5, <2>1, Counted DEF Ends, Bit
<1> QED  BY <1>3, <1>4, <1>5, <1>7, <1>8, <1>9, <1>10, <1>11, <1>12, Counted DEF Machines

\* The controller takes an alarm or an answer.
LEMMA CtrlTakes ==
  ASSUME NEW d \in DevType, NEW c \in CtrlType, NEW a \in AppType, NEW s \in Seq(Nat),
         Machines(d, c, a, s), DNew(d, c), COut(c) => d.rta.ack # c.seq,
         NEW e \in CtrlType, e.seq = c.seq, e.seqO = c.seqO, e.exp = NextSeq(c.exp),
         e.expO = c.exp, e.out = c.out, e.acked = c.acked, e.asked = c.asked,
         e.got = IF d.rta.kind = "notify" THEN d.rta.id ELSE c.got,
         e.answered = IF d.rta.kind = "notify" THEN c.answered ELSE d.rta.id
  PROVE  /\ Machines(d, e, a, s)
         /\ d.rta.kind = "notify" => e.got = c.got + 1 /\ e.got <= a.posted
         /\ d.rta.kind # "notify" => e.answered = c.answered + 1 /\ e.answered <= a.indicated
<1>1. Windows(d, c) /\ KeptBlocks(d, c) /\ DevCounts(d, c, a) /\ Ends(d, c, a)
      /\ Queued(d, a, s) /\ CtrlStale(d, c) /\ DevStale(d, c)
  BY DEF Machines
<1>2. /\ c.exp = d.seq /\ DOut(d) /\ NextSeq(d.seq) # d.seq
      /\ Window(d.seq, d.seqO, e.exp, e.expO, DOut(d))
  <2>1. Window(d.seq, d.seqO, c.exp, c.expO, DOut(d)) /\ c.exp = d.seq /\ DOut(d)
    BY <1>1 DEF Windows, DNew
  <2>2. Window(d.seq, d.seqO, NextSeq(c.exp), c.exp, DOut(d))
    BY <2>1, WindowMoves
  <2> QED  BY <2>1, <2>2, Phases
<1>3. Windows(d, e)  BY <1>1, <1>2 DEF Windows, COut
<1>4. (CNew(d, e) <=> CNew(d, c)) /\ ~ DNew(d, e) /\ (COut(e) <=> COut(c))
  BY <1>2 DEF DNew, CNew, COut
<1>5. KeptBlocks(d, e)
  <2>1. COut(c) => Late(c.out.ack, c.exp)
    <3> SUFFICES ASSUME COut(c)  PROVE Late(c.out.ack, c.exp)  OBVIOUS
    <3>1. c.out.ack = c.expO  BY <1>1 DEF CtrlStale
    <3>2. Succ(c.expO, c.exp)  BY <1>1, Phases DEF Windows
    <3> QED  BY <3>1, <3>2 DEF Late
  <2> QED  BY <1>1, <1>4, <2>1 DEF KeptBlocks, KeptBlock
<1>6. DevCounts(d, e, a)  BY <1>1, <1>4 DEF DevCounts
<1>7. DevStale(d, e)
  BY <1>1, <1>2, <1>4 DEF DevStale
<1>8. CASE d.rta.kind = "notify"
  <2>1. e.got = c.got + 1 /\ e.got = Begun(d, a) /\ e.answered = c.answered
    BY <1>1, <1>2, <1>8, Counted DEF Ends, Bit, DevCounts
  <2>2. Ends(d, e, a)  BY <1>1, <1>4, <1>8, <2>1, Counted DEF Ends, Bit
  <2>3. d.alpmi = "W_ACK" /\ ~ (CNew(d, c) /\ c.out.kind = "answer")
    BY <1>1, <1>8, Counted DEF Ends, Bit, Begun
  <2>4. CtrlStale(d, e)
    <3> SUFFICES ASSUME CNew(d, c), d.alpmr = "W_USER_ACK"  PROVE FALSE
      BY <1>4, <2>3 DEF CtrlStale
    <3>1. c.out.kind = "notify"  BY <1>1, <2>3 DEF KeptBlocks, KeptBlock, CNew, Blocks
    <3> QED  BY <1>1, <1>8, <3>1, Counted DEF Ends, Bit
  <2>5. e.got <= a.posted  BY <1>1, <2>1, Counted DEF Queued
  <2> QED  BY <1>1, <1>3, <1>5, <1>6, <1>7, <1>8, <2>1, <2>2, <2>4, <2>5 DEF Machines
<1>9. CASE d.rta.kind # "notify"
  <2>1. d.rta.kind = "answer" /\ d.alpmr = "W_TACK"
    BY <1>1, <1>2, <1>9 DEF KeptBlocks, KeptBlock, Blocks, DevCounts
  <2>2. e.got = c.got /\ e.answered = a.indicated /\ e.answered = c.answered + 1
    BY <1>1, <1>2, <2>1, Counted DEF Ends, Bit, DevCounts
  <2>3. ~ (CNew(d, c) /\ c.out.kind = "notify")
    BY <1>1, <2>2, Counted DEF Ends, Bit
  <2>4. Ends(d, e, a)  BY <1>1, <1>4, <1>9, <2>1, <2>2, <2>3, Counted DEF Ends, Bit
  <2>5. CtrlStale(d, e)
    <3> SUFFICES ASSUME CNew(d, c)  PROVE d.alpmi = "W_ACK"
      BY <1>4, <2>1 DEF CtrlStale
    <3>1. c.out.kind = "answer"  BY <1>1, <2>3 DEF KeptBlocks, KeptBlock, CNew, Blocks
    <3> QED  BY <1>1, <2>1, <3>1, Counted DEF Ends, Bit, Begun
  <2> QED  BY <1>1, <1>3, <1>5, <1>6, <1>7, <1>9, <2>2, <2>4, <2>5, Counted DEF Machines
<1> QED  BY <1>8, <1>9

\* The device sends a new block: the next alarm, or its answer.
LEMMA DevBegins ==
  ASSUME NEW d \in DevType, NEW c \in CtrlType, NEW a \in AppType, NEW s,
         Machines(d, c, a, s), ~ DOut(d),
         NEW e \in DevType, e.seq = d.seq, e.seqO = d.seqO, e.exp = d.exp,
         e.expO = d.expO, DOut(e), e.rta.seq = d.seq, e.rta.ack = d.expO,
         NEW t,
         \/ /\ e.rta.kind = "notify" /\ s \in Seq(Nat) /\ s # << >> /\ t = Tail(s)
            /\ e.rta.id = Head(s) /\ d.alpmi = "W_ALARM" /\ e.alpmi = "W_ACK"
            /\ e.alpmr = d.alpmr
         \/ /\ e.rta.kind = "answer" /\ d.alpmr = "W_USER_ACK" /\ t = s
            /\ e.rta.id = a.indicated /\ e.alpmr = "W_TACK" /\ e.alpmi = d.alpmi
  PROVE  Machines(e, c, a, t)
<1>1. Windows(d, c) /\ KeptBlocks(d, c) /\ DevCounts(d, c, a) /\ Ends(d, c, a)
      /\ Queued(d, a, s) /\ CtrlStale(d, c) /\ DevStale(d, c)
  BY DEF Machines
<1>2. Windows(e, c) /\ c.exp = d.seq
  BY <1>1 DEF Windows, Window
<1>3. (CNew(e, c) <=> CNew(d, c)) /\ ~ DNew(d, c) /\ DNew(e, c)
  BY <1>2 DEF DNew, CNew
<1>4. KeptBlocks(e, c)  BY <1>1 DEF KeptBlocks, KeptBlock, Late, Blocks
<1>5. DevStale(e, c)  BY DEF DevStale
<1>6. COut(c) /\ c.out.ack # c.expO => ~ CNew(d, c) /\ d.expO = c.seq
  <2>1. COut(c) /\ c.out.ack # c.expO => ~ CNew(d, c)  BY <1>1 DEF CtrlStale
  <2>2. COut(c) /\ ~ CNew(d, c) => d.expO = c.seq
    BY <1>1 DEF CNew, Windows, Window
  <2> QED  BY <2>1, <2>2
<1>7. CtrlStale(e, c)  BY <1>3, <1>6 DEF CtrlStale
<1>8. CASE /\ e.rta.kind = "notify" /\ s \in Seq(Nat) /\ s # << >> /\ t = Tail(s)
           /\ e.rta.id = Head(s) /\ d.alpmi = "W_ALARM" /\ e.alpmi = "W_ACK"
           /\ e.alpmr = d.alpmr
  <2>1. Begun(e, a) = Begun(d, a) + 1  BY <1>8, Counted DEF Begun, Bit
  <2>2. /\ Len(s) \in Nat /\ 1 \in DOMAIN s /\ Head(s) = s[1] /\ Len(t) = Len(s) - 1
        /\ \A i \in DOMAIN t : i \in Nat /\ i + 1 \in DOMAIN s /\ t[i] = s[i + 1]
    BY <1>8
  <2>3. Head(s) = Begun(e, a)  BY <1>1, <2>1, <2>2 DEF Queued
  <2>4. Queued(e, a, t)
    <3>1. a.posted = Begun(e, a) + Len(t)
      BY <1>1, <2>1, <2>2, Counted DEF Queued
    <3>2. \A i \in DOMAIN t : t[i] = Begun(e, a) + i
      <4> SUFFICES ASSUME NEW i \in DOMAIN t  PROVE t[i] = Begun(e, a) + i  OBVIOUS
      <4>1. t[i] = Begun(d, a) + (i + 1) /\ i \in Nat  BY <1>1, <2>2 DEF Queued
      <4> QED  BY <2>1, <4>1, Counted
    <3> QED  BY <3>1, <3>2 DEF Queued
  <2>5. DevCounts(e, c, a)  BY <1>1, <1>8, <2>3 DEF DevCounts
  <2>6. Ends(e, c, a)  BY <1>1, <1>3, <1>8, <2>1, Counted DEF Ends, Bit
  <2> QED  BY <1>2, <1>4, <1>5, <1>7, <2>4, <2>5, <2>6 DEF Machines
<1>9. CASE /\ e.rta.kind = "answer" /\ d.alpmr = "W_USER_ACK" /\ t = s
           /\ e.rta.id = a.indicated /\ e.alpmr = "W_TACK" /\ e.alpmi = d.alpmi
  <2>1. Begun(e, a) = Begun(d, a)  BY <1>9 DEF Begun
  <2>2. Queued(e, a, t)  BY <1>1, <1>9, <2>1 DEF Queued
  <2>3. DevCounts(e, c, a)  BY <1>1, <1>9 DEF DevCounts
  <2>4. Ends(e, c, a)  BY <1>1, <1>3, <1>9, <2>1, Counted DEF Ends, Bit
  <2> QED  BY <1>2, <1>4, <1>5, <1>7, <2>2, <2>3, <2>4 DEF Machines
<1> QED  BY <1>8, <1>9

\* The controller sends the answer to an alarm, or an alarm of its own.
LEMMA CtrlBegins ==
  ASSUME NEW d \in DevType, NEW c \in CtrlType, NEW a \in AppType, NEW s,
         Machines(d, c, a, s), ~ COut(c),
         NEW e \in CtrlType, e.seq = c.seq, e.seqO = c.seqO, e.exp = c.exp,
         e.expO = c.expO, COut(e), e.out.seq = c.seq, e.out.ack = c.expO,
         e.got = c.got, e.answered = c.answered,
         \/ /\ e.out.kind = "answer" /\ c.acked < c.got
            /\ e.acked = c.acked + 1 /\ e.asked = c.asked
         \/ /\ e.out.kind = "notify" /\ c.answered = c.asked
            /\ e.asked = c.asked + 1 /\ e.acked = c.acked /\ e.out.id = e.asked
  PROVE  Machines(d, e, a, s)
<1>1. Windows(d, c) /\ KeptBlocks(d, c) /\ DevCounts(d, c, a) /\ Ends(d, c, a)
      /\ Queued(d, a, s) /\ CtrlStale(d, c) /\ DevStale(d, c)
  BY DEF Machines
<1>2. Windows(d, e) /\ d.exp = c.seq
  BY <1>1 DEF Windows, Window
<1>3. (DNew(d, e) <=> DNew(d, c)) /\ ~ CNew(d, c) /\ CNew(d, e)
  BY <1>2 DEF DNew, CNew
<1>4. KeptBlocks(d, e)  BY <1>1 DEF KeptBlocks, KeptBlock, Late, Blocks
<1>5. CtrlStale(d, e)  BY DEF CtrlStale
<1>6. DOut(d) /\ d.rta.ack # d.expO => ~ DNew(d, c) /\ c.expO = d.seq
  <2>1. DOut(d) /\ d.rta.ack # d.expO => ~ DNew(d, c)  BY <1>1, Counted DEF DevStale
  <2>2. DOut(d) /\ ~ DNew(d, c) => c.expO = d.seq
    BY <1>1 DEF DNew, Windows, Window
  <2> QED  BY <2>1, <2>2
<1>7. DevStale(d, e)  BY <1>3, <1>6 DEF DevStale
<1>8. DevCounts(d, e, a)  BY <1>1 DEF DevCounts
<1>9. Ends(d, e, a)  BY <1>1, <1>3, Counted DEF Ends, Bit
<1> QED  BY <1>1, <1>2, <1>4, <1>5, <1>7, <1>8, <1>9 DEF Machines

\* The application posts an alarm.
LEMMA AppPosts ==
  ASSUME NEW d \in DevType, NEW c \in CtrlType, NEW a \in AppType, NEW s \in Seq(Nat),
         Machines(d, c, a, s), NEW b \in AppType, b.posted = a.posted + 1,
         b.confirmed = a.confirmed, b.indicated = a.indicated
  PROVE  Machines(d, c, b, Append(s, a.posted + 1))
<1> DEFINE t == Append(s, a.posted + 1)
<1>1. Windows(d, c) /\ KeptBlocks(d, c) /\ DevCounts(d, c, a) /\ Ends(d, c, a)
      /\ Queued(d, a, s) /\ CtrlStale(d, c) /\ DevStale(d, c)
  BY DEF Machines
<1>2. Begun(d, b) = Begun(d, a)  BY DEF Begun
<1>3. DevCounts(d, c, b) /\ Ends(d, c, b)  BY <1>1, <1>2 DEF DevCounts, Ends
<1>4. Queued(d, b, t)
  <2>1. a.posted + 1 \in Nat /\ Len(s) \in Nat  BY Counted
  <2>2. Len(t) = Len(s) + 1  BY <2>1
  <2>3. \A i \in DOMAIN t : (i \in DOMAIN s /\ t[i] = s[i]) \/ (i = Len(s) + 1 /\ t[i] = a.posted + 1)
    BY <2>1
  <2> HIDE DEF t
  <2>4. /\ a.posted = Begun(d, a) + Len(s) /\ Begun(d, a) \in Nat
        /\ \A i \in DOMAIN s : s[i] = Begun(d, a) + i
    BY <1>1, Counted DEF Queued
  <2>5. b.posted = Begun(d, b) + Len(t)  BY <1>2, <2>1, <2>2, <2>4
  <2>6. \A i \in DOMAIN t : t[i] = Begun(d, b) + i
    BY <1>2, <2>1, <2>3, <2>4
  <2> QED  BY <2>5, <2>6 DEF Queued
<1> QED  BY <1>1, <1>3, <1>4 DEF Machines

\* What is not kept and how often a frame is still sent again play no part.
LEMMA DevAlike ==
  ASSUME NEW d \in DevType, NEW c \in CtrlType, NEW a \in AppType, NEW s,
         NEW q, NEW w, NEW x,
         Conn(d, c, a, s, q, w, x),
         NEW e \in DevType, e.seq = d.seq, e.seqO = d.seqO, e.exp = d.exp,
         e.expO = d.expO, e.apms = d.apms, e.alpmi = d.alpmi, e.alpmr = d.alpmr,
         DOut(d) => e.rta = d.rta
  PROVE  Conn(e, c, a, s, q, w, x)
<1>1. Windows(d, c) /\ KeptBlocks(d, c) /\ DevCounts(d, c, a) /\ Ends(d, c, a)
      /\ Queued(d, a, s) /\ CtrlStale(d, c) /\ DevStale(d, c)
  BY DEF Machines, Conn
<1>2. /\ DOut(e) = DOut(d) /\ (DNew(e, c) <=> DNew(d, c)) /\ (CNew(e, c) <=> CNew(d, c))
      /\ Begun(e, a) = Begun(d, a)
  BY DEF DOut, DNew, CNew, Begun
<1>3. Windows(e, c) /\ KeptBlocks(e, c) /\ DevCounts(e, c, a)
  BY <1>1, <1>2 DEF Windows, KeptBlocks, DevCounts
<1>4. Ends(e, c, a)
  <2>1. DNew(d, c) => e.rta = d.rta  BY DEF DNew
  <2>2. /\ (DNew(e, c) /\ e.rta.kind = "notify") <=> (DNew(d, c) /\ d.rta.kind = "notify")
        /\ (DNew(e, c) /\ e.rta.kind = "answer") <=> (DNew(d, c) /\ d.rta.kind = "answer")
    BY <1>2, <2>1
  <2> QED  BY <1>1, <1>2, <2>2 DEF Ends, Bit
<1>5. Queued(e, a, s) /\ CtrlStale(e, c) /\ DevStale(e, c)
  BY <1>1, <1>2 DEF Queued, CtrlStale, DevStale, DNew
<1>6. ToDev(e, c, q, w)
  BY DEF ToDev, Conn
<1>7. ToCtrl(e, c, x)
  <2>1. Copies(e.rta, DOut(e), c.exp = e.seq, e.seqO) = Copies(d.rta, DOut(d), c.exp = d.seq, d.seqO)
    BY <1>2 DEF Copies
  <2> QED  BY <2>1 DEF ToCtrl, Conn, BlocksWay
<1> QED  BY <1>3, <1>4, <1>5, <1>6, <1>7 DEF Conn, Machines

-----------------------------------------------------------------------------
(* Machines, queues and wires together.                                       *)

\* The device looks at what the frame acknowledges.
LEMMA DevHearsFrame ==
  ASSUME NEW d \in DevType, NEW c \in CtrlType, NEW a \in AppType, NEW s,
         NEW q \in Seq(FrameType), NEW w \in Seq(FrameType), NEW x \in Seq(FrameType),
         Conn(d, c, a, s, q, w, x), KeptBy(d), q # << >>,
         NEW f, f = Head(q), f.kind \in Carriers \cup {"unknown"},
         NEW e, e = Acknowledged(d, f)
  PROVE  /\ Conn(e, c, a, s, q, w, x)
         /\ e \in DevType /\ e.exp = d.exp /\ e.expO = d.expO
         /\ DOut(e) => f.ack # e.seq
<1>1. /\ Machines(d, c, a, s) /\ ToDev(d, c, q, w) /\ ToCtrl(d, c, x)
      /\ Windows(d, c) /\ KeptBlocks(d, c)
  BY DEF Conn, Machines
<1>2. First(q, w, f)  BY DEF First
<1>3. f \in FrameType /\ f \in Foreign /\ f \in Acks(c.expO, c.exp = d.seq, d.seqO)
  BY <1>1, <1>2, WayFirst DEF ToDev, AcksWay
<1>4. e \in DevType  BY <1>3, AcknowledgedDev
<1>5. e.exp = d.exp /\ e.expO = d.expO  BY DEF Acknowledged, DevType
<1>6. Window(d.seq, d.seqO, c.exp, c.expO, DOut(d))  BY <1>1 DEF Windows
<1>7. CASE DOut(d) /\ f.ack = d.seq
  <2>1. f.kind \in Carriers
    <3>1. d.seq # Before  BY <1>6, Phases
    <3> QED  BY <1>3, <1>7, <3>1 DEF Foreign
  <2>2. c.exp # d.seq  BY <1>3, <1>6, <1>7, <2>1, AckOfTaken
  <2>3. /\ c.expO = d.seq /\ c.exp = NextSeq(d.seq) /\ NextSeq(d.seq) # d.seq
        /\ d.seq # d.seqO
    BY <1>6, <2>2, Phases
  <2>4. /\ e.seq = NextSeq(d.seq) /\ e.seqO = d.seq /\ e.apms = "OPEN" /\ e.alpmi = d.alpmi
        /\ e.alpmr = IF d.alpmr = "W_TACK" THEN "W_NOTIFY" ELSE d.alpmr
    BY <1>7 DEF Acknowledged, DevType, DOut
  <2>5. DOut(e) = FALSE /\ (c.exp = d.seq) = FALSE /\ (c.exp = e.seq) = TRUE
    BY <2>2, <2>3, <2>4 DEF DOut
  <2>6. Machines(e, c, a, s)  BY <1>1, <1>4, <1>5, <1>7, <2>2, <2>4, <2>5, DevHears
  <2>7. << >> \in Seq(FrameType)  OBVIOUS
  <2>8. ToCtrl(e, c, x)
    <3>1. BlocksWay(<< >>, x, d.rta, DOut(d), FALSE, d.seq, d.seqO)
      BY <1>1, <2>5 DEF ToCtrl
    <3>2. DOut(d) => d.rta.seq = d.seq  BY <1>1 DEF KeptBlocks, KeptBlock
    <3>3. BlocksWay(<< >>, x, e.rta, FALSE, TRUE, e.seq, d.seq)
      <4>1. e.seq # d.seq  BY <2>3, <2>4
      <4> QED  BY <2>7, <3>1, <3>2, <4>1, BlocksEnd
    <3> QED  BY <1>1, <1>5, <2>4, <2>5, <3>3 DEF ToCtrl
  <2>9. ToDev(e, c, q, w)
    <3>1. c.expO \in SeqNums  BY DEF CtrlType
    <3>2. AcksWay(q, w, c.expO, TRUE, e.seqO)
      BY <1>1, <1>2, <1>7, <2>1, <2>3, <3>1, AcksMove DEF ToDev
    <3> QED  BY <1>1, <1>5, <2>5, <3>2 DEF ToDev
  <2> QED  BY <1>4, <1>5, <2>5, <2>6, <2>8, <2>9 DEF Conn
<1>8. CASE ~ (DOut(d) /\ f.ack = d.seq)
  <2>1. e = d  BY <1>8 DEF Acknowledged, DOut
  <2> QED  BY <1>4, <1>8, <2>1
<1> QED  BY <1>7, <1>8

\* A new block: the device takes it, and what it tells the application is one more.
LEMMA DevTakesFrame ==
  ASSUME NEW d \in DevType, NEW c \in CtrlType, NEW a \in AppType, NEW s,
         NEW q \in Seq(FrameType), NEW w \in Seq(FrameType), NEW x \in Seq(FrameType),
         Conn(d, c, a, s, q, w, x), q # << >>,
         NEW f, f = Head(q), f.kind \in Blocks, f.seq = d.exp, DOut(d) => f.ack # d.seq,
         f.kind = "notify" => d.alpmr = "W_NOTIFY",
         NEW e \in DevType, e.seq = d.seq, e.seqO = d.seqO, e.exp = NextSeq(d.exp),
         e.expO = d.exp, e.apms = d.apms, e.rta = d.rta,
         e.alpmi = IF f.kind = "answer" /\ d.alpmi = "W_ACK" THEN "W_ALARM" ELSE d.alpmi,
         e.alpmr = IF f.kind = "notify" THEN "W_USER_ACK" ELSE d.alpmr,
         NEW b, b = Told(a, d, f)
  PROVE  /\ Conn(e, c, b, s, q, w, x) /\ b \in AppType /\ b.posted = a.posted
         /\ \/ b.indicated = a.indicated + 1 /\ a.indicated < c.asked /\ b.confirmed = a.confirmed
            \/ b.confirmed = a.confirmed + 1 /\ a.confirmed < c.acked /\ b.indicated = a.indicated
<1>1. /\ Machines(d, c, a, s) /\ ToDev(d, c, q, w) /\ ToCtrl(d, c, x)
      /\ Windows(d, c) /\ KeptBlocks(d, c)
  BY DEF Conn, Machines
<1>2. First(q, w, f)  BY DEF First
<1>3. f \in FrameType /\ f \in Copies(c.out, COut(c), d.exp = c.seq, c.seqO)
  BY <1>1, <1>2, WayFirst DEF ToDev, BlocksWay
<1>4. Window(c.seq, c.seqO, d.exp, d.expO, COut(c))  BY <1>1 DEF Windows
<1>5. d.exp = c.seq /\ COut(c) /\ f = c.out
  <2>1. COut(c) => c.out.seq = c.seq  BY <1>1 DEF KeptBlocks, KeptBlock
  <2>2. (COut(c) /\ f = c.out) \/ (d.exp = c.seq /\ f.seq = c.seqO)
    BY <1>3 DEF Copies
  <2>3. c.seq # c.seqO  BY <1>4, Phases
  <2> QED  BY <2>1, <2>2, <2>3
<1>6. CNew(d, c)  BY <1>5 DEF CNew
<1>7. /\ c.seq # c.seqO /\ d.expO = c.seqO /\ Succ(d.expO, d.exp) /\ NextSeq(d.exp) # c.seq
  <2>1. /\ c.seq # c.seqO /\ NextSeq(c.seq) # c.seq /\ Succ(d.expO, d.exp)
        /\ d.exp = c.seq => d.expO = c.seqO
    BY <1>4, Phases
  <2> QED  BY <1>5, <2>1
<1>8. b \in AppType /\ b.posted = a.posted
  <2>1. f.id \in Nat  BY <1>3 DEF FrameType
  <2>2. a.confirmed + 1 \in Nat  BY DEF AppType
  <2> QED  BY <2>1, <2>2 DEF Told, AppType
<1>9. /\ Machines(e, c, b, s)
      /\ \/ b.indicated = a.indicated + 1 /\ a.indicated < c.asked /\ b.confirmed = a.confirmed
         \/ b.confirmed = a.confirmed + 1 /\ a.confirmed < c.acked /\ b.indicated = a.indicated
  <2>1. CASE f.kind = "notify"
    <3>1. b.confirmed = a.confirmed /\ b.indicated = c.out.id
      BY <1>5, <2>1 DEF Told, AppType
    <3>2. e.alpmi = d.alpmi /\ e.alpmr = "W_USER_ACK" /\ d.alpmr = "W_NOTIFY"  BY <2>1
    <3>3. Machines(e, c, b, s) /\ b.indicated = a.indicated + 1 /\ b.indicated <= c.asked
      BY <1>1, <1>5, <1>6, <1>8, <2>1, <3>1, <3>2, DevTakesNotify
    <3> QED  BY <1>8, <3>1, <3>3, Counted
  <2>2. CASE f.kind = "answer"
    <3>1. /\ b.indicated = a.indicated
          /\ d.alpmi = "W_ACK" => b.confirmed = a.confirmed + 1
      BY <2>2 DEF Told, AppType
    <3>2. (d.alpmi = "W_ACK" => e.alpmi = "W_ALARM") /\ e.alpmr = d.alpmr  BY <2>2
    <3>3. Machines(e, c, b, s) /\ d.alpmi = "W_ACK" /\ b.confirmed <= c.acked
      BY <1>1, <1>5, <1>6, <1>8, <2>2, <3>1, <3>2, DevTakesAnswer
    <3> QED  BY <1>8, <3>1, <3>3, Counted
  <2> QED  BY <2>1, <2>2 DEF Blocks
<1>10. (d.exp = c.seq) = TRUE /\ (e.exp = c.seq) = FALSE /\ DOut(e) = DOut(d)
  BY <1>5, <1>7 DEF DOut
<1>11. << >> \in Seq(FrameType) /\ d.exp \in SeqNums /\ d.expO \in SeqNums  BY DEF DevType
<1>12. ToCtrl(e, c, x)
  <2>1. AcksWay(<< >>, x, d.expO, TRUE, c.seqO)  BY <1>1, <1>10 DEF ToCtrl
  <2>2. AcksWay(<< >>, x, d.exp, FALSE, d.expO)
    BY <1>7, <1>11, <2>1, AcksMove
  <2> QED  BY <1>1, <1>7, <1>10, <2>2 DEF ToCtrl
<1>13. ToDev(e, c, q, w)
  <2>1. BlocksWay(q, w, c.out, COut(c), TRUE, c.seq, c.seqO)  BY <1>1, <1>10 DEF ToDev
  <2>2. f.seq = c.seq  BY <1>5
  <2>3. BlocksWay(q, w, c.out, COut(c), FALSE, c.seq, c.seqO)
    BY <1>2, <1>7, <2>1, <2>2, BlocksTaken
  <2> QED  BY <1>1, <1>10, <2>3 DEF ToDev
<1> QED  BY <1>8, <1>9, <1>12, <1>13 DEF Conn

\* The controller looks at what the frame acknowledges.
LEMMA CtrlHearsFrame ==
  ASSUME NEW d \in DevType, NEW c \in CtrlType, NEW a \in AppType, NEW s,
         NEW q \in Seq(FrameType), NEW w \in Seq(FrameType), NEW x \in Seq(FrameType),
         Conn(d, c, a, s, q, w, x), x # << >>,
         NEW f, f = Head(x), f.kind \in Carriers,
         NEW e, e = CtrlAcked(c, f)
  PROVE  /\ Conn(d, e, a, s, q, w, x)
         /\ e \in CtrlType /\ e.exp = c.exp /\ e.expO = c.expO /\ e.acked = c.acked
         /\ e.asked = c.asked /\ e.got = c.got /\ e.answered = c.answered
         /\ COut(e) => f.ack # e.seq
<1>1. /\ Machines(d, c, a, s) /\ ToDev(d, c, q, w) /\ ToCtrl(d, c, x)
      /\ Windows(d, c) /\ KeptBlocks(d, c)
  BY DEF Conn, Machines
<1>2. First(<< >>, x, f) /\ << >> \in Seq(FrameType)  BY DEF First
<1>3. f \in FrameType /\ f \in Acks(d.expO, d.exp = c.seq, c.seqO)
  BY <1>1, <1>2, WayFirst DEF ToCtrl, AcksWay
<1>4. e \in CtrlType  BY <1>3, CtrlAckedType
<1>5. /\ e.exp = c.exp /\ e.expO = c.expO /\ e.acked = c.acked
      /\ e.asked = c.asked /\ e.got = c.got /\ e.answered = c.answered
  BY DEF CtrlAcked, CtrlType
<1>6. Window(c.seq, c.seqO, d.exp, d.expO, COut(c))  BY <1>1 DEF Windows
<1>7. CASE COut(c) /\ f.ack = c.seq
  <2>1. d.exp # c.seq  BY <1>3, <1>6, <1>7, AckOfTaken
  <2>2. /\ d.expO = c.seq /\ d.exp = NextSeq(c.seq) /\ NextSeq(c.seq) # c.seq
        /\ c.seq # c.seqO
    BY <1>6, <2>1, Phases
  <2>3. e.seq = NextSeq(c.seq) /\ e.seqO = c.seq /\ e.out = NoFrame
    BY <1>7 DEF CtrlAcked, CtrlType, COut
  <2>4. COut(e) = FALSE /\ (d.exp = c.seq) = FALSE /\ (d.exp = e.seq) = TRUE
    BY <2>1, <2>2, <2>3 DEF COut
  <2>5. Machines(d, e, a, s)  BY <1>1, <1>4, <1>5, <1>7, <2>1, <2>3, <2>4, CtrlHears
  <2>6. ToDev(d, e, q, w)
    <3>1. BlocksWay(q, w, c.out, COut(c), FALSE, c.seq, c.seqO)
      BY <1>1, <2>4 DEF ToDev
    <3>2. COut(c) => c.out.seq = c.seq  BY <1>1 DEF KeptBlocks, KeptBlock
    <3>3. BlocksWay(q, w, e.out, FALSE, TRUE, e.seq, c.seq)
      <4>1. e.seq # c.seq  BY <2>2, <2>3
      <4> QED  BY <3>1, <3>2, <4>1, BlocksEnd
    <3> QED  BY <1>1, <1>5, <2>3, <2>4, <3>3 DEF ToDev
  <2>7. ToCtrl(d, e, x)
    <3>1. d.expO \in SeqNums  BY DEF DevType
    <3>2. AcksWay(<< >>, x, d.expO, TRUE, e.seqO)
      BY <1>1, <1>2, <1>7, <2>2, <3>1, AcksMove DEF ToCtrl
    <3> QED  BY <1>1, <1>5, <2>4, <3>2 DEF ToCtrl
  <2> QED  BY <1>4, <1>5, <2>4, <2>5, <2>6, <2>7 DEF Conn
<1>8. CASE ~ (COut(c) /\ f.ack = c.seq)
  <2>1. e = c  BY <1>8 DEF CtrlAcked, COut
  <2> QED  BY <1>4, <1>8, <2>1
<1> QED  BY <1>7, <1>8

\* A new block: the controller takes it, and it is the next.
LEMMA CtrlTakesFrame ==
  ASSUME NEW d \in DevType, NEW c \in CtrlType, NEW a \in AppType, NEW s \in Seq(Nat),
         NEW q \in Seq(FrameType), NEW w \in Seq(FrameType), NEW x \in Seq(FrameType),
         Conn(d, c, a, s, q, w, x), x # << >>,
         NEW f, f = Head(x), f.kind \in Blocks, f.seq = c.exp, COut(c) => f.ack # c.seq,
         NEW e \in CtrlType, e.seq = c.seq, e.seqO = c.seqO, e.exp = NextSeq(c.exp),
         e.expO = c.exp, e.out = c.out, e.acked = c.acked, e.asked = c.asked,
         e.got = IF f.kind = "notify" THEN f.id ELSE c.got,
         e.answered = IF f.kind = "notify" THEN c.answered ELSE f.id
  PROVE  /\ Conn(d, e, a, s, q, w, x)
         /\ \/ e.got = c.got + 1 /\ c.got < a.posted /\ e.answered = c.answered
            \/ e.answered = c.answered + 1 /\ c.answered < a.indicated /\ e.got = c.got
<1>1. /\ Machines(d, c, a, s) /\ ToDev(d, c, q, w) /\ ToCtrl(d, c, x)
      /\ Windows(d, c) /\ KeptBlocks(d, c)
  BY DEF Conn, Machines
<1>2. First(<< >>, x, f) /\ << >> \in Seq(FrameType)  BY DEF First
<1>3. f \in FrameType /\ f \in Copies(d.rta, DOut(d), c.exp = d.seq, d.seqO)
  BY <1>1, <1>2, WayFirst DEF ToCtrl, BlocksWay
<1>4. Window(d.seq, d.seqO, c.exp, c.expO, DOut(d))  BY <1>1 DEF Windows
<1>5. c.exp = d.seq /\ DOut(d) /\ f = d.rta
  <2>1. DOut(d) => d.rta.seq = d.seq  BY <1>1 DEF KeptBlocks, KeptBlock
  <2>2. (DOut(d) /\ f = d.rta) \/ (c.exp = d.seq /\ f.seq = d.seqO)
    BY <1>3 DEF Copies
  <2>3. d.seq # d.seqO  BY <1>4, Phases
  <2> QED  BY <2>1, <2>2, <2>3
<1>6. DNew(d, c)  BY <1>5 DEF DNew
<1>7. /\ d.seq # d.seqO /\ c.expO = d.seqO /\ Succ(c.expO, c.exp) /\ NextSeq(c.exp) # d.seq
  <2>1. /\ d.seq # d.seqO /\ NextSeq(d.seq) # d.seq /\ Succ(c.expO, c.exp)
        /\ c.exp = d.seq => c.expO = d.seqO
    BY <1>4, Phases
  <2> QED  BY <1>5, <2>1
<1>8. /\ Machines(d, e, a, s)
      /\ f.kind = "notify" => e.got = c.got + 1 /\ e.got <= a.posted
      /\ f.kind # "notify" => e.answered = c.answered + 1 /\ e.answered <= a.indicated
  BY <1>1, <1>5, <1>6, CtrlTakes
<1>9. (c.exp = d.seq) = TRUE /\ (e.exp = d.seq) = FALSE /\ COut(e) = COut(c)
  BY <1>5, <1>7 DEF COut
<1>10. c.exp \in SeqNums /\ c.expO \in SeqNums  BY DEF CtrlType
<1>11. ToDev(d, e, q, w)
  <2>1. AcksWay(q, w, c.expO, TRUE, d.seqO)  BY <1>1, <1>9 DEF ToDev
  <2>2. AcksWay(q, w, c.exp, FALSE, c.expO)
    BY <1>7, <1>10, <2>1, AcksMove
  <2> QED  BY <1>1, <1>7, <1>9, <2>2 DEF ToDev
<1>12. ToCtrl(d, e, x)
  <2>1. BlocksWay(<< >>, x, d.rta, DOut(d), TRUE, d.seq, d.seqO)  BY <1>1, <1>9 DEF ToCtrl
  <2>2. f.seq = d.seq  BY <1>5
  <2>3. BlocksWay(<< >>, x, d.rta, DOut(d), FALSE, d.seq, d.seqO)
    BY <1>2, <1>7, <2>1, <2>2, BlocksTaken
  <2> QED  BY <1>1, <1>9, <2>3 DEF ToCtrl
<1>13. \/ e.got = c.got + 1 /\ c.got < a.posted /\ e.answered = c.answered
       \/ e.answered = c.answered + 1 /\ c.answered < a.indicated /\ e.got = c.got
  BY <1>8, Counted
<1> QED  BY <1>8, <1>11, <1>12, <1>13 DEF Conn
\* A frame is sent besides, or one is lost, taken or queued.
LEMMA Passes ==
  ASSUME NEW d, NEW c, NEW a, NEW s,
         NEW q \in Seq(FrameType), NEW w \in Seq(FrameType), NEW x \in Seq(FrameType),
         Conn(d, c, a, s, q, w, x)
  PROVE  /\ \A f : DevSends(d, f) => Conn(d, c, a, s, q, w, Put(x, f))
         /\ \A f : CtrlSends(c, f) => Conn(d, c, a, s, q, Put(w, f), x)
         /\ x # << >> => Conn(d, c, a, s, q, w, Tail(x))
         /\ w # << >> => Conn(d, c, a, s, q, Tail(w), x)
         /\ q # << >> => Conn(d, c, a, s, Tail(q), w, x)
         /\ w # << >> => Conn(d, c, a, s, Append(q, Head(w)), Tail(w), x)
<1>1. Machines(d, c, a, s) /\ ToDev(d, c, q, w) /\ ToCtrl(d, c, x) /\ KeptBlocks(d, c)
  BY DEF Conn, Machines
<1>2. ASSUME NEW f, DevSends(d, f)  PROVE Conn(d, c, a, s, q, w, Put(x, f))
  <2>1. ToCtrl(d, c, Put(x, f))  BY <1>1, <1>2, ToCtrlPuts
  <2> QED  BY <1>1, <2>1 DEF Conn
<1>3. ASSUME NEW f, CtrlSends(c, f)  PROVE Conn(d, c, a, s, q, Put(w, f), x)
  <2>1. ToDev(d, c, q, Put(w, f))  BY <1>1, <1>3, ToDevPuts
  <2> QED  BY <1>1, <2>1 DEF Conn
<1>4. /\ x # << >> => Conn(d, c, a, s, q, w, Tail(x))
      /\ w # << >> => Conn(d, c, a, s, q, Tail(w), x)
      /\ q # << >> => Conn(d, c, a, s, Tail(q), w, x)
      /\ w # << >> => Conn(d, c, a, s, Append(q, Head(w)), Tail(w), x)
  BY <1>1, WiresShorten DEF Conn
<1> QED  BY <1>2, <1>3, <1>4

\* A new block of the device goes out.
LEMMA DevSendsBlock ==
  ASSUME NEW d \in DevType, NEW c \in CtrlType, NEW a \in AppType, NEW s,
         NEW q \in Seq(FrameType), NEW w \in Seq(FrameType), NEW x \in Seq(FrameType),
         Conn(d, c, a, s, q, w, x), ~ DOut(d),
         NEW e \in DevType, e.seq = d.seq, e.seqO = d.seqO, e.exp = d.exp,
         e.expO = d.expO, DOut(e), e.rta.seq = d.seq, e.rta.ack = d.expO,
         NEW t,
         \/ /\ e.rta.kind = "notify" /\ s \in Seq(Nat) /\ s # << >> /\ t = Tail(s)
            /\ e.rta.id = Head(s) /\ d.alpmi = "W_ALARM" /\ e.alpmi = "W_ACK"
            /\ e.alpmr = d.alpmr
         \/ /\ e.rta.kind = "answer" /\ d.alpmr = "W_USER_ACK" /\ t = s
            /\ e.rta.id = a.indicated /\ e.alpmr = "W_TACK" /\ e.alpmi = d.alpmi
  PROVE  Conn(e, c, a, t, q, w, Put(x, e.rta))
<1>1. Machines(d, c, a, s) /\ ToDev(d, c, q, w) /\ ToCtrl(d, c, x)
  BY DEF Conn, Machines
<1>2. Machines(e, c, a, t)  BY <1>1, DevBegins
<1>3. ToDev(e, c, q, w)  BY <1>1 DEF ToDev
<1>4. ToCtrl(e, c, x)
  <2>1. DOut(d) = FALSE /\ DOut(e) = TRUE  BY DEF DOut
  <2>2. BlocksWay(<< >>, x, d.rta, FALSE, c.exp = d.seq, d.seq, d.seqO)
    BY <1>1, <2>1 DEF ToCtrl
  <2>3. BlocksWay(<< >>, x, e.rta, TRUE, c.exp = d.seq, d.seq, d.seqO)
    BY <2>2, BlocksBegin
  <2> QED  BY <1>1, <2>1, <2>3 DEF ToCtrl
<1>5. DevSends(e, e.rta)
  <2>1. e.rta \in FrameType  BY DEF DevType
  <2> QED  BY <2>1 DEF DevSends, Late, Carriers, Blocks
<1> QED  BY <1>2, <1>3, <1>4, <1>5, Passes DEF Conn

\* A new block of the controller goes out.
LEMMA CtrlSendsBlock ==
  ASSUME NEW d \in DevType, NEW c \in CtrlType, NEW a \in AppType, NEW s,
         NEW q \in Seq(FrameType), NEW w \in Seq(FrameType), NEW x \in Seq(FrameType),
         Conn(d, c, a, s, q, w, x), ~ COut(c),
         NEW e \in CtrlType, e.seq = c.seq, e.seqO = c.seqO, e.exp = c.exp,
         e.expO = c.expO, COut(e), e.out.seq = c.seq, e.out.ack = c.expO,
         e.got = c.got, e.answered = c.answered,
         \/ /\ e.out.kind = "answer" /\ c.acked < c.got
            /\ e.acked = c.acked + 1 /\ e.asked = c.asked
         \/ /\ e.out.kind = "notify" /\ c.answered = c.asked
            /\ e.asked = c.asked + 1 /\ e.acked = c.acked /\ e.out.id = e.asked
  PROVE  Conn(d, e, a, s, q, Put(w, e.out), x)
<1>1. Machines(d, c, a, s) /\ ToDev(d, c, q, w) /\ ToCtrl(d, c, x)
  BY DEF Conn, Machines
<1>2. Machines(d, e, a, s)  BY <1>1, CtrlBegins
<1>3. ToCtrl(d, e, x)  BY <1>1 DEF ToCtrl
<1>4. ToDev(d, e, q, w)
  <2>1. COut(c) = FALSE /\ COut(e) = TRUE  BY DEF COut
  <2>2. BlocksWay(q, w, c.out, FALSE, d.exp = c.seq, c.seq, c.seqO)
    BY <1>1, <2>1 DEF ToDev
  <2>3. BlocksWay(q, w, e.out, TRUE, d.exp = c.seq, c.seq, c.seqO)
    BY <2>2, BlocksBegin
  <2> QED  BY <1>1, <2>1, <2>3 DEF ToDev
<1>5. CtrlSends(e, e.out)
  <2>1. e.out \in FrameType  BY DEF CtrlType
  <2> QED  BY <2>1 DEF CtrlSends, Late, Carriers, Blocks
<1> QED  BY <1>2, <1>3, <1>4, <1>5, Passes DEF Conn

\* A connection begins.
LEMMA ConnStarts == Conn(Activated, NoCtrl, NoApp, << >>, << >>, << >>, << >>)
<1> DEFINE d == Activated   c == NoCtrl   a == NoApp
<1>1. /\ d.apms = "OPEN" /\ d.alpmi = "W_ALARM" /\ d.alpmr = "W_NOTIFY"
      /\ d.seq = Start /\ d.seqO = Before /\ d.exp = Start /\ d.expO = Before
  BY DEF Activated, Closed
<1>2. /\ c.seq = Start /\ c.seqO = Before /\ c.exp = Start /\ c.expO = Before
      /\ c.out = NoFrame /\ c.got = 0 /\ c.acked = 0 /\ c.asked = 0 /\ c.answered = 0
  BY DEF NoCtrl
<1>3. a.posted = 0 /\ a.confirmed = 0 /\ a.indicated = 0  BY DEF NoApp
<1> HIDE DEF d, c, a
<1>4. ~ DOut(d) /\ ~ COut(c) /\ ~ DNew(d, c) /\ ~ CNew(d, c) /\ Begun(d, a) = 0
  BY <1>1, <1>2, <1>3 DEF DOut, COut, DNew, CNew, Begun, Bit
<1>5. Windows(d, c)
  <2>1. Start \in SeqNums /\ Before \in SeqNums /\ Succ(Before, Start)
    BY Constants DEF Succ
  <2> QED  BY <1>1, <1>2, <2>1 DEF Windows, Window
<1>6. KeptBlocks(d, c) /\ CtrlStale(d, c) /\ DevStale(d, c)
  BY <1>4 DEF KeptBlocks, CtrlStale, DevStale
<1>7. DevCounts(d, c, a) /\ Ends(d, c, a)
  <2>1. DevCounts(d, c, a)  BY <1>1, <1>4 DEF DevCounts
  <2>2. /\ Bit(DNew(d, c) /\ d.rta.kind = "notify") = 0
        /\ Bit(DNew(d, c) /\ d.rta.kind = "answer") = 0
        /\ Bit(CNew(d, c) /\ c.out.kind = "notify") = 0
        /\ Bit(CNew(d, c) /\ c.out.kind = "answer") = 0
        /\ Bit(d.alpmr = "W_USER_ACK") = 0
    BY <1>1, <1>4 DEF Bit
  <2> QED  BY <1>2, <1>3, <1>4, <2>1, <2>2 DEF Ends
<1>8. Queued(d, a, << >>)  BY <1>3, <1>4 DEF Queued
<1>9. Machines(d, c, a, << >>)  BY <1>5, <1>6, <1>7, <1>8 DEF Machines
<1>10. ToDev(d, c, << >>, << >>) /\ ToCtrl(d, c, << >>)
  BY DEF ToDev, ToCtrl, BlocksWay, AcksWay, Way
<1> QED  BY <1>9, <1>10 DEF Conn, d, c, a
-----------------------------------------------------------------------------
(* The handlers of one priority.                                              *)

AppSame(a, b) ==
  b.posted = a.posted /\ b.confirmed = a.confirmed /\ b.indicated = a.indicated
CtrlSame(c, e) ==
  e.got = c.got /\ e.acked = c.acked /\ e.asked = c.asked /\ e.answered = c.answered

\* What the application was told, a, and the controller has counted, c, become b and
\* e as AlarmService allows.
DevMoves(a, c, b) ==
  \/ AppSame(a, b)
  \/ b.posted = a.posted + 1 /\ b.confirmed = a.confirmed /\ b.indicated = a.indicated
  \/ /\ b.confirmed = a.confirmed + 1 /\ a.confirmed < c.acked
     /\ b.posted = a.posted /\ b.indicated = a.indicated
  \/ /\ b.indicated = a.indicated + 1 /\ a.indicated < c.asked
     /\ b.posted = a.posted /\ b.confirmed = a.confirmed
CtrlMoves(a, c, e) ==
  \/ CtrlSame(c, e)
  \/ /\ e.got = c.got + 1 /\ c.got < a.posted
     /\ e.acked = c.acked /\ e.asked = c.asked /\ e.answered = c.answered
  \/ /\ e.acked = c.acked + 1 /\ c.acked < c.got
     /\ e.got = c.got /\ e.asked = c.asked /\ e.answered = c.answered
  \/ /\ e.asked = c.asked + 1
     /\ e.got = c.got /\ e.acked = c.acked /\ e.answered = c.answered
  \/ /\ e.answered = c.answered + 1 /\ c.answered < a.indicated
     /\ e.got = c.got /\ e.acked = c.acked /\ e.asked = c.asked

\* A new block: pf_alarm_apmr_periodic acknowledges and delivers it.
LEMMA DevReceives ==
  ASSUME NEW d \in DevType, NEW c \in CtrlType, NEW a \in AppType, NEW s,
         NEW q \in Seq(FrameType), NEW w \in Seq(FrameType), NEW x \in Seq(FrameType),
         Conn(d, c, a, s, q, w, x), KeptBy(d), q # << >>,
         NEW f, f = Head(q), f.kind \in Blocks, IsNew(d, f),
         NEW t, t = Taken(d, f), f.kind = "notify" => t.alpmr = "W_NOTIFY",
         NEW e, e = Delivered(t, f), NEW b, b = Told(a, t, f)
  PROVE  Conn(e, c, b, s, Tail(q), w, Put(x, Tack(t))) /\ DevMoves(a, c, b)
<1> DEFINE h == Acknowledged(d, f)
<1>1. f \in FrameType /\ Tail(q) \in Seq(FrameType)  OBVIOUS
<1>2. /\ Conn(h, c, a, s, q, w, x)
      /\ h \in DevType /\ h.exp = d.exp /\ h.expO = d.expO
      /\ DOut(h) => f.ack # h.seq
  <2>1. f.kind \in Carriers \cup {"unknown"}  BY DEF Carriers
  <2> QED  BY <2>1, DevHearsFrame
<1>3. t \in DevType /\ KeptBy(t)  BY <1>1, TakenDev
<1>4. t = [h EXCEPT !.expO = d.exp, !.exp = NextSeq(d.exp)]  BY DEF Taken
<1>5. e \in DevType  BY <1>1, <1>3, DeliveredDev
<1> HIDE DEF h
<1>6. /\ t.seq = h.seq /\ t.seqO = h.seqO /\ t.exp = NextSeq(h.exp) /\ t.expO = h.exp
      /\ t.apms = h.apms /\ t.rta = h.rta /\ t.alpmi = h.alpmi /\ t.alpmr = h.alpmr
  BY <1>2, <1>4 DEF DevType
<1>7. /\ e.seq = h.seq /\ e.seqO = h.seqO /\ e.exp = NextSeq(h.exp) /\ e.expO = h.exp
      /\ e.apms = h.apms /\ e.rta = h.rta
      /\ e.alpmi = IF f.kind = "answer" /\ h.alpmi = "W_ACK" THEN "W_ALARM" ELSE h.alpmi
      /\ e.alpmr = IF f.kind = "notify" THEN "W_USER_ACK" ELSE h.alpmr
  BY <1>3, <1>6 DEF Delivered, DevType, Blocks
<1>8. b = Told(a, h, f)  BY <1>6 DEF Told
<1>9. f.seq = h.exp /\ (f.kind = "notify" => h.alpmr = "W_NOTIFY")
  BY <1>2, <1>6 DEF IsNew
<1>10. /\ Conn(e, c, b, s, q, w, x) /\ b.posted = a.posted
       /\ \/ b.indicated = a.indicated + 1 /\ a.indicated < c.asked /\ b.confirmed = a.confirmed
          \/ b.confirmed = a.confirmed + 1 /\ a.confirmed < c.acked /\ b.indicated = a.indicated
  BY <1>2, <1>5, <1>7, <1>8, <1>9, DevTakesFrame
<1>11. DevSends(e, Tack(t))
  <2>1. Tack(t) \in FrameType  BY <1>3, TackFrames
  <2>2. Tack(t).kind = "tack" /\ Tack(t).ack = e.expO  BY <1>6, <1>7 DEF Tack
  <2> QED  BY <2>1, <2>2 DEF DevSends, Late, Carriers, Blocks
<1>12. Conn(e, c, b, s, Tail(q), w, x)  BY <1>10, Passes
<1>13. Conn(e, c, b, s, Tail(q), w, Put(x, Tack(t)))
  BY <1>1, <1>11, <1>12, Passes
<1> QED  BY <1>10, <1>13 DEF DevMoves

\* A TACK, or a frame that was taken before.
LEMMA DevRepeats ==
  ASSUME NEW d \in DevType, NEW c \in CtrlType, NEW a \in AppType, NEW s,
         NEW q \in Seq(FrameType), NEW w \in Seq(FrameType), NEW x \in Seq(FrameType),
         Conn(d, c, a, s, q, w, x), KeptBy(d), q # << >>,
         NEW f, f = Head(q), f.kind \in Carriers \cup {"unknown"},
         NEW e, e = Acknowledged(d, f)
  PROVE  /\ Conn(e, c, a, s, Tail(q), w, x)
         /\ Conn(e, c, a, s, Tail(q), w, Put(x, Tack(e)))
         /\ Conn(d, c, a, s, Tail(q), w, Put(x, Nack(d)))
<1>1. Conn(e, c, a, s, q, w, x) /\ e \in DevType  BY DevHearsFrame
<1>2. Tail(q) \in Seq(FrameType)  OBVIOUS
<1>3. Conn(e, c, a, s, Tail(q), w, x) /\ Conn(d, c, a, s, Tail(q), w, x)
  BY <1>1, Passes
<1>4. DevSends(e, Tack(e)) /\ DevSends(d, Nack(d))
  <2>1. Tack(e) \in FrameType /\ Nack(d) \in FrameType  BY <1>1, TackFrames
  <2>2. /\ Tack(e).kind = "tack" /\ Tack(e).ack = e.expO /\ Nack(d).kind = "junk"
    BY DEF Tack, Nack
  <2> QED  BY <2>1, <2>2 DEF DevSends, Late, Carriers, Blocks
<1> QED  BY <1>2, <1>3, <1>4, Passes

\* The controller takes the frame that comes first.
LEMMA CtrlReceives ==
  ASSUME NEW d \in DevType, NEW c \in CtrlType, NEW a \in AppType, NEW s \in Seq(Nat),
         NEW q \in Seq(FrameType), NEW w \in Seq(FrameType), NEW x \in Seq(FrameType),
         Conn(d, c, a, s, q, w, x), x # << >>, NEW f, f = Head(x),
         NEW e, e = IF f.kind \in DataKinds /\ f.seq = c.exp THEN CtrlTaken(c, f)
                      ELSE IF f.kind = "junk" THEN c ELSE CtrlAcked(c, f)
  PROVE  /\ f.kind \notin DataKinds \/ f.seq # e.expO => Conn(d, e, a, s, q, w, Tail(x))
         /\ f.kind \in DataKinds /\ f.seq = e.expO =>
              Conn(d, e, a, s, q, Put(w, Tack(e)), Tail(x))
         /\ CtrlMoves(a, c, e)
<1>1. f.kind \in Carriers \cup {"junk"} /\ f \in FrameType
  <2>1. f = x[1] /\ 1 \in DOMAIN x  OBVIOUS
  <2>2. \A i \in DOMAIN x : x[i].kind \in Carriers \cup {"junk"}  BY DEF Conn, ToCtrl
  <2> QED  BY <2>1, <2>2
<1>2. ASSUME e \in CtrlType, Conn(d, e, a, s, q, w, x)
      PROVE  /\ Conn(d, e, a, s, q, w, Tail(x))
             /\ Conn(d, e, a, s, q, Put(w, Tack(e)), Tail(x))
  <2>1. Tail(x) \in Seq(FrameType)  OBVIOUS
  <2>2. Conn(d, e, a, s, q, w, Tail(x))  BY <1>2, Passes
  <2>3. CtrlSends(e, Tack(e))
    <3>1. Tack(e) \in FrameType
      BY <1>2 DEF Tack, FrameType, Kinds, CtrlType
    <3>2. Tack(e).kind = "tack" /\ Tack(e).ack = e.expO  BY DEF Tack
    <3> QED  BY <3>1, <3>2 DEF CtrlSends, Late, Carriers, Blocks
  <2> QED  BY <2>1, <2>2, <2>3, Passes
<1>3. CASE f.kind = "junk"
  <2>1. e = c  BY <1>3 DEF DataKinds
  <2> QED  BY <1>2, <2>1 DEF CtrlMoves, CtrlSame
<1>4. CASE f.kind \in Carriers
  <2> DEFINE h == CtrlAcked(c, f)
  <2>1. /\ Conn(d, h, a, s, q, w, x)
        /\ h \in CtrlType /\ h.exp = c.exp /\ h.expO = c.expO /\ h.acked = c.acked
        /\ h.asked = c.asked /\ h.got = c.got /\ h.answered = c.answered
        /\ COut(h) => f.ack # h.seq
    BY <1>4, CtrlHearsFrame
  <2>2. CASE f.kind \in Blocks /\ f.seq = c.exp
    <3>1. e = CtrlTaken(c, f)  BY <2>2 DEF DataKinds, Blocks
    <3>2. e \in CtrlType  BY <1>1, <3>1, CtrlTakenType
    <3> DEFINE t == [h EXCEPT !.expO = c.exp, !.exp = NextSeq(c.exp)]
    <3>3. e = IF f.kind = "notify" THEN [t EXCEPT !.got = f.id] ELSE [t EXCEPT !.answered = f.id]
      BY <3>1 DEF CtrlTaken
    <3>7. c.exp \in SeqNums /\ NextSeq(c.exp) \in SeqNums  BY NextIsSeqNum DEF CtrlType
    <3> HIDE DEF h
    <3>8. /\ t \in CtrlType /\ t.seq = h.seq /\ t.seqO = h.seqO /\ t.exp = NextSeq(h.exp)
          /\ t.expO = h.exp /\ t.out = h.out /\ t.acked = h.acked /\ t.asked = h.asked
          /\ t.got = h.got /\ t.answered = h.answered
      BY <2>1, <3>7 DEF CtrlType
    <3> HIDE DEF t
    <3>4. /\ e.seq = h.seq /\ e.seqO = h.seqO /\ e.exp = NextSeq(h.exp) /\ e.expO = h.exp
          /\ e.out = h.out /\ e.acked = h.acked /\ e.asked = h.asked
          /\ e.got = IF f.kind = "notify" THEN f.id ELSE h.got
          /\ e.answered = IF f.kind = "notify" THEN h.answered ELSE f.id
      BY <3>3, <3>8 DEF CtrlType
    <3>5. /\ Conn(d, e, a, s, q, w, x)
          /\ \/ e.got = h.got + 1 /\ h.got < a.posted /\ e.answered = h.answered
             \/ e.answered = h.answered + 1 /\ h.answered < a.indicated /\ e.got = h.got
      <4>1. f.seq = h.exp /\ f.kind \in Blocks  BY <2>1, <2>2
      <4>2. h \in CtrlType /\ Conn(d, h, a, s, q, w, x) /\ (COut(h) => f.ack # h.seq)
        BY <2>1
      <4> QED
        BY ONLY d \in DevType, a \in AppType, s \in Seq(Nat), q \in Seq(FrameType),
                w \in Seq(FrameType), x \in Seq(FrameType), x # << >>, f = Head(x),
                <3>2, <3>4, <4>1, <4>2, CtrlTakesFrame
    <3>6. CtrlMoves(a, c, e)
      BY <2>1, <3>4, <3>5 DEF CtrlMoves
    <3> QED  BY <1>2, <3>2, <3>5, <3>6
  <2>3. CASE ~ (f.kind \in Blocks /\ f.seq = c.exp)
    <3>1. e = h  BY <1>4, <2>3 DEF DataKinds, Blocks, Carriers
    <3> HIDE DEF h
    <3>2. CtrlMoves(a, c, e)  BY <2>1, <3>1 DEF CtrlMoves, CtrlSame
    <3> QED  BY <1>2, <2>1, <3>1, <3>2
  <2> QED  BY <2>2, <2>3
<1> QED  BY <1>1, <1>3, <1>4
-----------------------------------------------------------------------------
(* Steps.                                                                     *)

\* Counts of which one at most moves.
LEMMA OneMoves ==
  ASSUME NEW F, NEW G, F = [r \in Prios |-> F[r]], G = [r \in Prios |-> G[r]],
         NEW p \in Prios, \A r \in Prios : r # p => G[r] = F[r]
  PROVE  /\ G[p] = F[p] => G = F
         /\ G[p] = F[p] + 1 => G = [F EXCEPT ![p] = F[p] + 1]
<1>1. ASSUME G[p] = F[p]  PROVE G = F
  <2>1. \A r \in Prios : G[r] = F[r]  BY <1>1
  <2> QED  BY <2>1
<1>2. ASSUME G[p] = F[p] + 1  PROVE G = [F EXCEPT ![p] = F[p] + 1]
  <2> DEFINE H == [F EXCEPT ![p] = F[p] + 1]
  <2>1. H = [r \in Prios |-> H[r]] /\ \A r \in Prios : H[r] = IF r = p THEN F[p] + 1 ELSE F[r]
    OBVIOUS
  <2> HIDE DEF H
  <2>2. \A r \in Prios : G[r] = H[r]  BY <1>2, <2>1
  <2>3. G = H  BY <2>1, <2>2
  <2> QED  BY <2>3 DEF H
<1> QED  BY <1>1, <1>2

\* What one priority does, AlarmService does.
LEMMA ServiceStep ==
  ASSUME NEW p \in Prios, \A r \in Prios : r # p => app'[r] = app[r] /\ ctrl'[r] = ctrl[r],
         \/ CtrlSame(ctrl[p], ctrl'[p]) /\ DevMoves(app[p], ctrl[p], app'[p])
         \/ AppSame(app[p], app'[p]) /\ CtrlMoves(app[p], ctrl[p], ctrl'[p])
  PROVE  [Service!Next]_(Service!counts)
<1> DEFINE F1 == [r \in Prios |-> app[r].posted]     G1 == [r \in Prios |-> app'[r].posted]
           F2 == [r \in Prios |-> ctrl[r].got]       G2 == [r \in Prios |-> ctrl'[r].got]
           F3 == [r \in Prios |-> ctrl[r].acked]     G3 == [r \in Prios |-> ctrl'[r].acked]
           F4 == [r \in Prios |-> app[r].confirmed]  G4 == [r \in Prios |-> app'[r].confirmed]
           F5 == [r \in Prios |-> ctrl[r].asked]     G5 == [r \in Prios |-> ctrl'[r].asked]
           F6 == [r \in Prios |-> app[r].indicated]  G6 == [r \in Prios |-> app'[r].indicated]
           F7 == [r \in Prios |-> ctrl[r].answered]  G7 == [r \in Prios |-> ctrl'[r].answered]
<1>1. /\ F1[p] = app[p].posted /\ G1[p] = app'[p].posted
      /\ F2[p] = ctrl[p].got /\ G2[p] = ctrl'[p].got
      /\ F3[p] = ctrl[p].acked /\ G3[p] = ctrl'[p].acked
      /\ F4[p] = app[p].confirmed /\ G4[p] = app'[p].confirmed
      /\ F5[p] = ctrl[p].asked /\ G5[p] = ctrl'[p].asked
      /\ F6[p] = app[p].indicated /\ G6[p] = app'[p].indicated
      /\ F7[p] = ctrl[p].answered /\ G7[p] = ctrl'[p].answered
  OBVIOUS
<1>2. /\ F1 = [r \in Prios |-> F1[r]] /\ G1 = [r \in Prios |-> G1[r]]
      /\ F2 = [r \in Prios |-> F2[r]] /\ G2 = [r \in Prios |-> G2[r]]
      /\ F3 = [r \in Prios |-> F3[r]] /\ G3 = [r \in Prios |-> G3[r]]
      /\ F4 = [r \in Prios |-> F4[r]] /\ G4 = [r \in Prios |-> G4[r]]
      /\ F5 = [r \in Prios |-> F5[r]] /\ G5 = [r \in Prios |-> G5[r]]
      /\ F6 = [r \in Prios |-> F6[r]] /\ G6 = [r \in Prios |-> G6[r]]
      /\ F7 = [r \in Prios |-> F7[r]] /\ G7 = [r \in Prios |-> G7[r]]
  OBVIOUS
<1>3. \A r \in Prios : r # p =>
        /\ G1[r] = F1[r] /\ G2[r] = F2[r] /\ G3[r] = F3[r] /\ G4[r] = F4[r]
        /\ G5[r] = F5[r] /\ G6[r] = F6[r] /\ G7[r] = F7[r]
  OBVIOUS
<1> DEFINE N == [Service!Next]_(Service!counts)
<1>4. N <=> \/ Service!Next
            \/ G1 = F1 /\ G2 = F2 /\ G3 = F3 /\ G4 = F4 /\ G5 = F5 /\ G6 = F6 /\ G7 = F7
  BY DEF Service!counts
<1>5. Service!Post(p) <=>
        /\ G1 = [F1 EXCEPT ![p] = F1[p] + 1]
        /\ G2 = F2 /\ G3 = F3 /\ G4 = F4 /\ G5 = F5 /\ G6 = F6 /\ G7 = F7
  BY DEF Service!Post, Service!Grows
<1>6. Service!Deliver(p) <=>
        /\ F2[p] < F1[p] /\ G2 = [F2 EXCEPT ![p] = F2[p] + 1]
        /\ G1 = F1 /\ G3 = F3 /\ G4 = F4 /\ G5 = F5 /\ G6 = F6 /\ G7 = F7
  BY DEF Service!Deliver, Service!Follows
<1>7. Service!Ack(p) <=>
        /\ F3[p] < F2[p] /\ G3 = [F3 EXCEPT ![p] = F3[p] + 1]
        /\ G1 = F1 /\ G2 = F2 /\ G4 = F4 /\ G5 = F5 /\ G6 = F6 /\ G7 = F7
  BY DEF Service!Ack, Service!Follows
<1>8. Service!Confirm(p) <=>
        /\ F4[p] < F3[p] /\ G4 = [F4 EXCEPT ![p] = F4[p] + 1]
        /\ G1 = F1 /\ G2 = F2 /\ G3 = F3 /\ G5 = F5 /\ G6 = F6 /\ G7 = F7
  BY DEF Service!Confirm, Service!Follows
<1>9. Service!Ask(p) <=>
        /\ G5 = [F5 EXCEPT ![p] = F5[p] + 1]
        /\ G1 = F1 /\ G2 = F2 /\ G3 = F3 /\ G4 = F4 /\ G6 = F6 /\ G7 = F7
  BY DEF Service!Ask, Service!Grows
<1>10. Service!Indicate(p) <=>
        /\ F6[p] < F5[p] /\ G6 = [F6 EXCEPT ![p] = F6[p] + 1]
        /\ G1 = F1 /\ G2 = F2 /\ G3 = F3 /\ G4 = F4 /\ G5 = F5 /\ G7 = F7
  BY DEF Service!Indicate, Service!Follows
<1>11. Service!Answer(p) <=>
        /\ F7[p] < F6[p] /\ G7 = [F7 EXCEPT ![p] = F7[p] + 1]
        /\ G1 = F1 /\ G2 = F2 /\ G3 = F3 /\ G4 = F4 /\ G5 = F5 /\ G6 = F6
  BY DEF Service!Answer, Service!Follows
<1>12. (\/ Service!Post(p) \/ Service!Deliver(p) \/ Service!Ack(p) \/ Service!Confirm(p)
        \/ Service!Ask(p) \/ Service!Indicate(p) \/ Service!Answer(p)) => Service!Next
  BY DEF Service!Next
<1> HIDE DEF F1, G1, F2, G2, F3, G3, F4, G4, F5, G5, F6, G6, F7, G7, N
<1>13. /\ G1[p] = F1[p] => G1 = F1
       /\ G1[p] = F1[p] + 1 => G1 = [F1 EXCEPT ![p] = F1[p] + 1]
  BY <1>2, <1>3, OneMoves
<1>14. /\ G2[p] = F2[p] => G2 = F2
       /\ G2[p] = F2[p] + 1 => G2 = [F2 EXCEPT ![p] = F2[p] + 1]
  BY <1>2, <1>3, OneMoves
<1>15. /\ G3[p] = F3[p] => G3 = F3
       /\ G3[p] = F3[p] + 1 => G3 = [F3 EXCEPT ![p] = F3[p] + 1]
  BY <1>2, <1>3, OneMoves
<1>16. /\ G4[p] = F4[p] => G4 = F4
       /\ G4[p] = F4[p] + 1 => G4 = [F4 EXCEPT ![p] = F4[p] + 1]
  BY <1>2, <1>3, OneMoves
<1>17. /\ G5[p] = F5[p] => G5 = F5
       /\ G5[p] = F5[p] + 1 => G5 = [F5 EXCEPT ![p] = F5[p] + 1]
  BY <1>2, <1>3, OneMoves
<1>18. /\ G6[p] = F6[p] => G6 = F6
       /\ G6[p] = F6[p] + 1 => G6 = [F6 EXCEPT ![p] = F6[p] + 1]
  BY <1>2, <1>3, OneMoves
<1>19. /\ G7[p] = F7[p] => G7 = F7
       /\ G7[p] = F7[p] + 1 => G7 = [F7 EXCEPT ![p] = F7[p] + 1]
  BY <1>2, <1>3, OneMoves
<1>20. CASE CtrlSame(ctrl[p], ctrl'[p]) /\ DevMoves(app[p], ctrl[p], app'[p])
  <2>1. G2 = F2 /\ G3 = F3 /\ G5 = F5 /\ G7 = F7
    BY <1>1, <1>14, <1>15, <1>17, <1>19, <1>20 DEF CtrlSame
  <2>2. \/ G1[p] = F1[p] /\ G4[p] = F4[p] /\ G6[p] = F6[p]
        \/ G1[p] = F1[p] + 1 /\ G4[p] = F4[p] /\ G6[p] = F6[p]
        \/ G4[p] = F4[p] + 1 /\ F4[p] < F3[p] /\ G1[p] = F1[p] /\ G6[p] = F6[p]
        \/ G6[p] = F6[p] + 1 /\ F6[p] < F5[p] /\ G1[p] = F1[p] /\ G4[p] = F4[p]
    BY <1>1, <1>20 DEF DevMoves, AppSame
  <2>3. \/ G1 = F1 /\ G4 = F4 /\ G6 = F6
        \/ Service!Post(p) \/ Service!Confirm(p) \/ Service!Indicate(p)
    BY <1>5, <1>8, <1>10, <1>13, <1>16, <1>18, <2>1, <2>2
  <2>4. N  BY <1>4, <1>12, <2>1, <2>3
  <2> QED  BY <2>4 DEF N
<1>21. CASE AppSame(app[p], app'[p]) /\ CtrlMoves(app[p], ctrl[p], ctrl'[p])
  <2>1. G1 = F1 /\ G4 = F4 /\ G6 = F6
    BY <1>1, <1>13, <1>16, <1>18, <1>21 DEF AppSame
  <2>2. \/ G2[p] = F2[p] /\ G3[p] = F3[p] /\ G5[p] = F5[p] /\ G7[p] = F7[p]
        \/ /\ G2[p] = F2[p] + 1 /\ F2[p] < F1[p]
           /\ G3[p] = F3[p] /\ G5[p] = F5[p] /\ G7[p] = F7[p]
        \/ /\ G3[p] = F3[p] + 1 /\ F3[p] < F2[p]
           /\ G2[p] = F2[p] /\ G5[p] = F5[p] /\ G7[p] = F7[p]
        \/ G5[p] = F5[p] + 1 /\ G2[p] = F2[p] /\ G3[p] = F3[p] /\ G7[p] = F7[p]
        \/ /\ G7[p] = F7[p] + 1 /\ F7[p] < F6[p]
           /\ G2[p] = F2[p] /\ G3[p] = F3[p] /\ G5[p] = F5[p]
    BY <1>1, <1>21 DEF CtrlMoves, CtrlSame
  <2>3. \/ G2 = F2 /\ G3 = F3 /\ G5 = F5 /\ G7 = F7
        \/ Service!Deliver(p) \/ Service!Ack(p) \/ Service!Ask(p) \/ Service!Answer(p)
    BY <1>6, <1>7, <1>9, <1>11, <1>14, <1>15, <1>17, <1>19, <2>1, <2>2
  <2>4. N  BY <1>4, <1>12, <2>1, <2>3
  <2> QED  BY <2>4 DEF N
<1> QED  BY <1>20, <1>21
\* How often a frame of the controller is still sent again plays no part.
LEMMA CtrlAlike ==
  ASSUME NEW d, NEW c, NEW a, NEW s, NEW q, NEW w, NEW x, Conn(d, c, a, s, q, w, x),
         NEW e, e.seq = c.seq, e.seqO = c.seqO, e.exp = c.exp, e.expO = c.expO,
         e.out = c.out, CtrlSame(c, e)
  PROVE  Conn(d, e, a, s, q, w, x)
<1>1. Windows(d, c) /\ KeptBlocks(d, c) /\ DevCounts(d, c, a) /\ Ends(d, c, a)
      /\ Queued(d, a, s) /\ CtrlStale(d, c) /\ DevStale(d, c)
  BY DEF Machines, Conn
<1>2. COut(e) = COut(c) /\ DNew(d, e) = DNew(d, c) /\ CNew(d, e) = CNew(d, c)
  BY DEF COut, DNew, CNew
<1>3. Windows(d, e) /\ KeptBlocks(d, e) /\ DevCounts(d, e, a)
  BY <1>1, <1>2 DEF Windows, KeptBlocks, DevCounts, CtrlSame
<1>4. Ends(d, e, a)  BY <1>1, <1>2 DEF Ends, CtrlSame
<1>5. CtrlStale(d, e) /\ DevStale(d, e)
  BY <1>1, <1>2 DEF CtrlStale, DevStale, CtrlSame
<1>6. ToDev(d, e, q, w)
  BY <1>2 DEF ToDev, Conn
<1>7. ToCtrl(d, e, x)
  BY DEF ToCtrl, Conn
<1> QED  BY <1>1, <1>3, <1>4, <1>5, <1>6, <1>7 DEF Conn, Machines

\* What Connected and the counts make of a step.
Serving == Connected' /\ [Service!Next]_(Service!counts)

\* One priority of a connection moves.
LEMMA OneStep ==
  ASSUME Connected, up, up', NEW p \in Prios,
         \A r \in Prios : r # p =>
           /\ dev'[r] = dev[r] /\ ctrl'[r] = ctrl[r] /\ app'[r] = app[r]
           /\ sendQ'[r] = sendQ[r] /\ recvQ'[r] = recvQ[r]
           /\ toDev'[r] = toDev[r] /\ toCtrl'[r] = toCtrl[r],
         Conn(dev'[p], ctrl'[p], app'[p], sendQ'[p], recvQ'[p], toDev'[p], toCtrl'[p]),
         \/ CtrlSame(ctrl[p], ctrl'[p]) /\ DevMoves(app[p], ctrl[p], app'[p])
         \/ AppSame(app[p], app'[p]) /\ CtrlMoves(app[p], ctrl[p], ctrl'[p])
  PROVE  Serving
<1>1. \A r \in Prios : Conn(dev'[r], ctrl'[r], app'[r], sendQ'[r], recvQ'[r],
                            toDev'[r], toCtrl'[r])
  BY DEF Connected
<1>2. Connected'  BY <1>1 DEF Connected
<1>3. [Service!Next]_(Service!counts)  BY ServiceStep
<1> QED  BY <1>2, <1>3 DEF Serving

\* Nothing of a connection moves, or there is none.
LEMMA NoneMoves ==
  ASSUME Connected, UNCHANGED <<up, ctrl, app, recvQ>>,
         ~ up \/ UNCHANGED <<dev, sendQ, toDev, toCtrl>>
  PROVE  Serving
<1>1. Connected'  BY DEF Connected
<1>2. UNCHANGED Service!counts  BY DEF Service!counts
<1> QED  BY <1>1, <1>2 DEF Serving

\* The connection ends, or begins.
LEMMA AllForgotten ==
  ASSUME app' = All(NoApp), ctrl' = All(NoCtrl)
  PROVE  [Service!Next]_(Service!counts)
<1>1. Service!Forget
  BY DEF Service!Forget, Service!Zero, All, NoApp, NoCtrl
<1> QED  BY <1>1 DEF Service!Next

\* Both ends forget the connection.
LEMMA CloseServes == ASSUME NEW arm, NEW hold, CloseWith(arm, hold)  PROVE Serving
<1>1. [Service!Next]_(Service!counts)  BY AllForgotten DEF CloseWith
<1>2. Connected'  BY DEF CloseWith, Connected, All
<1> QED  BY <1>1, <1>2 DEF Serving

\* A connection starts with both ends empty.
LEMMA ActivateServes == ASSUME IInv, Connected, Activate  PROVE Serving
<1>1. [Service!Next]_(Service!counts)  BY AllForgotten DEF Activate
<1>2. Connected'
  <2>1. \A p \in Prios :
          /\ dev'[p] = Activated /\ ctrl'[p] = NoCtrl /\ app'[p] = NoApp
          /\ sendQ'[p] = << >> /\ recvQ'[p] = << >> /\ toDev'[p] = << >>
          /\ toCtrl'[p] = << >>
    BY DEF Activate, All, IInv, Idle, Connected
  <2>2. up'  BY DEF Activate
  <2> QED  BY <2>1, <2>2, ConnStarts DEF Connected
<1> QED  BY <1>1, <1>2 DEF Serving

\* The types of one priority.
LEMMA Typed ==
  ASSUME IInv, NEW p \in Prios
  PROVE  /\ dev[p] \in DevType /\ ctrl[p] \in CtrlType /\ app[p] \in AppType
         /\ sendQ[p] \in Seq(Nat) /\ recvQ[p] \in Seq(FrameType)
         /\ toDev[p] \in Seq(FrameType) /\ toCtrl[p] \in Seq(FrameType)
         /\ KeptBy(dev[p]) /\ dev \in [Prios -> DevType] /\ ctrl \in [Prios -> CtrlType]
         /\ app \in [Prios -> AppType] /\ sendQ \in [Prios -> Seq(Nat)]
         /\ recvQ \in [Prios -> Seq(FrameType)] /\ toDev \in [Prios -> Seq(FrameType)]
         /\ toCtrl \in [Prios -> Seq(FrameType)]
BY DEF IInv, TypeOK

\* The application posts an alarm.
LEMMA PostServes == ASSUME IInv, Connected, NEW p \in Prios, Post(p)  PROVE Serving
<1> DEFINE d == dev[p]  c == ctrl[p]  a == app[p]  s == sendQ[p]
           b == app'[p]
<1>1. d \in DevType /\ c \in CtrlType /\ a \in AppType /\ s \in Seq(Nat) /\ up
  BY Typed DEF Post
<1>2. /\ sendQ'[p] = Append(s, a.posted + 1)
      /\ b.posted = a.posted + 1 /\ b.confirmed = a.confirmed /\ b.indicated = a.indicated
      /\ \A r \in Prios : r # p => app'[r] = app[r] /\ sendQ'[r] = sendQ[r]
      /\ UNCHANGED <<up, dev, ctrl, recvQ, toDev, toCtrl>>
  BY Typed DEF Post, AppType
<1>3. b \in AppType
  <2>1. app' \in [Prios -> AppType]  BY PostInv DEF IInv, TypeOK
  <2> QED  BY <2>1
<1>4. Conn(d, c, a, s, recvQ[p], toDev[p], toCtrl[p])  BY <1>1 DEF Connected
<1> HIDE DEF d, c, a, s, b
<1>5. Machines(d, c, b, Append(s, a.posted + 1))
  BY <1>1, <1>2, <1>3, <1>4, AppPosts DEF Conn
<1>6. Conn(d, c, b, Append(s, a.posted + 1), recvQ[p], toDev[p], toCtrl[p])
  BY <1>4, <1>5 DEF Conn
<1>7. Conn(dev'[p], ctrl'[p], app'[p], sendQ'[p], recvQ'[p], toDev'[p], toCtrl'[p])
  BY <1>2, <1>6 DEF d, c, b
<1>8. CtrlSame(ctrl[p], ctrl'[p]) /\ DevMoves(app[p], ctrl[p], app'[p])
  BY <1>2 DEF CtrlSame, DevMoves, a, b
<1> QED  BY <1>1, <1>2, <1>7, <1>8, OneStep
\* The oldest alarm goes out.
LEMMA SendAlarmServes ==
  ASSUME IInv, Connected, NEW p \in Prios, SendAlarm(p), ~ failed'
  PROVE  Serving
<1> DEFINE d == dev[p]  f == Data(d, "notify", Head(sendQ[p]))
           e == [Waiting(d, f) EXCEPT !.alpmi = "W_ACK"]
<1>1. /\ d \in DevType /\ KeptBy(d) /\ d.apms = "OPEN" /\ up /\ d.alpmi = "W_ALARM"
      /\ sendQ[p] \in Seq(Nat) /\ sendQ[p] # << >> /\ Head(sendQ[p]) \in Nat
  BY Typed DEF SendAlarm, Fetches
<1>2. /\ toCtrl' = Sent(toCtrl, p, f) /\ dev' = [dev EXCEPT ![p] = e]
      /\ sendQ' = [sendQ EXCEPT ![p] = Tail(sendQ[p])]
      /\ UNCHANGED <<up, recvQ, toDev, ctrl, app>>
  BY DEF SendAlarm, Transmit
<1>3. f \in FrameType /\ Waiting(d, f) \in DevType  BY <1>1, WaitingDev
<1>4. f.kind = "notify" /\ f.seq = d.seq /\ f.ack = d.expO /\ f.id = Head(sendQ[p])
  BY DEF Data
<1> HIDE DEF f
<1>5. /\ e \in DevType /\ e.seq = d.seq /\ e.seqO = d.seqO /\ e.exp = d.exp
      /\ e.expO = d.expO /\ e.apms = "WTACK" /\ e.rta = f /\ e.alpmi = "W_ACK"
      /\ e.alpmr = d.alpmr
  BY <1>1, <1>3 DEF Waiting, DevType
<1> HIDE DEF e
<1>6. /\ dev'[p] = e /\ sendQ'[p] = Tail(sendQ[p]) /\ toCtrl'[p] = Put(toCtrl[p], f)
      /\ \A r \in Prios : r # p =>
           dev'[r] = dev[r] /\ sendQ'[r] = sendQ[r] /\ toCtrl'[r] = toCtrl[r]
  <2>1. /\ p \in Prios /\ toCtrl \in [Prios -> Seq(FrameType)]
        /\ dev \in [Prios -> DevType] /\ sendQ \in [Prios -> Seq(Nat)]
    BY Typed
  <2>2. /\ Sent(toCtrl, p, f)[p] = Put(toCtrl[p], f)
        /\ \A r \in Prios : r # p => Sent(toCtrl, p, f)[r] = toCtrl[r]
    BY <2>1 DEF Sent, Put
  <2> QED  BY <1>2, <2>1, <2>2
<1>7. Conn(d, ctrl[p], app[p], sendQ[p], recvQ[p], toDev[p], toCtrl[p])
  BY <1>1 DEF Connected
<1>8. ~ DOut(d) /\ DOut(e)  BY <1>1, <1>5 DEF DOut
<1> HIDE DEF d
<1>9. Conn(e, ctrl[p], app[p], Tail(sendQ[p]), recvQ[p], toDev[p], Put(toCtrl[p], e.rta))
  BY <1>1, <1>4, <1>5, <1>7, <1>8, Typed, DevSendsBlock
<1>10. CtrlSame(ctrl[p], ctrl'[p]) /\ DevMoves(app[p], ctrl[p], app'[p])
  BY <1>2 DEF CtrlSame, DevMoves, AppSame
<1> QED  BY <1>1, <1>2, <1>5, <1>6, <1>9, <1>10, OneStep

\* The answer of the application goes out.
LEMMA SendAnswerServes ==
  ASSUME IInv, Connected, SendAnswer, ~ failed'
  PROVE  Serving
<1> DEFINE p == "high"  d == dev[p]  f == Data(d, "answer", app[p].indicated)
           e == [Waiting(d, f) EXCEPT !.alpmr = "W_TACK"]
<1>1. /\ p \in Prios /\ d \in DevType /\ KeptBy(d) /\ d.apms = "OPEN" /\ up
      /\ d.alpmr = "W_USER_ACK" /\ app[p].indicated \in Nat
  <2>1. p \in Prios  BY DEF Prios
  <2>2. d \in DevType /\ KeptBy(d) /\ app[p] \in AppType  BY <2>1, Typed
  <2> QED  BY <2>1, <2>2 DEF SendAnswer, Answers, AppType
<1>2. /\ toCtrl' = Sent(toCtrl, p, f) /\ dev' = [dev EXCEPT ![p] = e]
      /\ UNCHANGED <<up, sendQ, recvQ, toDev, ctrl, app>>
  BY DEF SendAnswer, Transmit
<1> HIDE DEF p
<1>3. f \in FrameType /\ Waiting(d, f) \in DevType  BY <1>1, WaitingDev
<1>4. f.kind = "answer" /\ f.seq = d.seq /\ f.ack = d.expO /\ f.id = app[p].indicated
  BY DEF Data
<1> HIDE DEF f
<1>5. /\ e \in DevType /\ e.seq = d.seq /\ e.seqO = d.seqO /\ e.exp = d.exp
      /\ e.expO = d.expO /\ e.apms = "WTACK" /\ e.rta = f /\ e.alpmr = "W_TACK"
      /\ e.alpmi = d.alpmi
  BY <1>1, <1>3 DEF Waiting, DevType
<1> HIDE DEF e
<1>6. /\ dev'[p] = e /\ toCtrl'[p] = Put(toCtrl[p], f)
      /\ \A r \in Prios : r # p => dev'[r] = dev[r] /\ toCtrl'[r] = toCtrl[r]
  <2>1. /\ p \in Prios /\ toCtrl \in [Prios -> Seq(FrameType)]
        /\ dev \in [Prios -> DevType] /\ sendQ \in [Prios -> Seq(Nat)]
    BY <1>1, Typed
  <2>2. /\ Sent(toCtrl, p, f)[p] = Put(toCtrl[p], f)
        /\ \A r \in Prios : r # p => Sent(toCtrl, p, f)[r] = toCtrl[r]
    BY <2>1 DEF Sent, Put
  <2> QED  BY <1>2, <2>1, <2>2
<1>7. Conn(d, ctrl[p], app[p], sendQ[p], recvQ[p], toDev[p], toCtrl[p])
  BY <1>1 DEF Connected
<1>8. ~ DOut(d) /\ DOut(e)  BY <1>1, <1>5 DEF DOut
<1> HIDE DEF d
<1>9. Conn(e, ctrl[p], app[p], sendQ[p], recvQ[p], toDev[p], Put(toCtrl[p], e.rta))
  BY <1>1, <1>4, <1>5, <1>7, <1>8, Typed, DevSendsBlock
<1>10. CtrlSame(ctrl[p], ctrl'[p]) /\ DevMoves(app[p], ctrl[p], app'[p])
  BY <1>2 DEF CtrlSame, DevMoves, AppSame
<1> QED  BY <1>1, <1>2, <1>5, <1>6, <1>9, <1>10, OneStep

\* The frame that is sent again is the one that is kept.
LEMMA ResendServes ==
  ASSUME IInv, Connected, NEW p \in Prios, Resend(p)
  PROVE  Serving
<1> DEFINE d == dev[p]  e == [d EXCEPT !.resends = d.resends - 1]
<1>1. /\ dev' = [dev EXCEPT ![p] = e] /\ toCtrl' = Sent(toCtrl, p, d.rta)
      /\ d.apms = "WTACK" /\ UNCHANGED <<up, sendQ, recvQ, toDev, ctrl, app>>
  BY DEF Resend
<1>2. CASE ~ up  BY <1>1, <1>2, NoneMoves
<1>3. CASE up
  <2>1. d \in DevType  BY Typed
  <2>2. e \in DevType
    <3>1. dev' \in [Prios -> DevType]  BY ResendInv DEF IInv, TypeOK
    <3>2. dev'[p] = e  BY <1>1, Typed
    <3> QED  BY <3>1, <3>2
  <2>3. /\ e.seq = d.seq /\ e.seqO = d.seqO /\ e.exp = d.exp /\ e.expO = d.expO
        /\ e.apms = d.apms /\ e.alpmi = d.alpmi /\ e.alpmr = d.alpmr /\ e.rta = d.rta
    BY <2>1 DEF DevType
  <2> HIDE DEF e
  <2>4. /\ dev'[p] = e /\ toCtrl'[p] = Put(toCtrl[p], d.rta)
        /\ \A r \in Prios : r # p => dev'[r] = dev[r] /\ toCtrl'[r] = toCtrl[r]
    <3>1. /\ p \in Prios /\ toCtrl \in [Prios -> Seq(FrameType)]
          /\ dev \in [Prios -> DevType] /\ sendQ \in [Prios -> Seq(Nat)]
      BY Typed
    <3>2. /\ Sent(toCtrl, p, d.rta)[p] = Put(toCtrl[p], d.rta)
          /\ \A r \in Prios : r # p => Sent(toCtrl, p, d.rta)[r] = toCtrl[r]
      BY <3>1 DEF Sent, Put
    <3> QED  BY <1>1, <3>1, <3>2
  <2>5. Conn(d, ctrl[p], app[p], sendQ[p], recvQ[p], toDev[p], toCtrl[p])
    BY <1>3 DEF Connected
  <2> HIDE DEF d
  <2>6. DevSends(d, d.rta)
    <3>1. DOut(d)  BY <1>1 DEF DOut
    <3>2. KeptBlock(d.rta, d.seq, d.expO)
      BY <2>5, <3>1 DEF Conn, Machines, KeptBlocks
    <3>3. d.rta \in FrameType  BY <2>1 DEF DevType
    <3> QED  BY <3>1, <3>2, <3>3 DEF DevSends, KeptBlock, Carriers
  <2>7. Conn(d, ctrl[p], app[p], sendQ[p], recvQ[p], toDev[p], Put(toCtrl[p], d.rta))
    BY <2>5, <2>6, Typed, Passes
  <2>8. Conn(e, ctrl[p], app[p], sendQ[p], recvQ[p], toDev[p], Put(toCtrl[p], d.rta))
    BY <2>1, <2>2, <2>3, <2>7, Typed, DevAlike
  <2>9. CtrlSame(ctrl[p], ctrl'[p]) /\ DevMoves(app[p], ctrl[p], app'[p])
    BY <1>1 DEF CtrlSame, DevMoves, AppSame
  <2> QED  BY <1>1, <1>3, <2>4, <2>8, <2>9, OneStep
<1> QED  BY <1>2, <1>3

\* A timer that was left over ends.
LEMMA TimerEndsServes ==
  ASSUME IInv, Connected, NEW p \in Prios, TimerEnds(p)
  PROVE  Serving
<1> DEFINE d == dev[p]  e == [d EXCEPT !.rta = NoFrame]
<1>1. /\ dev' = [dev EXCEPT ![p] = e] /\ d.apms # "WTACK"
      /\ UNCHANGED <<up, sendQ, recvQ, toDev, toCtrl, ctrl, app>>
  BY DEF TimerEnds
<1>2. CASE ~ up  BY <1>1, <1>2, NoneMoves
<1>3. CASE up
  <2>1. d \in DevType  BY Typed
  <2>2. e \in DevType  BY <2>1, NoFrameType DEF DevType
  <2>3. /\ e.seq = d.seq /\ e.seqO = d.seqO /\ e.exp = d.exp /\ e.expO = d.expO
        /\ e.apms = d.apms /\ e.alpmi = d.alpmi /\ e.alpmr = d.alpmr
    BY <2>1 DEF DevType
  <2> HIDE DEF e
  <2>4. dev'[p] = e /\ \A r \in Prios : r # p => dev'[r] = dev[r]
    BY <1>1, Typed
  <2>5. Conn(d, ctrl[p], app[p], sendQ[p], recvQ[p], toDev[p], toCtrl[p])
    BY <1>3 DEF Connected
  <2>6. ~ DOut(d)  BY <1>1 DEF DOut
  <2> HIDE DEF d
  <2>7. Conn(e, ctrl[p], app[p], sendQ[p], recvQ[p], toDev[p], toCtrl[p])
    BY <2>1, <2>2, <2>3, <2>5, <2>6, Typed, DevAlike
  <2>8. CtrlSame(ctrl[p], ctrl'[p]) /\ DevMoves(app[p], ctrl[p], app'[p])
    BY <1>1 DEF CtrlSame, DevMoves, AppSame
  <2> QED  BY <1>1, <1>3, <2>4, <2>7, <2>8, OneStep
<1> QED  BY <1>2, <1>3

\* The Ethernet thread takes a frame from the wire; without an AR it drops it.
LEMMA ArriveServes == ASSUME IInv, Connected, NEW p \in Prios, Arrive(p)  PROVE Serving
<1> DEFINE q == IF up /\ Len(recvQ[p]) < QueueSize THEN Append(recvQ[p], Head(toDev[p]))
                                                   ELSE recvQ[p]
<1>1. /\ toDev' = [toDev EXCEPT ![p] = Tail(toDev[p])] /\ toDev[p] # << >>
      /\ recvQ' = [recvQ EXCEPT ![p] = q]
      /\ UNCHANGED <<up, dev, sendQ, toCtrl, ctrl, app>>
  BY DEF Arrive
<1>2. CASE ~ up
  <2>1. q = recvQ[p]  BY <1>2
  <2>2. recvQ' = recvQ  BY <1>1, <2>1, Typed
  <2> QED  BY <1>1, <1>2, <2>2, NoneMoves
<1>3. CASE up
  <2>1. /\ recvQ'[p] = q /\ toDev'[p] = Tail(toDev[p])
        /\ \A r \in Prios : r # p => recvQ'[r] = recvQ[r] /\ toDev'[r] = toDev[r]
    BY <1>1, Typed
  <2>2. Conn(dev[p], ctrl[p], app[p], sendQ[p], recvQ[p], toDev[p], toCtrl[p])
    BY <1>3 DEF Connected
  <2>3. q = Append(recvQ[p], Head(toDev[p])) \/ q = recvQ[p]  OBVIOUS
  <2> HIDE DEF q
  <2>4. Conn(dev[p], ctrl[p], app[p], sendQ[p], q, Tail(toDev[p]), toCtrl[p])
    BY <1>1, <2>2, <2>3, Typed, Passes
  <2>5. CtrlSame(ctrl[p], ctrl'[p]) /\ DevMoves(app[p], ctrl[p], app'[p])
    BY <1>1 DEF CtrlSame, DevMoves, AppSame
  <2> QED  BY <1>1, <1>3, <2>1, <2>4, <2>5, OneStep
<1> QED  BY <1>2, <1>3
\* A TACK is heard; a frame that does not belong is dropped.
LEMMA AckServes ==
  ASSUME IInv, Connected, NEW p \in Prios, Ack(p) \/ Ignore(p)  PROVE Serving
<1> DEFINE d == dev[p]  f == Head(recvQ[p])
           e == IF f.kind = "tack" THEN Acknowledged(d, f) ELSE d
<1>1. /\ dev' = [dev EXCEPT ![p] = e] /\ recvQ' = [recvQ EXCEPT ![p] = Tail(recvQ[p])]
      /\ up /\ recvQ[p] # << >> /\ UNCHANGED <<up, sendQ, toDev, toCtrl, ctrl, app>>
  <2>1. CASE Ack(p)  BY <2>1 DEF Ack, Fetched, Rest
  <2>2. CASE Ignore(p)
    <3>1. e = d  BY <2>2 DEF Ignore
    <3>2. [dev EXCEPT ![p] = d] = dev  BY Typed
    <3> QED  BY <2>2, <3>1, <3>2 DEF Ignore, Fetched, Rest
  <2> QED  BY <2>1, <2>2
<1>2. Conn(d, ctrl[p], app[p], sendQ[p], recvQ[p], toDev[p], toCtrl[p])
  BY <1>1 DEF Connected
<1>3. /\ d \in DevType /\ KeptBy(d) /\ ctrl[p] \in CtrlType /\ app[p] \in AppType
      /\ recvQ[p] \in Seq(FrameType) /\ toDev[p] \in Seq(FrameType)
      /\ toCtrl[p] \in Seq(FrameType)
  BY Typed
<1>4. Conn(e, ctrl[p], app[p], sendQ[p], Tail(recvQ[p]), toDev[p], toCtrl[p])
  <2>1. CASE f.kind = "tack"
    <3>1. e = Acknowledged(d, f) /\ f.kind \in Carriers \cup {"unknown"}
      BY <2>1 DEF Carriers
    <3> HIDE DEF e, d, f
    <3>2. f = Head(recvQ[p])  BY DEF f
    <3> QED  BY <1>1, <1>2, <1>3, <3>1, <3>2, DevRepeats
  <2>2. CASE f.kind # "tack"
    <3>1. e = d  BY <2>2
    <3> HIDE DEF e, d, f
    <3> QED  BY <1>1, <1>2, <1>3, <3>1, Passes
  <2> QED  BY <2>1, <2>2
<1> HIDE DEF e
<1>5. /\ dev'[p] = e /\ recvQ'[p] = Tail(recvQ[p])
      /\ \A r \in Prios : r # p => dev'[r] = dev[r] /\ recvQ'[r] = recvQ[r]
  BY <1>1, Typed
<1>6. CtrlSame(ctrl[p], ctrl'[p]) /\ DevMoves(app[p], ctrl[p], app'[p])
  BY <1>1 DEF CtrlSame, DevMoves, AppSame
<1> QED  BY <1>1, <1>4, <1>5, <1>6, OneStep

\* A new block is taken and the application told.
LEMMA ReceiveServes ==
  ASSUME IInv, Connected, NEW p \in Prios, Receive(p), ~ failed'  PROVE Serving
<1> DEFINE d == dev[p]  f == Head(recvQ[p])  t == Taken(d, f)  e == Delivered(t, f)
           b == Told(app[p], t, f)
<1>1. /\ dev' = [dev EXCEPT ![p] = e] /\ app' = [app EXCEPT ![p] = b]
      /\ toCtrl' = Sent(toCtrl, p, Tack(t))
      /\ recvQ' = [recvQ EXCEPT ![p] = Tail(recvQ[p])]
      /\ up /\ recvQ[p] # << >> /\ UNCHANGED <<up, sendQ, toDev, ctrl>>
      /\ f.kind \in Blocks /\ IsNew(d, f) /\ (f.kind = "notify" => t.alpmr = "W_NOTIFY")
  BY DEF Receive, Fetched, Rest, Blocks
<1>2. Conn(d, ctrl[p], app[p], sendQ[p], recvQ[p], toDev[p], toCtrl[p])
  BY <1>1 DEF Connected
<1>3. /\ d \in DevType /\ KeptBy(d) /\ ctrl[p] \in CtrlType /\ app[p] \in AppType
      /\ recvQ[p] \in Seq(FrameType) /\ toDev[p] \in Seq(FrameType)
      /\ toCtrl[p] \in Seq(FrameType)
  BY Typed
<1>4. t = Taken(d, f) /\ e = Delivered(t, f) /\ b = Told(app[p], t, f) /\ f = Head(recvQ[p])
  OBVIOUS
<1> HIDE DEF d, f, t, e, b
<1>5. /\ Conn(e, ctrl[p], b, sendQ[p], Tail(recvQ[p]), toDev[p], Put(toCtrl[p], Tack(t)))
      /\ DevMoves(app[p], ctrl[p], b)
  BY <1>1, <1>2, <1>3, <1>4, DevReceives
<1>6. /\ dev'[p] = e /\ app'[p] = b /\ recvQ'[p] = Tail(recvQ[p])
      /\ \A r \in Prios : r # p => dev'[r] = dev[r] /\ app'[r] = app[r] /\ recvQ'[r] = recvQ[r]
  BY <1>1, Typed
<1>7. /\ toCtrl'[p] = Put(toCtrl[p], Tack(t))
      /\ \A r \in Prios : r # p => toCtrl'[r] = toCtrl[r]
  <2>1. toCtrl \in [Prios -> Seq(FrameType)]  BY Typed
  <2> QED  BY <1>1, <2>1 DEF Sent, Put
<1>8. CtrlSame(ctrl[p], ctrl'[p])  BY <1>1 DEF CtrlSame
<1> QED  BY <1>1, <1>5, <1>6, <1>7, <1>8, OneStep

\* A repetition is answered and not told again.
LEMMA RepeatServes ==
  ASSUME IInv, Connected, NEW p \in Prios, Repeat(p)  PROVE Serving
<1> DEFINE d == dev[p]  f == Head(recvQ[p])  h == Acknowledged(d, f)
           e == IF IsOld(d, f) THEN h ELSE d
           k == IF IsOld(d, f) THEN Tack(h) ELSE Nack(d)
<1>1. /\ recvQ' = [recvQ EXCEPT ![p] = Tail(recvQ[p])]
      /\ up /\ recvQ[p] # << >> /\ UNCHANGED <<up, sendQ, toDev, ctrl, app>>
      /\ f.kind \in Carriers \cup {"unknown"}
      /\ IF IsOld(d, f) THEN dev' = [dev EXCEPT ![p] = h] /\ toCtrl' = Sent(toCtrl, p, Tack(h))
                        ELSE dev' = dev /\ toCtrl' = Sent(toCtrl, p, Nack(d))
  BY DEF Repeat, Fetched, Rest, Carriers, Blocks, DataKinds
<1>2. dev' = [dev EXCEPT ![p] = e] /\ toCtrl' = Sent(toCtrl, p, k)
  <2>1. [dev EXCEPT ![p] = d] = dev  BY Typed
  <2> HIDE DEF d, f, h
  <2> QED  BY <1>1, <2>1
<1>3. Conn(d, ctrl[p], app[p], sendQ[p], recvQ[p], toDev[p], toCtrl[p])
  BY <1>1 DEF Connected
<1>4. /\ d \in DevType /\ KeptBy(d) /\ ctrl[p] \in CtrlType /\ app[p] \in AppType
      /\ recvQ[p] \in Seq(FrameType) /\ toDev[p] \in Seq(FrameType)
      /\ toCtrl[p] \in Seq(FrameType)
  BY Typed
<1>5. h = Acknowledged(d, f) /\ f = Head(recvQ[p])  OBVIOUS
<1>6. Conn(e, ctrl[p], app[p], sendQ[p], Tail(recvQ[p]), toDev[p], Put(toCtrl[p], k))
  <2> HIDE DEF d, f, h
  <2>1. /\ Conn(h, ctrl[p], app[p], sendQ[p], Tail(recvQ[p]), toDev[p], Put(toCtrl[p], Tack(h)))
        /\ Conn(d, ctrl[p], app[p], sendQ[p], Tail(recvQ[p]), toDev[p], Put(toCtrl[p], Nack(d)))
    BY <1>1, <1>3, <1>4, <1>5, DevRepeats
  <2> QED  BY <2>1
<1> HIDE DEF d, f, h, e, k
<1>7. /\ dev'[p] = e /\ recvQ'[p] = Tail(recvQ[p])
      /\ \A r \in Prios : r # p => dev'[r] = dev[r] /\ recvQ'[r] = recvQ[r]
  BY <1>1, <1>2, Typed
<1>8. /\ toCtrl'[p] = Put(toCtrl[p], k)
      /\ \A r \in Prios : r # p => toCtrl'[r] = toCtrl[r]
  <2>1. toCtrl \in [Prios -> Seq(FrameType)]  BY Typed
  <2> QED  BY <1>2, <2>1 DEF Sent, Put
<1>9. CtrlSame(ctrl[p], ctrl'[p]) /\ DevMoves(app[p], ctrl[p], app'[p])
  BY <1>1 DEF CtrlSame, DevMoves, AppSame
<1> QED  BY <1>1, <1>6, <1>7, <1>8, <1>9, OneStep

\* The controller takes a frame.
LEMMA CtrlReceiveServes ==
  ASSUME IInv, Connected, NEW p \in Prios, CtrlReceive(p)  PROVE Serving
<1> DEFINE c == ctrl[p]  f == Head(toCtrl[p])
           e == IF f.kind \in DataKinds /\ f.seq = c.exp THEN CtrlTaken(c, f)
                  ELSE IF f.kind = "junk" THEN c ELSE CtrlAcked(c, f)
           w == IF f.kind \in DataKinds /\ f.seq = e.expO THEN Put(toDev[p], Tack(e))
                                                          ELSE toDev[p]
<1>1. /\ ctrl' = [ctrl EXCEPT ![p] = e] /\ up /\ toCtrl[p] # << >>
      /\ toDev' = IF f.kind \in DataKinds /\ f.seq = e.expO THEN Sent(toDev, p, Tack(e))
                                                            ELSE toDev
      /\ toCtrl' = [toCtrl EXCEPT ![p] = Tail(toCtrl[p])]
      /\ UNCHANGED <<up, dev, sendQ, recvQ, app>>
  BY DEF CtrlReceive, device
<1>2. Conn(dev[p], c, app[p], sendQ[p], recvQ[p], toDev[p], toCtrl[p])
  BY <1>1 DEF Connected
<1>3. /\ dev[p] \in DevType /\ c \in CtrlType /\ app[p] \in AppType /\ sendQ[p] \in Seq(Nat)
      /\ recvQ[p] \in Seq(FrameType) /\ toDev[p] \in Seq(FrameType)
      /\ toCtrl[p] \in Seq(FrameType)
  BY Typed
<1>4. /\ f = Head(toCtrl[p])
      /\ e = IF f.kind \in DataKinds /\ f.seq = c.exp THEN CtrlTaken(c, f)
               ELSE IF f.kind = "junk" THEN c ELSE CtrlAcked(c, f)
  OBVIOUS
<1> HIDE DEF c, f, e
<1>5. /\ f.kind \notin DataKinds \/ f.seq # e.expO =>
           Conn(dev[p], e, app[p], sendQ[p], recvQ[p], toDev[p], Tail(toCtrl[p]))
      /\ f.kind \in DataKinds /\ f.seq = e.expO =>
           Conn(dev[p], e, app[p], sendQ[p], recvQ[p], Put(toDev[p], Tack(e)), Tail(toCtrl[p]))
      /\ CtrlMoves(app[p], c, e)
  BY <1>1, <1>2, <1>3, <1>4, CtrlReceives
<1>6. Conn(dev[p], e, app[p], sendQ[p], recvQ[p], w, Tail(toCtrl[p]))  BY <1>5
<1>7. toDev'[p] = w /\ \A r \in Prios : r # p => toDev'[r] = toDev[r]
  <2>1. toDev \in [Prios -> Seq(FrameType)]  BY Typed
  <2> QED  BY <1>1, <2>1 DEF Sent, Put
<1> HIDE DEF w
<1>8. /\ ctrl'[p] = e /\ toCtrl'[p] = Tail(toCtrl[p])
      /\ \A r \in Prios : r # p => ctrl'[r] = ctrl[r] /\ toCtrl'[r] = toCtrl[r]
  BY <1>1, Typed
<1>9. AppSame(app[p], app'[p]) /\ CtrlMoves(app[p], ctrl[p], ctrl'[p])
  BY <1>1, <1>5, <1>8 DEF AppSame, c
<1> QED  BY <1>1, <1>6, <1>7, <1>8, <1>9, OneStep
\* The controller sends the answer to an alarm, or an alarm of its own.
LEMMA CtrlSendServes ==
  ASSUME IInv, Connected, NEW p \in Prios, CtrlAnswer(p) \/ CtrlAsk(p)  PROVE Serving
<1> DEFINE c == ctrl[p]
           kind == IF CtrlAnswer(p) THEN "answer" ELSE "notify"
           id == IF CtrlAnswer(p) THEN c.acked + 1 ELSE c.asked + 1
           f == Data(c, kind, id)
           acked == IF kind = "answer" THEN c.acked + 1 ELSE c.acked
           asked == IF kind = "notify" THEN c.asked + 1 ELSE c.asked
           e == [c EXCEPT !.out = f, !.resends = Retries, !.acked = acked, !.asked = asked]
<1>1. /\ up /\ c.out = NoFrame /\ toDev' = Sent(toDev, p, f)
      /\ ctrl' = [ctrl EXCEPT ![p] = e]
      /\ UNCHANGED <<up, dev, sendQ, recvQ, app, toCtrl>>
      /\ \/ kind = "answer" /\ c.acked < c.got
         \/ kind = "notify" /\ c.answered = c.asked /\ id = c.asked + 1
  <2>1. CASE CtrlAnswer(p)
    <3>1. kind = "answer" /\ id = c.acked + 1  BY <2>1
    <3> HIDE DEF kind, id
    <3> QED  BY <2>1, <3>1 DEF CtrlAnswer, CtrlSend, device
  <2>2. CASE ~ CtrlAnswer(p) /\ CtrlAsk(p)
    <3>1. kind = "notify" /\ id = c.asked + 1  BY <2>2
    <3> HIDE DEF kind, id
    <3> QED  BY <2>2, <3>1 DEF CtrlAsk, CtrlSend, device
  <2> QED  BY <2>1, <2>2
<1>2. Conn(dev[p], c, app[p], sendQ[p], recvQ[p], toDev[p], toCtrl[p])
  BY <1>1 DEF Connected
<1>3. /\ dev[p] \in DevType /\ c \in CtrlType /\ app[p] \in AppType /\ sendQ[p] \in Seq(Nat)
      /\ recvQ[p] \in Seq(FrameType) /\ toDev[p] \in Seq(FrameType)
      /\ toCtrl[p] \in Seq(FrameType)
  BY Typed
<1>4. kind \in Blocks /\ id \in Nat /\ acked \in Nat /\ asked \in Nat
  BY <1>3 DEF CtrlType, Blocks
<1>5. f.kind = kind /\ f.seq = c.seq /\ f.ack = c.expO /\ f.id = id  BY DEF Data
<1>6. f \in FrameType
  BY <1>3, <1>4 DEF Data, FrameType, Kinds, DataKinds, CtrlType, Blocks
<1>7. /\ kind = "answer" => acked = c.acked + 1 /\ asked = c.asked
      /\ kind = "notify" => acked = c.acked /\ asked = c.asked + 1
  OBVIOUS
<1> HIDE DEF f, acked, asked, kind, id
<1>8. e \in CtrlType  BY <1>3, <1>4, <1>6, Constants DEF CtrlType
<1>9. /\ e.seq = c.seq /\ e.seqO = c.seqO /\ e.exp = c.exp /\ e.expO = c.expO
      /\ e.out = f /\ e.got = c.got /\ e.answered = c.answered
      /\ e.acked = acked /\ e.asked = asked
  BY <1>3 DEF CtrlType
<1>10. ~ COut(c) /\ COut(e)
  <2>1. f # NoFrame  BY <1>4, <1>5 DEF NoFrame, Blocks
  <2> QED  BY <1>1, <1>9, <2>1 DEF COut
<1> HIDE DEF e
<1>11. /\ ctrl'[p] = e /\ \A r \in Prios : r # p => ctrl'[r] = ctrl[r]
       /\ toDev'[p] = Put(toDev[p], e.out)
       /\ \A r \in Prios : r # p => toDev'[r] = toDev[r]
  <2>1. toDev \in [Prios -> Seq(FrameType)] /\ ctrl \in [Prios -> CtrlType]  BY Typed
  <2> QED  BY <1>1, <1>9, <2>1 DEF Sent, Put
<1> HIDE DEF c
<1>12. \/ /\ e.out.kind = "answer" /\ c.acked < c.got
          /\ e.acked = c.acked + 1 /\ e.asked = c.asked
       \/ /\ e.out.kind = "notify" /\ c.answered = c.asked
          /\ e.asked = c.asked + 1 /\ e.acked = c.acked /\ e.out.id = e.asked
  BY <1>1, <1>5, <1>7, <1>9
<1>13. Conn(dev[p], e, app[p], sendQ[p], recvQ[p], Put(toDev[p], e.out), toCtrl[p])
  BY <1>2, <1>3, <1>5, <1>8, <1>9, <1>10, <1>12, CtrlSendsBlock
<1>14. CtrlMoves(app[p], c, e)  BY <1>9, <1>12 DEF CtrlMoves
<1>15. AppSame(app[p], app'[p]) /\ CtrlMoves(app[p], ctrl[p], ctrl'[p])
  BY <1>1, <1>11, <1>14 DEF AppSame, c
<1> QED  BY <1>1, <1>11, <1>13, <1>15, OneStep

\* The controller sends its frame again.
LEMMA CtrlResendServes ==
  ASSUME IInv, Connected, NEW p \in Prios, CtrlResend(p)  PROVE Serving
<1> DEFINE c == ctrl[p]  e == [c EXCEPT !.resends = c.resends - 1]
<1>1. /\ ctrl' = [ctrl EXCEPT ![p] = e] /\ toDev' = Sent(toDev, p, c.out) /\ up
      /\ c.out # NoFrame /\ UNCHANGED <<up, dev, sendQ, recvQ, app, toCtrl>>
  BY DEF CtrlResend, device
<1>2. Conn(dev[p], c, app[p], sendQ[p], recvQ[p], toDev[p], toCtrl[p])
  BY <1>1 DEF Connected
<1>3. c \in CtrlType  BY Typed
<1>4. /\ e.seq = c.seq /\ e.seqO = c.seqO /\ e.exp = c.exp /\ e.expO = c.expO
      /\ e.out = c.out /\ CtrlSame(c, e)
  BY <1>3 DEF CtrlType, CtrlSame
<1> HIDE DEF e
<1>5. /\ ctrl'[p] = e /\ \A r \in Prios : r # p => ctrl'[r] = ctrl[r]
      /\ toDev'[p] = Put(toDev[p], c.out)
      /\ \A r \in Prios : r # p => toDev'[r] = toDev[r]
  <2>1. toDev \in [Prios -> Seq(FrameType)] /\ ctrl \in [Prios -> CtrlType]  BY Typed
  <2> QED  BY <1>1, <2>1 DEF Sent, Put
<1> HIDE DEF c
<1>6. CtrlSends(c, c.out)
  <2>1. COut(c)  BY <1>1 DEF COut
  <2>2. KeptBlock(c.out, c.seq, c.expO)
    BY <1>2, <2>1 DEF Conn, Machines, KeptBlocks
  <2>3. c.out \in FrameType  BY <1>3 DEF CtrlType
  <2> QED  BY <2>1, <2>2, <2>3 DEF CtrlSends, KeptBlock, Blocks
<1>7. Conn(dev[p], c, app[p], sendQ[p], recvQ[p], Put(toDev[p], c.out), toCtrl[p])
  BY <1>2, <1>6, Typed, Passes
<1>8. Conn(dev[p], e, app[p], sendQ[p], recvQ[p], Put(toDev[p], c.out), toCtrl[p])
  BY <1>4, <1>7, CtrlAlike
<1>9. AppSame(app[p], app'[p]) /\ CtrlMoves(app[p], ctrl[p], ctrl'[p])
  BY <1>1, <1>4, <1>5 DEF AppSame, CtrlMoves, c
<1> QED  BY <1>1, <1>5, <1>8, <1>9, OneStep

\* A frame is lost on the wire.
LEMMA LoseServes == ASSUME IInv, Connected, NEW p \in Prios, Lose(p)  PROVE Serving
<1>1. UNCHANGED <<up, dev, sendQ, recvQ, app, ctrl>>  BY DEF Lose, device
<1>2. CASE ~ up  BY <1>1, <1>2, NoneMoves
<1>3. CASE up
  <2>1. Conn(dev[p], ctrl[p], app[p], sendQ[p], recvQ[p], toDev[p], toCtrl[p])
    BY <1>3 DEF Connected
  <2>2. AppSame(app[p], app'[p]) /\ CtrlMoves(app[p], ctrl[p], ctrl'[p])
    BY <1>1 DEF AppSame, CtrlMoves, CtrlSame
  <2>3. CASE /\ toCtrl[p] # << >> /\ toCtrl' = [toCtrl EXCEPT ![p] = Tail(toCtrl[p])]
             /\ UNCHANGED toDev
    <3>1. /\ toCtrl'[p] = Tail(toCtrl[p])
          /\ \A r \in Prios : r # p => toCtrl'[r] = toCtrl[r]
      BY <2>3, Typed
    <3>2. Conn(dev[p], ctrl[p], app[p], sendQ[p], recvQ[p], toDev[p], Tail(toCtrl[p]))
      BY <2>1, <2>3, Typed, Passes
    <3> QED  BY <1>1, <1>3, <2>2, <2>3, <3>1, <3>2, OneStep
  <2>4. CASE /\ toDev[p] # << >> /\ toDev' = [toDev EXCEPT ![p] = Tail(toDev[p])]
             /\ UNCHANGED toCtrl
    <3>1. /\ toDev'[p] = Tail(toDev[p])
          /\ \A r \in Prios : r # p => toDev'[r] = toDev[r]
      BY <2>4, Typed
    <3>2. Conn(dev[p], ctrl[p], app[p], sendQ[p], recvQ[p], Tail(toDev[p]), toCtrl[p])
      BY <2>1, <2>4, Typed, Passes
    <3> QED  BY <1>1, <1>3, <2>2, <2>4, <3>1, <3>2, OneStep
  <2> QED  BY <2>3, <2>4 DEF Lose
<1> QED  BY <1>2, <1>3

\* A frame that does not belong comes.
LEMMA NoiseServes == ASSUME IInv, Connected, NEW p \in Prios, Noise(p)  PROVE Serving
<1>1. UNCHANGED <<up, dev, sendQ, recvQ, app, ctrl, toCtrl>>  BY DEF Noise, device
<1>2. CASE ~ up  BY <1>1, <1>2, NoneMoves
<1>3. CASE up
  <2>1. Conn(dev[p], ctrl[p], app[p], sendQ[p], recvQ[p], toDev[p], toCtrl[p])
    BY <1>3 DEF Connected
  <2>2. AppSame(app[p], app'[p]) /\ CtrlMoves(app[p], ctrl[p], ctrl'[p])
    BY <1>1 DEF AppSame, CtrlMoves, CtrlSame
  <2> DEFINE Frames == [kind : {"unknown"}, seq : SeqNums, ack : {Before}, id : {0}]
                       \cup {NoFrame, [NoFrame EXCEPT !.kind = "err"]}
  <2>3. PICK f \in Frames : toDev' = [toDev EXCEPT ![p] = <<f>>]  BY DEF Noise
  <2>4. CtrlSends(ctrl[p], f)
    <3>1. CASE f \in [kind : {"unknown"}, seq : SeqNums, ack : {Before}, id : {0}]
      <4>1. f.kind = "unknown" /\ f.ack = Before  BY <3>1
      <4>2. f \in FrameType
        BY <3>1, Constants DEF FrameType, Kinds, DataKinds
      <4> QED  BY <4>1, <4>2 DEF CtrlSends, Carriers, Blocks
    <3>2. CASE f \in {NoFrame, [NoFrame EXCEPT !.kind = "err"]}
      <4>1. f.kind \in {"junk", "err"}  BY <3>2 DEF NoFrame
      <4>2. f \in FrameType
        BY <3>2, NoFrameType DEF FrameType, Kinds
      <4> QED  BY <4>1, <4>2 DEF CtrlSends, Carriers, Blocks
    <3> QED  BY <2>3, <3>1, <3>2
  <2> HIDE DEF Frames
  <2>5. /\ toDev'[p] = Put(toDev[p], f)
        /\ \A r \in Prios : r # p => toDev'[r] = toDev[r]
    <3>1. toDev \in [Prios -> Seq(FrameType)] /\ toDev[p] = << >>  BY Typed DEF Noise
    <3>2. Put(<< >>, f) = <<f>>  BY SizeAssumption DEF Put
    <3> QED  BY <2>3, <3>1, <3>2
  <2>6. Conn(dev[p], ctrl[p], app[p], sendQ[p], recvQ[p], Put(toDev[p], f), toCtrl[p])
    BY <2>1, <2>4, Typed, Passes
  <2> QED  BY <1>1, <1>3, <2>2, <2>5, <2>6, OneStep
<1> QED  BY <1>2, <1>3

\* Every step keeps the two ends together, unless a send is refused.
LEMMA StepServes ==
  IInv /\ Connected /\ (~ failed)' /\ [Next]_vars => Connected' /\ [Service!Next]_(Service!counts)
<1> SUFFICES ASSUME IInv, Connected, ~ failed', [Next]_vars  PROVE Serving
  BY DEF Serving
<1>1. CASE Activate  BY <1>1, ActivateServes
<1>2. CASE Enable  BY <1>2, NoneMoves DEF Enable
<1>3. CASE Abort \/ SendAnswerBusy
  BY <1>3, CloseServes DEF Abort, SendAnswerBusy, Crash, Close
<1>4. CASE SendAnswer  BY <1>4, SendAnswerServes
<1>5. CASE Gone \/ UNCHANGED vars  BY <1>5, NoneMoves DEF Gone, vars
<1>6. ASSUME NEW p \in Prios, Post(p) PROVE Serving  BY <1>6, PostServes
<1>7. ASSUME NEW p \in Prios, Timer(p) PROVE Serving
  <2>1. CASE SendExpires(p)  BY <2>1, CloseServes DEF SendExpires
  <2> QED  BY <1>7, <2>1, ResendServes, TimerEndsServes DEF Timer
<1>8. ASSUME NEW p \in Prios, Periodic(p) PROVE Serving
  <2>1. CASE ProtocolFault(p) \/ SendAlarmBusy(p)
    BY <2>1, CloseServes DEF ProtocolFault, SendAlarmBusy, Crash, Close
  <2> QED  BY <1>8, <2>1, AckServes, ReceiveServes, RepeatServes, SendAlarmServes DEF Periodic
<1>9. ASSUME NEW p \in Prios, Arrive(p) PROVE Serving  BY <1>9, ArriveServes
<1>10. ASSUME NEW p \in Prios, CtrlReceive(p) PROVE Serving  BY <1>10, CtrlReceiveServes
<1>11. ASSUME NEW p \in Prios, CtrlAnswer(p) \/ CtrlAsk(p) PROVE Serving
  BY <1>11, CtrlSendServes
<1>12. ASSUME NEW p \in Prios, CtrlTimer(p) PROVE Serving
  <2>1. CASE CtrlExpires(p)  BY <2>1, CloseServes DEF CtrlExpires, Close
  <2> QED  BY <1>12, <2>1, CtrlResendServes DEF CtrlTimer
<1>13. ASSUME NEW p \in Prios, Lose(p) \/ Noise(p) PROVE Serving
  BY <1>13, LoseServes, NoiseServes
<1> QED
  BY <1>1, <1>2, <1>3, <1>4, <1>5, <1>6, <1>7, <1>8, <1>9, <1>10, <1>11, <1>12, <1>13 DEF Next

\* As long as no send is refused, the device and a controller that follows the
\* protocol do what AlarmService promises, whatever the wire loses and however late
\* a frame comes: alarms arrive in order and once in both directions, and nothing is
\* confirmed that was not acknowledged (pf_alarm_apmr_periodic, pf_alarm_apms_timeout).
THEOREM ServesWhileSent == Spec /\ [](~ failed) => Serves
<1>1. Init => Connected /\ Service!Init
  BY DEF Init, Connected, All, Service!Init, Service!Zero, NoApp, NoCtrl
<1>2. Spec => []IInv  BY Invariant
<1> QED  BY <1>1, <1>2, StepServes, PTL DEF Spec, Serves, Service!Spec
=============================================================================
