------------------------------- MODULE Alarm -------------------------------
(***************************************************************************)
(* The alarm machines of one AR: pf_alarm.c.                               *)
(*                                                                         *)
(* For each priority an APMS/APMR pair carries frames over Ethernet with a *)
(* window of one: a DATA frame is kept and sent again until its transport  *)
(* acknowledge (TACK) comes, and received DATA frames are told from        *)
(* repetitions by their sequence number.  Above it ALPMI sends the alarms  *)
(* that the application has queued, one at a time, and waits for the alarm *)
(* acknowledge of the controller; ALPMR indicates the controller's alarms  *)
(* and sends the application's answers.                                    *)
(*                                                                         *)
(* The main thread runs every action of the device but Arrive, which is    *)
(* the frame handler of the Ethernet thread.  The controller at the other  *)
(* end (external) follows the same protocol; the wire between them loses   *)
(* frames.  A frame carries the number of the alarm it is about.           *)
(***************************************************************************)
EXTENDS Integers, Sequences

CONSTANTS
  Modulus,         \* range of the sequence numbers: 2^15
  Retries,         \* rta_retries of the AlarmCR
  QueueSize,       \* PNET_MAX_ALARMS: room in each queue
  WireSize,        \* bound: frames in flight in one direction
  MaxStale,        \* bound: timers left over when a connection starts
  Loads            \* bounds: what a connection may meet, for each priority

Prios == {"low", "high"}

\* Alarms of the application, alarms of the controller, frames that do not belong,
\* and sends that the Ethernet driver refuses.
LoadType == [alarms : Nat, notes : Nat, noise : BOOLEAN, fails : BOOLEAN]
ASSUME SizeAssumption ==
  /\ Modulus \in Nat /\ Modulus > 2 /\ Retries \in Nat
  /\ QueueSize \in Nat \ {0} /\ WireSize \in Nat \ {0}
  /\ MaxStale \in Nat /\ Loads \subseteq [Prios -> LoadType]

VARIABLES
  load,     \* the bounds of this behaviour, fixed at the start
  up,       \* the AR is in use and its alarm machines are active
  enabled,  \* alarm_enable of the AR
  dev,      \* per priority: the pf_apmx_t and pf_alpmx_t
  sendQ,    \* alarm_send_q: alarms that wait for ALPMI
  recvQ,    \* alarm_receive_q: frames that wait for APMR
  armed,    \* timers in the scheduler whose argument is this pf_apmx_t
  held,     \* resend_timeout refers to one of them
  toCtrl,   \* frames in flight to the controller
  toDev,    \* frames in flight to the device
  ctrl,     \* the controller's machines
  app,      \* history: what the application has posted and was told
  failed,   \* history: a send has failed in this connection
  crashed   \* the stack has followed a NULL pointer

vars == <<load, up, enabled, dev, sendQ, recvQ, armed, held, toCtrl, toDev, ctrl, app,
          failed, crashed>>
device == <<load, up, enabled, dev, sendQ, recvQ, armed, held, app, failed,
            crashed>>

Start    == -1                       \* 0xffff
Before   == -2                       \* 0xfffe
SeqNums  == {Start, Before} \cup 0 .. Modulus - 1
DataKinds == {"notify", "answer", "unknown"}
Kinds    == DataKinds \cup {"tack", "err", "junk"}
NoFrame  == [kind |-> "junk", seq |-> Before, ack |-> Before, id |-> 0]

NextSeq(s) == IF s = Start THEN 0 ELSE (s + 1) % Modulus

Closed == [apms |-> "CLOSED", apmr |-> "CLOSED", alpmi |-> "W_START",
           alpmr |-> "W_START", seq |-> 0, seqO |-> 0, exp |-> 0, expO |-> 0,
           rta |-> NoFrame, resends |-> 0]
Activated == [Closed EXCEPT !.apms = "OPEN", !.apmr = "OPEN",
                !.alpmi = "W_ALARM", !.alpmr = "W_NOTIFY",
                !.seq = Start, !.seqO = Before, !.exp = Start, !.expO = Before]
NoCtrl == [seq |-> Start, seqO |-> Before, exp |-> Start, expO |-> Before,
           out |-> NoFrame, resends |-> 0, got |-> 0, acked |-> 0, asked |-> 0,
           answered |-> 0]
NoApp  == [posted |-> 0, confirmed |-> 0, indicated |-> 0]

All(x) == [p \in Prios |-> x]

Init == /\ load \in Loads /\ up = FALSE /\ enabled = FALSE /\ dev = All(Closed)
        /\ sendQ = All(<< >>) /\ recvQ = All(<< >>)
        /\ armed = All(0) /\ held = All(FALSE)
        /\ toCtrl = All(<< >>) /\ toDev = All(<< >>)
        /\ ctrl = All(NoCtrl) /\ app = All(NoApp)
        /\ failed = FALSE /\ crashed = FALSE

Runs == ~ crashed

\* f is put on the wire; with WireSize frames in flight it is lost.
Sent(wire, p, f) ==
  [wire EXCEPT ![p] = IF Len(@) < WireSize THEN Append(@, f) ELSE @]

-----------------------------------------------------------------------------
(* Connection and end.                                                      *)

\* pf_alarm_activate(), of a Connect that is accepted.
Activate ==
  /\ Runs /\ ~ up /\ \A p \in Prios : armed[p] <= MaxStale
  /\ up' = TRUE /\ enabled' = FALSE /\ dev' = All(Activated)
  /\ held' = All(FALSE) /\ failed' = FALSE
  /\ toCtrl' = All(<< >>) /\ toDev' = All(<< >>) /\ ctrl' = All(NoCtrl)
  /\ app' = All(NoApp)
  /\ UNCHANGED <<load, sendQ, recvQ, armed, crashed>>

\* The AR enters DATA, or leaves and enters it again with PRMBEGIN and APPLRDY.
Enable == /\ Runs /\ up /\ enabled' = ~ enabled
          /\ UNCHANGED <<load, up, dev, sendQ, recvQ, armed, held, toCtrl, toDev, ctrl,
                         app, failed, crashed>>

\* Only the timer in the handle can be removed.
TimersLeft(arm, hold) ==
  [p \in Prios |-> IF hold[p] THEN arm[p] - 1 ELSE arm[p]]

\* pf_alarm_close() and pf_ar_release(); arm and hold are the timers by now.
CloseWith(arm, hold) ==
  /\ up' = FALSE /\ enabled' = FALSE /\ dev' = All(Closed)
  /\ sendQ' = All(<< >>) /\ recvQ' = All(<< >>)
  /\ armed' = TimersLeft(arm, hold) /\ held' = All(FALSE)
  /\ toCtrl' = All(<< >>) /\ toDev' = All(<< >>) /\ ctrl' = All(NoCtrl)
  /\ app' = All(NoApp) /\ failed' = FALSE
  /\ UNCHANGED load
Close == CloseWith(armed, held)

\* A release, a fault or an abort from elsewhere.
Abort == Runs /\ up /\ Close /\ UNCHANGED crashed

\* The confirmation cnf(-) of a busy APMS goes to ALPMI, which aborts the AR, and
\* then to ALPMR through the pf_apmx_t that the release has cleared.
Crash == Close /\ crashed' = TRUE

-----------------------------------------------------------------------------
(* The sender: APMS and ALPMI.                                              *)

\* pnet_alarm_send_process_alarm() and the other alarms.
Post(p) ==
  /\ Runs /\ up /\ enabled
  /\ app[p].posted < load[p].alarms /\ Len(sendQ[p]) < QueueSize
  /\ app' = [app EXCEPT ![p].posted = @ + 1]
  /\ sendQ' = [sendQ EXCEPT ![p] = Append(@, app[p].posted + 1)]
  /\ UNCHANGED <<load, up, enabled, dev, recvQ, armed, held, toCtrl, toDev, ctrl,
                 failed, crashed>>

Data(d, kind, id) == [kind |-> kind, seq |-> d.seq, ack |-> d.expO, id |-> id]

\* Mutant: the frame is not kept.
WaitingUnsaved(d, f) == [d EXCEPT !.apms = "WTACK", !.resends = Retries]
Waiting(d, f) == [d EXCEPT !.apms = "WTACK", !.rta = f, !.resends = Retries]

\* Mutant: the timer is forgotten.
ArmNot(p) == UNCHANGED <<armed, held>>
\* A timer of an earlier frame may still be in the scheduler.
Arm(p) == /\ armed' = [armed EXCEPT ![p] = @ + 1]
          /\ held' = [held EXCEPT ![p] = TRUE]

\* pf_alarm_apms_apms_a_data_req() of an APMS that is OPEN: the frame goes out,
\* or the driver refuses it; it is kept and the timer is armed in either case.
Transmit(p, f, sent) ==
  /\ sent \/ load[p].fails
  /\ toCtrl' = IF sent THEN Sent(toCtrl, p, f) ELSE toCtrl
  /\ failed' = (failed \/ ~ sent)
  /\ Arm(p)

HighFirst(p) ==
  p = "low" => dev["high"].alpmi # "W_ALARM" \/ sendQ["high"] = << >>

\* pf_alarm_almpi_periodic(): the oldest alarm, of the high priority first.
Fetches(p) == /\ Runs /\ up /\ enabled /\ dev[p].alpmi = "W_ALARM"
              /\ sendQ[p] # << >> /\ HighFirst(p)

SendAlarm(p) ==
  /\ Fetches(p) /\ dev[p].apms = "OPEN"
  /\ \E sent \in BOOLEAN :
       LET f == Data(dev[p], "notify", Head(sendQ[p]))
       IN /\ Transmit(p, f, sent)
          /\ dev' = [dev EXCEPT ![p] =
               IF sent THEN [Waiting(@, f) EXCEPT !.alpmi = "W_ACK"]
                       ELSE Waiting(@, f)]
  /\ sendQ' = [sendQ EXCEPT ![p] = Tail(@)]
  /\ UNCHANGED <<load, up, enabled, recvQ, toDev, ctrl, app, crashed>>

SendAlarmBusy(p) == Fetches(p) /\ dev[p].apms # "OPEN" /\ Crash

\* pnet_alarm_send_ack(): whatever the priority of the alarm, the answer goes out
\* as high priority.
Answers == Runs /\ up /\ dev["high"].alpmr = "W_USER_ACK"

SendAnswer ==
  /\ Answers /\ dev["high"].apms = "OPEN"
  /\ \E sent \in BOOLEAN :
       LET f == Data(dev["high"], "answer", app["high"].indicated)
       IN /\ Transmit("high", f, sent)
          /\ dev' = [dev EXCEPT !["high"] =
                       [Waiting(@, f) EXCEPT !.alpmr = "W_TACK"]]
  /\ UNCHANGED <<load, up, enabled, sendQ, recvQ, toDev, ctrl, app, crashed>>

SendAnswerBusy == Answers /\ dev["high"].apms # "OPEN" /\ Crash

GivesUp(d) == d.resends = 0

\* pf_alarm_apms_timeout().  It resets the handle, whichever timer it belongs to.
Resend(p) ==
  /\ Runs /\ armed[p] > 0 /\ dev[p].apms = "WTACK" /\ ~ GivesUp(dev[p])
  /\ dev' = [dev EXCEPT ![p].resends = @ - 1]
  /\ toCtrl' = Sent(toCtrl, p, dev[p].rta)
  /\ held' = [held EXCEPT ![p] = TRUE]
  /\ UNCHANGED <<load, up, enabled, sendQ, recvQ, armed, toDev, ctrl, app,
                 failed, crashed>>

SendExpires(p) ==
  /\ Runs /\ armed[p] > 0 /\ dev[p].apms = "WTACK" /\ GivesUp(dev[p])
  /\ CloseWith([armed EXCEPT ![p] = @ - 1], [held EXCEPT ![p] = FALSE])
  /\ UNCHANGED crashed

TimerEnds(p) ==
  /\ Runs /\ armed[p] > 0 /\ dev[p].apms # "WTACK"
  /\ armed' = [armed EXCEPT ![p] = @ - 1]
  /\ held' = [held EXCEPT ![p] = FALSE]
  /\ dev' = [dev EXCEPT ![p].rta = NoFrame]
  /\ UNCHANGED <<load, up, enabled, sendQ, recvQ, toCtrl, toDev, ctrl, app,
                 failed, crashed>>

-----------------------------------------------------------------------------
(* The receiver: APMR and ALPMR.                                            *)

\* The Ethernet thread; a frame of another AR, or beyond the queue, is dropped.
Arrive(p) ==
  /\ Runs /\ toDev[p] # << >>
  /\ toDev' = [toDev EXCEPT ![p] = Tail(@)]
  /\ recvQ' = [recvQ EXCEPT ![p] =
       IF up /\ Len(@) < QueueSize THEN Append(@, Head(toDev[p])) ELSE @]
  /\ UNCHANGED <<load, up, enabled, dev, sendQ, armed, held, toCtrl, ctrl, app,
                 failed, crashed>>

\* APMS looks at the acknowledged sequence number of ACK and DATA frames.
Acknowledged(d, f) ==
  IF d.apms = "WTACK" /\ f.ack = d.seq
    THEN [d EXCEPT !.apms = "OPEN", !.seqO = d.seq, !.seq = NextSeq(d.seq),
                   !.rta = NoFrame,
                   !.alpmr = IF @ = "W_TACK" THEN "W_NOTIFY" ELSE @]
    ELSE d

Tack(d) == [kind |-> "tack", seq |-> d.seqO, ack |-> d.expO, id |-> 0]
Nack(d) == [kind |-> "junk", seq |-> d.seqO, ack |-> d.expO, id |-> 0]

\* Mutant: a repetition is not told from a new frame.
IsNewAlways(d, f) == f.seq \in {d.exp, d.expO}
IsNew(d, f) == f.seq = d.exp
IsOld(d, f) == f.seq # d.exp /\ f.seq = d.expO

Taken(d, f) ==
  [Acknowledged(d, f) EXCEPT !.expO = d.exp, !.exp = NextSeq(d.exp)]

\* pf_alarm_apmr_periodic() takes one frame, f, out of the queue.
Fetched(p) == /\ Runs /\ up /\ recvQ[p] # << >>
Rest(p)    == recvQ' = [recvQ EXCEPT ![p] = Tail(@)]

Ack(p) ==
  /\ Fetched(p)
  /\ LET f == Head(recvQ[p])
     IN f.kind = "tack" /\ dev' = [dev EXCEPT ![p] = Acknowledged(@, f)]
  /\ Rest(p)
  /\ UNCHANGED <<load, up, enabled, sendQ, armed, held, toCtrl, toDev, ctrl, app,
                 failed, crashed>>

Ignore(p) ==
  /\ Fetched(p) /\ Head(recvQ[p]).kind = "junk"
  /\ Rest(p)
  /\ UNCHANGED <<load, up, enabled, dev, sendQ, armed, held, toCtrl, toDev, ctrl, app,
                 failed, crashed>>

\* An ERR frame, an unknown block or an alarm that comes before the answer to the
\* last one ends the AR.
ProtocolFault(p) ==
  /\ Fetched(p)
  /\ LET f == Head(recvQ[p]) d == Taken(dev[p], f)
     IN \/ f.kind = "err"
        \/ f.kind = "unknown" /\ IsNew(dev[p], f)
        \/ /\ f.kind = "notify" /\ IsNew(dev[p], f)
           /\ d.alpmr \in {"W_USER_ACK", "W_TACK"}
  /\ Close /\ UNCHANGED crashed

\* A new DATA frame: it is acknowledged, and then delivered when the driver has
\* taken the acknowledge.
Delivered(d, f) ==
  IF f.kind = "answer"
    THEN [d EXCEPT !.alpmi = IF @ = "W_ACK" THEN "W_ALARM" ELSE @]
    ELSE [d EXCEPT !.alpmr = "W_USER_ACK"]
Told(a, d, f) ==
  IF f.kind = "notify" THEN [a EXCEPT !.indicated = f.id]
    ELSE IF d.alpmi = "W_ACK" THEN [a EXCEPT !.confirmed = @ + 1] ELSE a

Receive(p) ==
  /\ Fetched(p)
  /\ LET f == Head(recvQ[p]) d == Taken(dev[p], f)
     IN /\ f.kind \in {"notify", "answer"} /\ IsNew(dev[p], f)
        /\ f.kind = "notify" => d.alpmr = "W_NOTIFY"
        /\ \/ /\ toCtrl' = Sent(toCtrl, p, Tack(d))
              /\ dev' = [dev EXCEPT ![p] = Delivered(d, f)]
              /\ app' = [app EXCEPT ![p] = Told(@, d, f)]
              /\ UNCHANGED failed
           \/ /\ load[p].fails /\ failed' = TRUE
              /\ dev' = [dev EXCEPT ![p] = d]
              /\ UNCHANGED <<toCtrl, app>>
  /\ Rest(p)
  /\ UNCHANGED <<load, up, enabled, sendQ, armed, held, toDev, ctrl, crashed>>

\* A repetition is acknowledged again, a frame out of order is refused.
Repeat(p) ==
  /\ Fetched(p)
  /\ LET f == Head(recvQ[p]) d == Acknowledged(dev[p], f)
     IN /\ f.kind \in DataKinds /\ ~ IsNew(dev[p], f)
        /\ IF IsOld(dev[p], f)
             THEN /\ dev' = [dev EXCEPT ![p] = d]
                  /\ toCtrl' = Sent(toCtrl, p, Tack(d))
             ELSE /\ toCtrl' = Sent(toCtrl, p, Nack(dev[p]))
                  /\ UNCHANGED dev
  /\ Rest(p)
  /\ UNCHANGED <<load, up, enabled, sendQ, armed, held, toDev, ctrl, app,
                 failed, crashed>>

-----------------------------------------------------------------------------
(* The controller (external) and the wire.                                  *)

CtrlAcked(c, f) == IF c.out # NoFrame /\ f.ack = c.seq
                     THEN [c EXCEPT !.seqO = c.seq, !.seq = NextSeq(c.seq),
                                    !.out = NoFrame]
                     ELSE c
CtrlTaken(c, f) ==
  LET d == [CtrlAcked(c, f) EXCEPT !.expO = c.exp, !.exp = NextSeq(c.exp)]
  IN IF f.kind = "notify" THEN [d EXCEPT !.got = f.id]
                          ELSE [d EXCEPT !.answered = f.id]

\* A DATA frame is taken once and acknowledged every time.
CtrlReceive(p) ==
  /\ Runs /\ up /\ toCtrl[p] # << >>
  /\ LET f == Head(toCtrl[p])
         c == IF f.kind \in DataKinds /\ f.seq = ctrl[p].exp
                THEN CtrlTaken(ctrl[p], f)
                ELSE IF f.kind = "junk" THEN ctrl[p] ELSE CtrlAcked(ctrl[p], f)
     IN /\ ctrl' = [ctrl EXCEPT ![p] = c]
        /\ toDev' = IF f.kind \in DataKinds /\ f.seq = c.expO
                      THEN Sent(toDev, p, Tack(c)) ELSE toDev
  /\ toCtrl' = [toCtrl EXCEPT ![p] = Tail(@)]
  /\ UNCHANGED device

CtrlSend(p, kind, id) ==
  LET f == Data(ctrl[p], kind, id)
      c == [ctrl[p] EXCEPT !.out = f, !.resends = Retries,
                           !.acked = IF kind = "answer" THEN @ + 1 ELSE @,
                           !.asked = IF kind = "notify" THEN @ + 1 ELSE @]
  IN /\ toDev' = Sent(toDev, p, f)
     /\ ctrl' = [ctrl EXCEPT ![p] = c]
     /\ UNCHANGED <<toCtrl, device>>

\* The alarm acknowledge, and an alarm of the controller.
CtrlAnswer(p) == /\ Runs /\ up /\ ctrl[p].out = NoFrame
                 /\ ctrl[p].acked < ctrl[p].got
                 /\ CtrlSend(p, "answer", ctrl[p].acked + 1)
CtrlAsk(p) == /\ Runs /\ up /\ ctrl[p].out = NoFrame
              /\ ctrl[p].asked < load[p].notes /\ ctrl[p].answered = ctrl[p].asked
              /\ CtrlSend(p, "notify", ctrl[p].asked + 1)

CtrlResend(p) ==
  /\ Runs /\ up /\ ctrl[p].out # NoFrame /\ ctrl[p].resends > 0
  /\ toDev' = Sent(toDev, p, ctrl[p].out)
  /\ ctrl' = [ctrl EXCEPT ![p].resends = @ - 1]
  /\ UNCHANGED <<toCtrl, device>>

\* It gives the connection up, and sooner or later the device notices.
CtrlExpires(p) == /\ Runs /\ up /\ ctrl[p].out # NoFrame
                  /\ ctrl[p].resends = 0
                  /\ Close /\ UNCHANGED crashed

Lose(p) == /\ Runs
           /\ \/ /\ toCtrl[p] # << >>
                 /\ toCtrl' = [toCtrl EXCEPT ![p] = Tail(@)]
                 /\ UNCHANGED toDev
              \/ /\ toDev[p] # << >>
                 /\ toDev' = [toDev EXCEPT ![p] = Tail(@)]
                 /\ UNCHANGED toCtrl
           /\ UNCHANGED <<ctrl, device>>

\* Frames that no controller of this protocol sends.
Noise(p) == /\ Runs /\ up /\ load[p].noise
            /\ toDev[p] = << >> /\ recvQ[p] = << >>
            /\ \E f \in [kind : {"unknown"}, seq : SeqNums, ack : {Before},
                         id : {0}]
                        \cup {NoFrame, [NoFrame EXCEPT !.kind = "err"]} :
                 toDev' = [toDev EXCEPT ![p] = <<f>>]
            /\ UNCHANGED <<toCtrl, ctrl, device>>

\* The process that runs the stack is gone.
Gone == crashed /\ UNCHANGED vars

Timer(p)    == Resend(p) \/ SendExpires(p) \/ TimerEnds(p)
Periodic(p) == \/ Ack(p) \/ Ignore(p) \/ ProtocolFault(p) \/ Receive(p)
               \/ Repeat(p) \/ SendAlarm(p) \/ SendAlarmBusy(p)
CtrlTimer(p) == CtrlResend(p) \/ CtrlExpires(p)

Next == \/ Activate \/ Enable \/ Abort \/ SendAnswer \/ SendAnswerBusy \/ Gone
        \/ \E p \in Prios : \/ Post(p) \/ Timer(p) \/ Periodic(p) \/ Arrive(p)
                            \/ CtrlReceive(p) \/ CtrlAnswer(p) \/ CtrlAsk(p)
                            \/ CtrlTimer(p) \/ Lose(p) \/ Noise(p)

\* The scheduler, pf_alarm_periodic() and the Ethernet thread run, each for whatever
\* priority; so does the controller.  Frames need not get through.
CtrlSide(p) == CtrlAnswer(p) \/ CtrlTimer(p)
Fairness == /\ WF_vars(\E p \in Prios : Timer(p))
            /\ WF_vars(\E p \in Prios : Periodic(p))
            /\ WF_vars(\E p \in Prios : Arrive(p))
            /\ WF_vars(\E p \in Prios : CtrlReceive(p))
            /\ WF_vars(\E p \in Prios : CtrlSide(p))

Spec == Init /\ [][Next]_vars /\ Fairness

-----------------------------------------------------------------------------
(* Properties.                                                              *)

FrameType == [kind : Kinds, seq : SeqNums, ack : SeqNums, id : Nat]
DevType   == [apms : {"CLOSED", "OPEN", "WTACK"}, apmr : {"CLOSED", "OPEN"},
              alpmi : {"W_START", "W_ALARM", "W_ACK"},
              alpmr : {"W_START", "W_NOTIFY", "W_USER_ACK", "W_TACK"},
              seq : SeqNums, seqO : SeqNums, exp : SeqNums, expO : SeqNums,
              rta : FrameType, resends : 0 .. Retries]
CtrlType  == [seq : SeqNums, seqO : SeqNums, exp : SeqNums, expO : SeqNums,
              out : FrameType, resends : 0 .. Retries, got : Nat, acked : Nat,
              asked : Nat, answered : Nat]
AppType   == [posted : Nat, confirmed : Nat, indicated : Nat]

\* Every variable stays within its type, and no queue outgrows its array.
TypeOK ==
  /\ load \in Loads
  /\ up \in BOOLEAN /\ enabled \in BOOLEAN /\ failed \in BOOLEAN
  /\ crashed \in BOOLEAN
  /\ dev \in [Prios -> DevType] /\ ctrl \in [Prios -> CtrlType]
  /\ app \in [Prios -> AppType]
  /\ armed \in [Prios -> Nat] /\ held \in [Prios -> BOOLEAN]
  /\ sendQ \in [Prios -> Seq(Nat)] /\ recvQ \in [Prios -> Seq(FrameType)]
  /\ toCtrl \in [Prios -> Seq(FrameType)] /\ toDev \in [Prios -> Seq(FrameType)]
  /\ \A p \in Prios : /\ Len(sendQ[p]) <= QueueSize
                      /\ Len(recvQ[p]) <= QueueSize

\* A frame is kept exactly while its TACK is awaited, and then a timer is armed
\* that sends it again or ends the AR; ALPMR waits for a TACK only while the
\* frame that is kept is its answer (pf_apmx_t, p_rta and resend_timeout).
Kept ==
  \A p \in Prios :
    /\ (dev[p].apms = "WTACK") <=> (dev[p].rta # NoFrame)
    /\ dev[p].apms = "WTACK" \/ held[p] => armed[p] > 0
    /\ dev[p].alpmr = "W_TACK" => dev[p].rta.kind = "answer"

\* Where no send fails, every alarm that the stack has accepted waits in the
\* queue, is the one whose confirmation is awaited, or was confirmed.
Accounted ==
  \A p \in Prios :
    ~ failed /\ up =>
      app[p].posted = Len(sendQ[p]) + app[p].confirmed
                      + (IF dev[p].alpmi = "W_ACK" THEN 1 ELSE 0)

\* No alarm is forgotten: a frame that waits has a timer and what was accepted is
\* accounted for (pf_alarm.c, APMS and ALPMI).
Tracked == Kept /\ Accounted

\* The device and a controller that follows the protocol, over a wire that loses
\* frames, with late frames, repetitions and stale timers, keep the promises of
\* AlarmService: alarms arrive in order and once in both directions, and nothing
\* is confirmed that was not acknowledged.
Service == INSTANCE AlarmService WITH
  posted    <- [p \in Prios |-> app[p].posted],
  delivered <- [p \in Prios |-> ctrl[p].got],
  acked     <- [p \in Prios |-> ctrl[p].acked],
  confirmed <- [p \in Prios |-> app[p].confirmed],
  asked     <- [p \in Prios |-> ctrl[p].asked],
  indicated <- [p \in Prios |-> app[p].indicated],
  answered  <- [p \in Prios |-> ctrl[p].answered]
Serves == Service!Spec

\* An alarm that was sent is confirmed in the end, or the AR ends, unless a send
\* has failed.
AlarmsFinish ==
  \A p \in Prios :
    dev[p].alpmi = "W_ACK" ~> dev[p].alpmi # "W_ACK" \/ failed

\* The timer of a frame stops with its TACK: one timer at most is armed for each
\* APMX (pf_alarm.c, pf_alarm_apms_timeout: "and the timer stops").
OneTimer == \A p \in Prios : armed[p] <= 1

\* The application may answer an alarm whenever it was indicated, also from the
\* callback (include/pnet_api.h, pnet_alarm_ind); the stack survives that.
AnswerIsSafe == ~ crashed
=============================================================================
