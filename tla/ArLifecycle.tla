---------------------------- MODULE ArLifecycle ----------------------------
(***************************************************************************)
(* The life of an application relation (AR), from Connect to release:      *)
(* pf_cmrpc.c (sessions and AR table), pf_cmdev.c (the AR state machine)   *)
(* and the machines it drives by events, pf_cmsu.c, pf_cmio.c, pf_cmwrr.c, *)
(* pf_cmsm.c and pf_cmpbe.c, with the parts of pf_alarm.c, pf_cpm.c and    *)
(* pf_ppm.c that they open and close.                                      *)
(*                                                                         *)
(* Every handler runs to its end in the main thread; one action is one     *)
(* incoming frame, expired timer or call of the application.  A timer that *)
(* is armed outlives its AR: pf_ar_release() clears the AR and not the     *)
(* scheduler, so the timers are variables of their own.                    *)
(*                                                                         *)
(* An AR has one input and one output CR.  Device access ARs are left out: *)
(* pf_cmdev_check_ar_param() refuses every one of them.                    *)
(***************************************************************************)
EXTENDS Integers, FiniteSets

CONSTANTS
  MaxAr,      \* PNET_MAX_AR
  MaxSess,    \* PF_MAX_SESSION
  Uuids,      \* AR UUIDs a controller may use
  Acts,       \* DCE RPC activities, one per conversation of a controller
  Home,       \* [Uuids -> Acts]: the activity a controller uses for an AR
  Roaming,    \* TRUE: requests about an AR may come on any activity
  Legacy,     \* the UUIDs that connect in legacy startup mode
  Refusals,   \* why a Connect may fail, see Refuse
  Lookups,    \* activities on which a controller asks the endpoint mapper
  Resends,    \* PF_CMRPC_NUMBER_OF_RESENDS
  MaxPolls,   \* bound: CMIO timers armed for one AR
  NoUuid, NoAct

ARs      == 1 .. MaxAr
Sessions == 1 .. MaxSess

ASSUME SizeAssumption == MaxAr \in Nat \ {0} /\ MaxSess \in Nat \ {0} /\ Resends \in Nat \ {0}
ASSUME ControllerAssumption ==
  /\ Home \in [Uuids -> Acts] /\ Legacy \subseteq Uuids
  /\ Refusals \subseteq {"apdu", "user", "silent", "cpm"} /\ Lookups \subseteq Acts
  /\ Roaming \in BOOLEAN /\ MaxPolls \in Nat \ {0}
  /\ NoUuid \notin Uuids /\ NoAct \notin Acts

VARIABLES
  ar,         \* net->cmrpc_ar without the spare entry
  sess,       \* net->cmrpc_session_info
  endpoint,   \* net->alarm_endpoint
  alarmRx,    \* handlers for the alarm frame ids in net->eth_id_map
  cmsmTimer,  \* per AR slot: pf_cmsm_timeout() is armed
  polls,      \* per AR slot: pf_cmio_timer_expired() calls that are armed
  told        \* per AREP: the last event of state_cb(), see ArApi

timers == <<cmsmTimer, polls>>
alarms == <<endpoint, alarmRx>>
vars   == <<ar, sess, alarms, timers, told>>

\* A cleared pf_ar_t.  cpm and ppm are those of its two CRs.
NoAr == [in_use |-> FALSE, uuid |-> NoUuid, p_sess |-> 0,
         cmdev |-> "POWER_ON", ready_4_data |-> FALSE,
         alarm_enable |-> FALSE, ref |-> 0,
         cmsu |-> "IDLE", cmio |-> "IDLE", reschedule |-> FALSE,
         cpm |-> "W_START", cmio_start |-> FALSE, ppm |-> "W_START",
         cmwrr |-> "IDLE", cmsm |-> "IDLE", cmpbe |-> "IDLE"]

\* A cleared pf_session_info_t; tries is resend_counter, armed its timer, and
\* epm the timer of an endpoint lookup.
NoSess == [in_use |-> FALSE, from_me |-> FALSE, act |-> NoAct, p_ar |-> 0,
           tries |-> 0, armed |-> FALSE, epm |-> FALSE]

NoEndpoint == [p_ar |-> 0, active |-> FALSE]

Init ==
  /\ ar = [a \in ARs |-> NoAr]
  /\ sess = [s \in Sessions |-> NoSess]
  /\ endpoint = [i \in ARs |-> NoEndpoint]
  /\ alarmRx = 0
  /\ cmsmTimer = [a \in ARs |-> FALSE]
  /\ polls = [a \in ARs |-> 0]
  /\ told = [a \in ARs |-> "none"]

First(S)  == CHOOSE i \in S : \A j \in S : i <= j
Used      == {a \in ARs : ar[a].in_use}
FreeArs   == ARs \ Used
FreeSess  == {s \in Sessions : ~sess[s].in_use}
ArOf(u)   == {a \in Used : ar[a].uuid = u}
Clear(f, S, none) == [x \in DOMAIN f |-> IF x \in S THEN none ELSE f[x]]

-----------------------------------------------------------------------------
(* The fan-out of an event, pf_cmdev_state_ind(): the application, then    *)
(* CMSU, CMIO, CMWRR, CMSM, CMPBE and CMRPC.  The machines touch disjoint  *)
(* fields of the AR, so each is a function of its own field.               *)

CmsuPpm(r, ev) == IF r.cmsu = "STARTUP" /\ ev = "PRMEND" THEN "RUN" ELSE r.ppm

CmioState(r, ev) ==
  CASE r.cmio = "IDLE" /\ ev = "STARTUP"                -> "STARTUP"
    [] r.cmio = "STARTUP" /\ ev \in {"STARTUP", "PRMEND"} -> "WDATA"
    [] r.cmio = "WDATA" /\ ev = "DATA"                  -> "DATA"
    [] OTHER                                            -> r.cmio

\* StartTimer() and StopTimer() of CMIO.
CmioStarts(r, ev) == r.cmio = "STARTUP" /\ ev = "PRMEND"
CmioStops(r, ev)  == r.cmio = "WDATA" /\ ev = "DATA"

\* Mutant: StartTimer() forgets to ask for the next poll.
CmioRescheduleForgotten(r, ev) ==
  IF CmioStops(r, ev) \/ (r.cmio = "IDLE" /\ ev = "STARTUP") THEN FALSE ELSE r.reschedule

CmioReschedule(r, ev) ==
  CASE CmioStarts(r, ev) -> TRUE
    [] CmioStops(r, ev) \/ (r.cmio = "IDLE" /\ ev = "STARTUP") -> FALSE
    [] OTHER -> r.reschedule

\* Mutant: records are taken for diagnosis as soon as the parameters end.
CmwrrStateEarly(r, ev) ==
  CASE r.cmwrr = "IDLE" /\ ev = "STARTUP"   -> "STARTUP"
    [] r.cmwrr = "STARTUP" /\ ev = "PRMEND" -> "DATA"
    [] OTHER                                -> r.cmwrr

CmwrrState(r, ev) ==
  CASE r.cmwrr = "IDLE" /\ ev = "STARTUP"   -> "STARTUP"
    [] r.cmwrr = "STARTUP" /\ ev = "PRMEND" -> "PRMEND"
    [] r.cmwrr = "PRMEND" /\ ev = "APPLRDY" -> "DATA"
    [] OTHER                                -> r.cmwrr

CmsmStarts(r, ev) == r.cmsm = "IDLE" /\ ev = "STARTUP"

\* Mutant: supervision ends when the application is ready.
CmsmStopsEarly(r, ev) == r.cmsm = "RUN" /\ ev \in {"APPLRDY", "DATA"}

CmsmStops(r, ev)  == r.cmsm = "RUN" /\ ev = "DATA"

CmsmState(r, ev) ==
  CASE CmsmStarts(r, ev) -> "RUN" [] CmsmStops(r, ev) -> "IDLE" [] OTHER -> r.cmsm

CmpbeState(r, ev) == IF r.cmpbe = "IDLE" /\ ev = "DATA" THEN "WFIND" ELSE r.cmpbe

\* An AR after any event but ABORT.
Indicated(r, ev) ==
  [r EXCEPT !.ppm = CmsuPpm(r, ev), !.cmio = CmioState(r, ev),
            !.reschedule = CmioReschedule(r, ev),
            !.cmio_start = @ /\ ~(ev = "STARTUP" /\ r.cmio \in {"IDLE", "STARTUP"}),
            !.cmwrr = CmwrrState(r, ev), !.cmsm = CmsmState(r, ev),
            !.cmpbe = CmpbeState(r, ev)]

CmsmTimerAfter(a, r, ev) ==
  [cmsmTimer EXCEPT ![a] = CmsmStarts(r, ev) \/ (@ /\ ~CmsmStops(r, ev))]

PollsAfter(a, r, ev) ==
  [polls EXCEPT ![a] = CASE CmioStarts(r, ev) -> @ + 1
                         [] CmioStops(r, ev) /\ @ > 0 -> @ - 1
                         [] OTHER -> @]

\* The event ev for AR a, whose record is r when pf_cmdev_state_ind() is called
\* and whose session table is then ss.
Event(a, r, ev, rs, ss) ==
  /\ ar' = [rs EXCEPT ![a] = Indicated(r, ev)]
  /\ sess' = ss
  /\ cmsmTimer' = CmsmTimerAfter(a, r, ev)
  /\ polls' = PollsAfter(a, r, ev)
  /\ told' = [told EXCEPT ![a] = ev]

-----------------------------------------------------------------------------
(* Event ABORT: the machines are closed, the sessions of the AR and the AR  *)
(* itself are released.  CMIO only asks its timer not to reschedule.        *)

\* Mutant: only the CControl sessions.
GoneOutgoing(S) == {s \in Sessions : sess[s].from_me /\ sess[s].p_ar \in S}

\* pf_session_release() of p_ar->p_sess and of the CControl sessions
Gone(S) == {ar[a].p_sess : a \in S} \cup {s \in Sessions : sess[s].from_me /\ sess[s].p_ar \in S}

EndpointsOf(a) == {i \in ARs : endpoint[i].p_ar = a}
FirstEndpoint(a) == IF EndpointsOf(a) = {} THEN {} ELSE {First(EndpointsOf(a))}
Opened(S) == {a \in S : ar[a].cmsu = "STARTUP"}
Freed(S)  == UNION {FirstEndpoint(a) : a \in Opened(S)}

\* The closings, one AR after the other, after which no endpoint is active.
Lasts(S) ==
  {a \in Opened(S) : \A i \in ARs : endpoint[i].active => i \in Freed({b \in S : b <= a})}

CmsmTimerAfterAbort(S) == [a \in ARs |-> cmsmTimer[a] /\ ~(a \in S /\ ar[a].cmsm = "RUN")]

\* The ARs of S abort; rs and ss are the tables when the event is sent.
Aborts(S, rs, ss) ==
  /\ ar' = Clear(rs, S, NoAr)
  /\ sess' = Clear(ss, Gone(S), NoSess)
  /\ endpoint' = Clear(endpoint, Freed(S), NoEndpoint)
  /\ alarmRx' = IF alarmRx > Cardinality(Lasts(S)) THEN alarmRx - Cardinality(Lasts(S)) ELSE 0
  /\ cmsmTimer' = CmsmTimerAfterAbort(S)
  /\ told' = Clear(told, S, "none")
  /\ UNCHANGED polls

-----------------------------------------------------------------------------
(* Requests of a controller, pf_cmrpc_dce_packet().                        *)

\* The session of an activity, or the first free one; without one the frame
\* is dropped.
Serves(s, act) ==
  LET known == {t \in Sessions : sess[t].in_use /\ sess[t].act = act} IN
  s \in known \/ (known = {} /\ FreeSess # {} /\ s = First(FreeSess))

Session(s, act) ==
  IF sess[s].in_use THEN sess[s] ELSE [NoSess EXCEPT !.in_use = TRUE, !.act = act]

With(s, act) == [sess EXCEPT ![s] = Session(s, act)]
Kill(s)      == Clear(sess, {s}, NoSess)

MayUse(u, act) == Roaming \/ act = Home[u]

\* A second Connect for a UUID in use aborts that AR.
ConnectDuplicate(u, act, s) ==
  /\ MayUse(u, act) /\ Serves(s, act)
  /\ ArOf(u) # {}
  /\ Aborts({First(ArOf(u))}, ar, Kill(s))

\* pf_alarm_allocate_endpoint(): the reference is 0 when all are taken
FreeEndpoints == EndpointsOf(0)
Allocate(a) ==
  IF FreeEndpoints = {} THEN endpoint
  ELSE [endpoint EXCEPT ![First(FreeEndpoints)] = [p_ar |-> a, active |-> FALSE]]

\* A Connect that is refused: by the checks of pf_cmdev_check_apdu() or for
\* want of an AR; by the application, with or without an error code; by
\* pf_cpm_activate_req(), which aborts an AR whose CMSU is still IDLE.
ConnectRefused(u, act, s, why) ==
  /\ MayUse(u, act) /\ Serves(s, act)
  /\ ArOf(u) = {}
  /\ why = "apdu" \/ (FreeArs # {} /\ why \in {"user", "cpm"})
  /\ why \in Refusals \/ FreeArs = {}
  /\ sess' = Kill(s)
  /\ endpoint' = IF why = "apdu" THEN endpoint ELSE Allocate(First(FreeArs))
  /\ UNCHANGED <<ar, alarmRx, timers, told>>

\* Refused by the application without an error code: rsp_neg returns 0 and
\* the AR stays.
ConnectRefusedSilently(u, act, s) ==
  /\ MayUse(u, act) /\ Serves(s, act)
  /\ ArOf(u) = {} /\ FreeArs # {} /\ "silent" \in Refusals
  /\ LET a == First(FreeArs) IN
     /\ ar' = [ar EXCEPT ![a] = [NoAr EXCEPT !.in_use = TRUE, !.uuid = u, !.p_sess = s,
                                             !.cmdev = "W_CIND"]]
     /\ sess' = [sess EXCEPT ![s] = [Session(s, act) EXCEPT !.p_ar = a]]
     /\ endpoint' = Allocate(a)
  /\ UNCHANGED <<alarmRx, timers, told>>

\* pf_alarm_apmx_activate(): the handler is added when no endpoint is active,
\* and the first endpoint of the AR becomes active
Activated(a) ==
  LET own == {i \in ARs : Allocate(a)[i].p_ar = a} IN
  IF own = {} THEN Allocate(a) ELSE [Allocate(a) EXCEPT ![First(own)].active = TRUE]

\* Mutant: the handler is added for every AR.
RxAfterEvery == alarmRx + 1

RxAfterActivate == IF \E i \in ARs : endpoint[i].active THEN alarmRx ELSE alarmRx + 1

NewAr(u, s, ref) ==
  [NoAr EXCEPT !.in_use = TRUE, !.uuid = u, !.p_sess = s, !.cmdev = "W_PEIND",
               !.ref = ref, !.cmsu = "STARTUP", !.cpm = "FRUN"]

ConnectAccepted(u, act, s) ==
  /\ MayUse(u, act) /\ Serves(s, act)
  /\ ArOf(u) = {} /\ FreeArs # {}
  /\ LET a   == First(FreeArs)
         ref == IF FreeEndpoints = {} THEN 0 ELSE First(FreeEndpoints)
     IN
     /\ Event(a, NewAr(u, s, ref), "STARTUP", ar,
              [sess EXCEPT ![s] = [Session(s, act) EXCEPT !.p_ar = a]])
     /\ endpoint' = Activated(a)
  /\ alarmRx' = RxAfterActivate

\* The states in which pf_cmdev_rm_release_ind() releases.
Releasable == {"W_PEIND", "W_ARDY", "W_ARDYCNF", "WDATA", "DATA"}

\* The session ends in any case.
Release(u, act, s) ==
  /\ MayUse(u, act) /\ Serves(s, act)
  /\ Aborts({a \in ArOf(u) : ar[a].cmdev \in Releasable}, ar, Kill(s))

-----------------------------------------------------------------------------
(* DControl: pf_cmrpc_rm_dcontrol_ind(), with a fresh sequence number.     *)

DControlUnknown(u, act, s) ==
  /\ MayUse(u, act) /\ Serves(s, act)
  /\ ArOf(u) = {}
  /\ sess' = Kill(s)
  /\ UNCHANGED <<ar, alarms, timers, told>>

\* The end of the parameters.  The event PRMEND follows the response, and
\* goes to the AR of the session; a PPM that cannot start aborts that AR.
PrmEnd(a, act, s, ppmOk) ==
  LET rs == [ar EXCEPT ![a].cmdev = "W_ARDY"]
      b  == Session(s, act).p_ar
  IN
  /\ ar[a].cmdev = "W_PEIND"
  /\ CASE b = 0 -> /\ ar' = rs /\ sess' = With(s, act)
                   /\ UNCHANGED <<alarms, timers, told>>
       [] b # 0 /\ ppmOk ->
            /\ polls[b] < MaxPolls
            /\ Event(b, rs[b], "PRMEND", rs, With(s, act))
            /\ UNCHANGED alarms
       [] b # 0 /\ ~ppmOk -> rs[b].cmsu = "STARTUP" /\ Aborts({b}, rs, With(s, act))

\* PrmBegin in DATA; CMPBE then waits in WFRSP for a response it never sends.
PrmBegin(a, act, s) ==
  /\ ar[a].cmdev = "DATA" /\ ar[a].cmpbe = "WFIND"
  /\ ar' = [ar EXCEPT ![a].cmpbe = "WFRSP", ![a].alarm_enable = FALSE]
  /\ sess' = With(s, act)
  /\ UNCHANGED <<alarms, timers, told>>

\* A command out of place, one that the application refuses, or a network
\* port too slow (pf_cmdev_check_pdev): in these states the AR aborts.
DControlFails(a, act, s) ==
  /\ ar[a].cmdev \in {"W_PEIND", "DATA"}
  /\ Aborts({a}, ar, With(s, act))

DControlIgnored(a, act, s) ==
  /\ ar[a].cmdev \notin {"W_PEIND", "DATA"}
  /\ sess' = With(s, act)
  /\ UNCHANGED <<ar, alarms, timers, told>>

DControl(u, act, s) ==
  /\ MayUse(u, act) /\ Serves(s, act)
  /\ \E a \in ArOf(u) :
       \/ \E ppmOk \in BOOLEAN : PrmEnd(a, act, s, ppmOk)
       \/ PrmBegin(a, act, s)
       \/ DControlFails(a, act, s)
       \/ DControlIgnored(a, act, s)

-----------------------------------------------------------------------------
(* The application is ready; the CControl request and its confirmation.    *)

\* Mutant: the state of CMDEV is not looked at while parameters are written.
AppReadyEarly(a, sent) ==
  /\ ar[a].cmdev \in {"W_PEIND", "W_ARDY"} /\ FreeSess = {}
  /\ Event(a, ar[a], "APPLRDY", ar, sess)
  /\ UNCHANGED alarms

\* pf_cmdev_cm_ccontrol_req(): the event is sent before the request, whether
\* or not there is a session for it; sent: the request went out and its
\* resend timer is armed
AppReady(a, sent) ==
  /\ ar[a].cmdev = "W_ARDY"
  /\ LET r == [ar[a] EXCEPT !.cmdev = IF FreeSess = {} THEN "W_ARDY" ELSE "W_ARDYCNF"]
         ss == IF FreeSess = {} THEN sess
               ELSE [sess EXCEPT ![First(FreeSess)] =
                       [NoSess EXCEPT !.in_use = TRUE, !.from_me = TRUE, !.p_ar = a,
                                      !.tries = Resends - 1, !.armed = sent]]
     IN Event(a, r, "APPLRDY", ar, ss)
  /\ UNCHANGED alarms

\* pf_cmrpc_send_with_timeout(), the timer of a CControl session
Resend(s, sent) ==
  /\ sess[s].in_use /\ sess[s].from_me /\ sess[s].armed
  /\ IF sess[s].tries > 0
     THEN /\ sess' = [sess EXCEPT ![s].tries = @ - 1, ![s].armed = sent]
          /\ UNCHANGED <<ar, alarms, timers, told>>
     ELSE Aborts({sess[s].p_ar}, ar, sess)

\* A positive response: pf_cmdev_rm_ccontrol_cnf().  The data state is decided
\* by what CMIO reported last.
CControlCnf(s) ==
  /\ sess[s].in_use /\ sess[s].from_me
  /\ LET a == sess[s].p_ar
         r == [ar[a] EXCEPT !.alarm_enable = TRUE,
                            !.cmdev = IF ar[a].ready_4_data THEN "DATA" ELSE "WDATA"]
     IN /\ ar[a].cmdev = "W_ARDYCNF"
        /\ IF ar[a].ready_4_data
           THEN Event(a, r, "DATA", ar, Kill(s))
           ELSE /\ ar' = [ar EXCEPT ![a] = r]
                /\ sess' = Kill(s)
                /\ UNCHANGED <<timers, told>>
  /\ UNCHANGED alarms

\* A response that does not parse, or not the one expected: it stops the
\* resend timer and nothing else.
CControlBad(s) ==
  /\ sess[s].in_use /\ sess[s].from_me
  /\ sess' = [sess EXCEPT ![s].armed = FALSE]
  /\ UNCHANGED <<ar, alarms, timers, told>>

\* CL_CANCEL, FAULT or REJECT on a session
PeerFault(s) ==
  /\ sess[s].in_use
  /\ Aborts({sess[s].p_ar} \ {0}, ar, Kill(s))

\* An endpoint mapper request, which leaves its session to a timer.
Lookup(act, s) ==
  /\ act \in Lookups /\ Serves(s, act)
  /\ sess' = [sess EXCEPT ![s] = [Session(s, act) EXCEPT !.epm = TRUE]]
  /\ UNCHANGED <<ar, alarms, timers, told>>

LookupTimeout(s) ==
  /\ sess[s].in_use /\ sess[s].epm
  /\ sess' = Kill(s)
  /\ UNCHANGED <<ar, alarms, timers, told>>

-----------------------------------------------------------------------------
(* Timers and cyclic data.                                                 *)

PollStops(r) == r.cmio # "WDATA" \/ ~r.reschedule

PollsAfterPoll(a, drop) == [polls EXCEPT ![a] = @ - drop]

\* pf_cmio_timer_expired().  It adds itself again whenever it polled, even
\* after the DATA event has stopped the timer that the handle names: when
\* more than one is armed, drop = 1 tells that it named another.
CmioPoll(a, drop) ==
  /\ polls[a] > 0 /\ drop <= polls[a] - 1
  /\ LET r     == ar[a]
         ready == [r EXCEPT !.ready_4_data = r.cmio_start]
     IN
     CASE PollStops(r) ->
            /\ drop = 0
            /\ ar' = [ar EXCEPT ![a].reschedule = FALSE]
            /\ polls' = [polls EXCEPT ![a] = @ - 1]
            /\ UNCHANGED <<cmsmTimer, told>>
       [] ~PollStops(r) /\ r.cmdev = "WDATA" /\ r.cmio_start ->
            /\ ar' = [ar EXCEPT ![a] = [Indicated(ready, "DATA") EXCEPT !.cmdev = "DATA"]]
            /\ polls' = PollsAfterPoll(a, drop)
            /\ cmsmTimer' = CmsmTimerAfter(a, r, "DATA")
            /\ told' = [told EXCEPT ![a] = "DATA"]
       [] OTHER ->
            /\ drop = 0
            /\ ar' = [ar EXCEPT ![a] = IF r.cmdev \in {"W_ARDY", "W_ARDYCNF", "WDATA"}
                                       THEN ready ELSE r]
            /\ polls' = PollsAfterPoll(a, drop)
            /\ UNCHANGED <<cmsmTimer, told>>
  /\ UNCHANGED <<sess, alarms>>

\* pf_cmsm_timeout(): the start-up took too long
CmsmTimeout(a) ==
  /\ cmsmTimer[a]
  /\ IF ar[a].cmsm = "RUN"
     THEN Aborts({a}, ar, sess)
     ELSE /\ cmsmTimer' = [cmsmTimer EXCEPT ![a] = FALSE]
          /\ UNCHANGED <<ar, sess, alarms, polls, told>>

\* A valid cyclic frame, pf_cpm_c_data_ind()
CpmData(a) ==
  /\ ar[a].cpm \in {"FRUN", "RUN"}
  /\ ar' = [ar EXCEPT ![a].cpm = "RUN", ![a].cmio_start = @ \/ ar[a].cmio = "WDATA"]
  /\ UNCHANGED <<sess, alarms, timers, told>>

\* No frame for the data hold time: the CPM stops and so does its watchdog.
CpmStop(a) ==
  /\ ar[a].cpm = "RUN"
  /\ IF ar[a].cmio = "DATA" \/ (ar[a].cmio = "STARTUP" /\ ar[a].uuid \in Legacy)
     THEN Aborts({a}, ar, sess)
     ELSE /\ ar' = [ar EXCEPT ![a].cpm = "W_START",
                              ![a].cmio_start = @ /\ ar[a].cmio # "WDATA"]
          /\ UNCHANGED <<sess, alarms, timers, told>>

\* pnet_ar_abort(), and the errors of the alarm, CPM and PPM machines
StackAbort(a) == ar[a].in_use /\ Aborts({a}, ar, sess)

\* pnet_factory_reset(), pf_cmina_abort_active_ars()
AbortAll == Used # {} /\ Aborts(Used, ar, sess)

-----------------------------------------------------------------------------
Request ==
  \E u \in Uuids, act \in Acts, s \in Sessions :
    \/ ConnectDuplicate(u, act, s)
    \/ \E why \in {"apdu", "user", "cpm"} : ConnectRefused(u, act, s, why)
    \/ ConnectRefusedSilently(u, act, s)
    \/ ConnectAccepted(u, act, s)
    \/ Release(u, act, s)
    \/ DControlUnknown(u, act, s)
    \/ DControl(u, act, s)

SessionStep(s) ==
  \/ \E sent \in BOOLEAN : Resend(s, sent)
  \/ CControlCnf(s)
  \/ CControlBad(s)
  \/ PeerFault(s)
  \/ \E act \in Acts : Lookup(act, s)
  \/ LookupTimeout(s)

ArStep(a) ==
  \/ \E sent \in BOOLEAN : AppReady(a, sent)
  \/ \E drop \in {0, 1} : CmioPoll(a, drop)
  \/ CmsmTimeout(a)
  \/ CpmData(a)
  \/ CpmStop(a)
  \/ StackAbort(a)

Next == Request \/ (\E s \in Sessions : SessionStep(s)) \/ (\E a \in ARs : ArStep(a)) \/ AbortAll

Spec == Init /\ [][Next]_vars

(***************************************************************************)
(* Fairness: pnet_handle_periodic() is called again and again and serves   *)
(* every expired timer.  Nothing is assumed of the controller or of the    *)
(* application.  The timer of CMSM is restarted by each record the         *)
(* controller reads or writes; that it expires assumes these come to an end.*)
(***************************************************************************)
Fairness ==
  /\ \A a \in ARs : WF_vars(\E drop \in {0, 1} : CmioPoll(a, drop)) /\ WF_vars(CmsmTimeout(a))
  /\ \A s \in Sessions : WF_vars(\E sent \in BOOLEAN : Resend(s, sent))

FairSpec == Spec /\ Fairness

-----------------------------------------------------------------------------
(* Properties.                                                             *)

ArType ==
  [in_use : BOOLEAN, uuid : Uuids \cup {NoUuid}, p_sess : Sessions \cup {0},
   cmdev : {"POWER_ON", "W_CIND"} \cup Releasable, ready_4_data : BOOLEAN,
   alarm_enable : BOOLEAN, ref : ARs \cup {0}, cmsu : {"IDLE", "STARTUP"},
   cmio : {"IDLE", "STARTUP", "WDATA", "DATA"}, reschedule : BOOLEAN,
   cpm : {"W_START", "FRUN", "RUN"}, cmio_start : BOOLEAN, ppm : {"W_START", "RUN"},
   cmwrr : {"IDLE", "STARTUP", "PRMEND", "DATA"}, cmsm : {"IDLE", "RUN"},
   cmpbe : {"IDLE", "WFIND", "WFRSP"}]

SessType ==
  [in_use : BOOLEAN, from_me : BOOLEAN, act : Acts \cup {NoAct}, p_ar : ARs \cup {0},
   tries : 0 .. Resends, armed : BOOLEAN, epm : BOOLEAN]

\* Every variable keeps its type, and with it every machine of the AR stays
\* in a state the code names.
TypeOK ==
  /\ ar \in [ARs -> ArType]
  /\ sess \in [Sessions -> SessType]
  /\ endpoint \in [ARs -> [p_ar : ARs \cup {0}, active : BOOLEAN]]
  /\ alarmRx \in Nat
  /\ cmsmTimer \in [ARs -> BOOLEAN]
  /\ polls \in [ARs -> Nat]
  /\ told \in [ARs -> {"none", "STARTUP", "PRMEND", "APPLRDY", "DATA"}]

\* An AR in use and its session name each other, and a session names only ARs
\* in use: no release leaves a pointer to a session or an AR that is gone.
SessionCrossRef ==
  /\ \A a \in Used : LET s == ar[a].p_sess IN
       s # 0 /\ sess[s].in_use /\ ~sess[s].from_me /\ sess[s].p_ar = a
  /\ \A s \in Sessions : sess[s].in_use /\ sess[s].p_ar # 0 => ar[sess[s].p_ar].in_use

\* An AR waits for the confirmation of its CControl request exactly while
\* it has the session of that request, and it has only one: no ABORT, late
\* response or exhausted resend leaks one of the few sessions.
OneCControl ==
  /\ \A s \in Sessions : sess[s].in_use /\ sess[s].from_me => ar[sess[s].p_ar].cmdev = "W_ARDYCNF"
  /\ \A a \in ARs : ar[a].cmdev = "W_ARDYCNF" =>
       \E s \in Sessions :
         {t \in Sessions : sess[t].in_use /\ sess[t].from_me /\ sess[t].p_ar = a} = {s}

\* An AR that has not reached DATA has its start-up timer armed: a controller
\* that goes silent cannot hold an AR for ever, however the slot was used before.
SetupSupervised ==
  \A a \in Used : ar[a].cmdev # "DATA" => ar[a].cmsm = "RUN" /\ cmsmTimer[a]

\* While CMIO waits for data its poll is armed, so data that has arrived is
\* noticed, although polls of an earlier AR in the slot are served as well.
PollAlive == \A a \in ARs : ar[a].cmio = "WDATA" => ar[a].reschedule /\ polls[a] > 0

\* What CMDEV state implies for the machines it drives by events only.
InStep(r, t) ==
  CASE r.cmdev = "W_PEIND" ->
         t = "STARTUP" /\ r.cmio = "STARTUP" /\ r.cmwrr = "STARTUP" /\ r.ppm = "W_START"
         /\ r.cmpbe = "IDLE" /\ ~r.alarm_enable
    [] r.cmdev = "W_ARDY" ->
         t \in {"PRMEND", "APPLRDY"} /\ r.cmio = "WDATA" /\ r.ppm = "RUN" /\ r.cmpbe = "IDLE"
         /\ r.cmwrr = (IF t = "PRMEND" THEN "PRMEND" ELSE "DATA") /\ ~r.alarm_enable
    [] r.cmdev \in {"W_ARDYCNF", "WDATA"} ->
         t = "APPLRDY" /\ r.cmio = "WDATA" /\ r.ppm = "RUN" /\ r.cmwrr = "DATA" /\ r.cmpbe = "IDLE"
         /\ (r.alarm_enable <=> r.cmdev = "WDATA")
    [] r.cmdev = "DATA" ->
         t = "DATA" /\ r.cmio = "DATA" /\ r.ppm = "RUN" /\ r.cmwrr = "DATA" /\ r.cmpbe # "IDLE"
         /\ (r.alarm_enable <=> r.cmpbe = "WFIND") /\ r.cmsm = "IDLE"
    [] OTHER -> FALSE

\* CMDEV, the machines that only follow its events, and the application
\* agree on how far every AR has come.
Agreement == \A a \in Used : ar[a].cmsu = "STARTUP" /\ InStep(ar[a], told[a])

\* A slot that is free is wholly cleared, but for its CMIO timers.
FreeIsClear ==
  \A a \in FreeArs : ar[a] = NoAr /\ told[a] = "none" /\ ~cmsmTimer[a]

\* ARs and sessions go together, from the Connect to the last release, and what is
\* free has nothing of its former user (pf_cmrpc.c, session and AR allocation).
SessionsSound == SessionCrossRef /\ OneCControl /\ FreeIsClear

\* No AR waits with nothing that will wake it: neither for its controller nor for its
\* data (pf_cmsm.c, pf_cmio.c).
NeverStuck == SetupSupervised /\ PollAlive

\* The alarm reference that an AR gave its controller leads to it, through an
\* active endpoint, and the frame handler for alarms is there exactly once.
AlarmsReachAr ==
  /\ \A a \in Used : ar[a].ref # 0 /\ endpoint[ar[a].ref] = [p_ar |-> a, active |-> TRUE]
  /\ alarmRx = IF Used = {} THEN 0 ELSE 1

\* Seen by the application, every AR goes through the events in order.
Api == INSTANCE ArApi WITH Areps <- ARs
ApiOrder == Api!Spec

\* The start-up ends: with data, or with the AR released.
SetupEnds == \A a \in ARs : told[a] \in {"STARTUP", "PRMEND", "APPLRDY"} ~> told[a] \in {"DATA", "none"}

\* The poll of CMIO ends when data is there, the AR's own and any left over.
PollsEnd == \A a \in ARs : told[a] = "DATA" ~> polls[a] = 0 \/ told[a] # "DATA"

\* Whatever is started comes to its end (pf_cmsm.c, pf_cmio.c).
AllEnds == SetupEnds /\ PollsEnd

(* What the documentation says, for the runs that refute it.               *)

\* pnet_api.h: "The cyclic data transmission is now properly set up"
DataIsSetUp == \A a \in ARs : told[a] = "DATA" => ar[a].cpm = "RUN"

\* pf_cmrpc.c: "Connect failed: Cleanup": nothing stays allocated to a free AR.
RefusalCleansUp == \A i \in ARs : endpoint[i].p_ar # 0 => ar[endpoint[i].p_ar].in_use
=============================================================================
