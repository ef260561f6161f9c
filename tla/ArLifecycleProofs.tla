------------------------- MODULE ArLifecycleProofs -------------------------
(***************************************************************************)
(* Proofs about ArLifecycle: for any number of ARs, sessions, controllers  *)
(* and retries, the AR table, the session table, the timers and the state  *)
(* machines agree, and the application sees the events of an AR in order,  *)
(* provided the controllers and the application are Orderly.               *)
(***************************************************************************)
EXTENDS ArLifecycle, WellFoundedInduction, FiniteSetTheorems, TLAPS

\* The controllers and the application behave: a conversation about an AR
\* stays on one activity, no two ARs share one, an endpoint lookup has another,
\* and a Connect is never refused without an error code.
Orderly ==
  /\ ~Roaming /\ "silent" \notin Refusals
  /\ \A u, v \in Uuids : Home[u] = Home[v] => u = v
  /\ \A u \in Uuids : Home[u] \notin Lookups

\* One slot of the AR table with the rest of its state: the record, the last
\* event told, its start-up timer and its polls.
SlotOK(r, t, timer, n) ==
  IF r.in_use
  THEN /\ r.cmsu = "STARTUP" /\ InStep(r, t)
       /\ r.cmdev # "DATA" => timer
       /\ timer <=> r.cmsm = "RUN"
       /\ r.cmio = "WDATA" => r.reschedule /\ n > 0
  ELSE r = NoAr /\ t = "none" /\ ~timer

SlotsOK == \A a \in ARs : SlotOK(ar[a], told[a], cmsmTimer[a], polls[a])

\* A CControl session belongs to an AR that waits for its confirmation.
Outgoing ==
  \A s \in Sessions : sess[s].in_use /\ sess[s].from_me =>
    /\ sess[s].p_ar \in ARs /\ sess[s].act = NoAct /\ ~sess[s].epm
    /\ ar[sess[s].p_ar].in_use /\ ar[sess[s].p_ar].cmdev = "W_ARDYCNF"

\* A session a controller opened is on an activity; if it has an AR, that AR
\* names it, lives on that activity, and no lookup was made on it.
Incoming ==
  \A s \in Sessions : sess[s].in_use /\ ~sess[s].from_me =>
    /\ sess[s].act \in Acts
    /\ sess[s].p_ar # 0 =>
         /\ ar[sess[s].p_ar].in_use /\ ar[sess[s].p_ar].p_sess = s
         /\ ar[sess[s].p_ar].uuid \in Uuids /\ sess[s].act = Home[ar[sess[s].p_ar].uuid]
    /\ sess[s].epm => sess[s].act \in Lookups

\* Every AR has its session, and the waiting ones exactly one more.
Owned ==
  \A a \in ARs : ar[a].in_use =>
    /\ ar[a].p_sess \in Sessions /\ sess[ar[a].p_sess].in_use
    /\ ~sess[ar[a].p_sess].from_me /\ sess[ar[a].p_sess].p_ar = a

Confirming ==
  \A a \in ARs : ar[a].cmdev = "W_ARDYCNF" =>
    \E s \in Sessions : sess[s].in_use /\ sess[s].from_me /\ sess[s].p_ar = a

\* No two sessions serve one activity or one CControl, and no two ARs one UUID.
Unique ==
  /\ \A s, t \in Sessions : sess[s].in_use /\ sess[t].in_use /\ sess[s].act \in Acts
                            /\ sess[s].act = sess[t].act => s = t
  /\ \A s, t \in Sessions : sess[s].in_use /\ sess[t].in_use /\ sess[s].from_me /\ sess[t].from_me
                            /\ sess[s].p_ar = sess[t].p_ar => s = t
  /\ \A a, b \in ARs : ar[a].in_use /\ ar[b].in_use /\ ar[a].uuid = ar[b].uuid => a = b

IInv == TypeOK /\ SlotsOK /\ Outgoing /\ Incoming /\ Owned /\ Confirming /\ Unique

Links == Outgoing /\ Incoming /\ Owned /\ Confirming /\ Unique

-----------------------------------------------------------------------------
(* Data: the first of a set, a cleared table, the machines of one AR.      *)

\* A set of indices has a least one.
LEMMA LeastIn == ASSUME NEW S \in SUBSET Nat, S # {} PROVE \E x \in S : \A y \in S : x <= y
<1> DEFINE Less == {p \in Nat \X Nat : p[1] < p[2]}
<1>1. OpToRel(<, Nat) = Less  BY Zenon DEF OpToRel
<1>2. IsWellFoundedOn(Less, Nat)  BY <1>1, NatLessThanWellFounded, Zenon
<1>3. \A x, y \in Nat : <<y, x>> \notin Less => x <= y
  <2> SUFFICES ASSUME NEW x \in Nat, NEW y \in Nat, ~ (x <= y) PROVE <<y, x>> \in Less
    OBVIOUS
  <2>1. y < x  OBVIOUS
  <2>2. <<y, x>> \in Nat \X Nat /\ <<y, x>>[1] = y /\ <<y, x>>[2] = x  OBVIOUS
  <2> QED  BY <2>1, <2>2, Zenon
<1> HIDE DEF Less
<1>4. \E x \in S : \A y \in S : ~ (<<y, x>> \in Less)  BY <1>2, WFMin
<1> QED  BY <1>3, <1>4

\* The first of a set of indices is one of them.
LEMMA FirstIn == ASSUME NEW S \in SUBSET Nat, S # {} PROVE First(S) \in S
BY LeastIn DEF First

\* 0 names no AR and no session: it is the null pointer.
LEMMA IndexSets == 0 \notin ARs /\ ARs \subseteq Nat /\ 0 \notin Sessions /\ Sessions \subseteq Nat
BY SizeAssumption DEF ARs, Sessions

Events == {"STARTUP", "PRMEND", "APPLRDY", "DATA"}

\* The cleared records have the types of their tables.
LEMMA NoArType == NoAr \in ArType /\ ~NoAr.in_use /\ NoAr.cmdev = "POWER_ON"
BY DEF NoAr, ArType, Releasable

\* The same for a cleared session.
LEMMA NoSessType == NoSess \in SessType /\ ~NoSess.in_use
<1>1. 0 \in 0 .. Resends  BY SizeAssumption
<1> QED  BY <1>1 DEF NoSess, SessType

\* One field of an AR changes within its range.
LEMMA FieldTypes ==
  ASSUME NEW r \in ArType
  PROVE  /\ \A v \in {"W_START", "RUN"} : [r EXCEPT !.ppm = v] \in ArType
         /\ \A v \in {"IDLE", "STARTUP", "WDATA", "DATA"} : [r EXCEPT !.cmio = v] \in ArType
         /\ \A v \in BOOLEAN : [r EXCEPT !.reschedule = v] \in ArType
         /\ \A v \in BOOLEAN : [r EXCEPT !.cmio_start = v] \in ArType
         /\ \A v \in {"IDLE", "STARTUP", "PRMEND", "DATA"} : [r EXCEPT !.cmwrr = v] \in ArType
         /\ \A v \in {"IDLE", "RUN"} : [r EXCEPT !.cmsm = v] \in ArType
         /\ \A v \in {"IDLE", "WFIND", "WFRSP"} : [r EXCEPT !.cmpbe = v] \in ArType
         /\ \A v \in {"POWER_ON", "W_CIND"} \cup Releasable : [r EXCEPT !.cmdev = v] \in ArType
         /\ \A v \in BOOLEAN : [r EXCEPT !.ready_4_data = v] \in ArType
         /\ \A v \in BOOLEAN : [r EXCEPT !.alarm_enable = v] \in ArType
         /\ \A v \in {"W_START", "FRUN", "RUN"} : [r EXCEPT !.cpm = v] \in ArType
         /\ \A v \in BOOLEAN : [r EXCEPT !.in_use = v] \in ArType
         /\ \A v \in Uuids : [r EXCEPT !.uuid = v] \in ArType
         /\ \A v \in Sessions : [r EXCEPT !.p_sess = v] \in ArType
         /\ \A v \in ARs \cup {0} : [r EXCEPT !.ref = v] \in ArType
         /\ \A v \in {"IDLE", "STARTUP"} : [r EXCEPT !.cmsu = v] \in ArType
<1>1. \A v \in {"W_START", "RUN"} : [r EXCEPT !.ppm = v] \in ArType
  BY DEF ArType
<1>2. \A v \in {"IDLE", "STARTUP", "WDATA", "DATA"} : [r EXCEPT !.cmio = v] \in ArType
  BY DEF ArType
<1>3. \A v \in BOOLEAN : [r EXCEPT !.reschedule = v] \in ArType
  BY DEF ArType
<1>4. \A v \in BOOLEAN : [r EXCEPT !.cmio_start = v] \in ArType
  BY DEF ArType
<1>5. \A v \in {"IDLE", "STARTUP", "PRMEND", "DATA"} : [r EXCEPT !.cmwrr = v] \in ArType
  BY DEF ArType
<1>6. \A v \in {"IDLE", "RUN"} : [r EXCEPT !.cmsm = v] \in ArType
  BY DEF ArType
<1>7. \A v \in {"IDLE", "WFIND", "WFRSP"} : [r EXCEPT !.cmpbe = v] \in ArType
  BY DEF ArType
<1>8. \A v \in {"POWER_ON", "W_CIND"} \cup Releasable : [r EXCEPT !.cmdev = v] \in ArType
  BY DEF ArType, Releasable
<1>9. \A v \in BOOLEAN : [r EXCEPT !.ready_4_data = v] \in ArType
  BY DEF ArType
<1>10. \A v \in BOOLEAN : [r EXCEPT !.alarm_enable = v] \in ArType
  BY DEF ArType
<1>11. \A v \in {"W_START", "FRUN", "RUN"} : [r EXCEPT !.cpm = v] \in ArType
  BY DEF ArType
<1>12. \A v \in BOOLEAN : [r EXCEPT !.in_use = v] \in ArType
  BY DEF ArType
<1>13. \A v \in Uuids : [r EXCEPT !.uuid = v] \in ArType
  BY DEF ArType
<1>14. \A v \in Sessions : [r EXCEPT !.p_sess = v] \in ArType
  BY DEF ArType
<1>15. \A v \in ARs \cup {0} : [r EXCEPT !.ref = v] \in ArType
  BY DEF ArType
<1>16. \A v \in {"IDLE", "STARTUP"} : [r EXCEPT !.cmsu = v] \in ArType
  BY DEF ArType
<1> QED  BY <1>1, <1>2, <1>3, <1>4, <1>5, <1>6, <1>7, <1>8, <1>9,
             <1>10, <1>11, <1>12, <1>13, <1>14, <1>15, <1>16

\* An event leaves every field alone but those of the machines.
LEMMA IndicatedType ==
  ASSUME NEW r \in ArType, NEW ev \in Events
  PROVE  /\ Indicated(r, ev) \in ArType
         /\ Indicated(r, ev).in_use = r.in_use /\ Indicated(r, ev).uuid = r.uuid
         /\ Indicated(r, ev).p_sess = r.p_sess /\ Indicated(r, ev).cmdev = r.cmdev
<1> DEFINE
      data == r.cmio_start /\ ~ (ev = "STARTUP" /\ r.cmio \in {"IDLE", "STARTUP"})
      q1 == [r EXCEPT !.ppm = CmsuPpm(r, ev)]
      q2 == [q1 EXCEPT !.cmio = CmioState(r, ev)]
      q3 == [q2 EXCEPT !.reschedule = CmioReschedule(r, ev)]
      q4 == [q3 EXCEPT !.cmio_start = data]
      q5 == [q4 EXCEPT !.cmwrr = CmwrrState(r, ev)]
      q6 == [q5 EXCEPT !.cmsm = CmsmState(r, ev)]
      q7 == [q6 EXCEPT !.cmpbe = CmpbeState(r, ev)]
<1>1. CmsuPpm(r, ev) \in {"W_START", "RUN"}  BY DEF CmsuPpm, ArType
<1>2. CmioState(r, ev) \in {"IDLE", "STARTUP", "WDATA", "DATA"}  BY DEF CmioState, ArType
<1>3. CmioReschedule(r, ev) \in BOOLEAN
  BY DEF CmioReschedule, CmioStarts, CmioStops, ArType
<1>4. CmwrrState(r, ev) \in {"IDLE", "STARTUP", "PRMEND", "DATA"}  BY DEF CmwrrState, ArType
<1>5. CmsmState(r, ev) \in {"IDLE", "RUN"}  BY DEF CmsmState, CmsmStarts, CmsmStops, ArType
<1>6. CmpbeState(r, ev) \in {"IDLE", "WFIND", "WFRSP"}  BY DEF CmpbeState, ArType
<1>7. data \in BOOLEAN  OBVIOUS
<1>8. Indicated(r, ev) = q7  BY DEF Indicated
<1> HIDE DEF q1, q2, q3, q4, q5, q6, q7, data
<1>9. q1 \in ArType  BY <1>1, FieldTypes DEF q1
<1>10. q2 \in ArType  BY <1>2, <1>9, FieldTypes DEF q2
<1>11. q3 \in ArType  BY <1>3, <1>10, FieldTypes DEF q3
<1>12. q4 \in ArType  BY <1>7, <1>11, FieldTypes DEF q4
<1>13. q5 \in ArType  BY <1>4, <1>12, FieldTypes DEF q5
<1>14. q6 \in ArType  BY <1>5, <1>13, FieldTypes DEF q6
<1>15. q7 \in ArType  BY <1>6, <1>14, FieldTypes DEF q7
<1> QED  BY <1>8, <1>15 DEF Indicated, ArType

\* The step of the machines of one AR at each event.
TimerAfter(r, timer, ev) == CmsmStarts(r, ev) \/ (timer /\ ~CmsmStops(r, ev))
PollCount(r, n, ev) ==
  CASE CmioStarts(r, ev) -> n + 1 [] CmioStops(r, ev) /\ n > 0 -> n - 1 [] OTHER -> n

\* Each event takes a slot that is in step to a slot that is in step: STARTUP,
LEMMA StartupSlot ==
  ASSUME NEW u \in Uuids, NEW s \in Sessions, NEW ref \in ARs \cup {0}, NEW n \in Nat
  PROVE  LET r == NewAr(u, s, ref) IN
         SlotOK(Indicated(r, "STARTUP"), "STARTUP", TimerAfter(r, FALSE, "STARTUP"),
                PollCount(r, n, "STARTUP"))
<1> DEFINE r == NewAr(u, s, ref)
           q == Indicated(r, "STARTUP")
<1>1. /\ r.in_use = TRUE /\ r.cmdev = "W_PEIND" /\ r.alarm_enable = FALSE
      /\ r.cmsu = "STARTUP" /\ r.cmio = "IDLE" /\ r.ppm = "W_START"
      /\ r.cmwrr = "IDLE" /\ r.cmsm = "IDLE" /\ r.cmpbe = "IDLE"
      /\ DOMAIN r = DOMAIN NoAr
  BY DEF NewAr, NoAr
<1> HIDE DEF r
<1>2. /\ CmsuPpm(r, "STARTUP") = "W_START" /\ CmioState(r, "STARTUP") = "STARTUP"
      /\ CmwrrState(r, "STARTUP") = "STARTUP" /\ CmsmState(r, "STARTUP") = "RUN"
      /\ CmpbeState(r, "STARTUP") = "IDLE" /\ TimerAfter(r, FALSE, "STARTUP")
  <2>1. CmsuPpm(r, "STARTUP") = "W_START" /\ CmpbeState(r, "STARTUP") = "IDLE"
    BY <1>1 DEF CmsuPpm, CmpbeState
  <2>2. CmioState(r, "STARTUP") = "STARTUP"  BY <1>1 DEF CmioState
  <2>3. CmwrrState(r, "STARTUP") = "STARTUP"  BY <1>1 DEF CmwrrState
  <2>4. CmsmState(r, "STARTUP") = "RUN"  BY <1>1 DEF CmsmState, CmsmStarts, CmsmStops
  <2>5. CmsmStarts(r, "STARTUP")  BY <1>1 DEF CmsmStarts
  <2>6. TimerAfter(r, FALSE, "STARTUP")  BY <2>5, Zenon DEF TimerAfter
  <2> QED  BY <2>1, <2>2, <2>3, <2>4, <2>6
<1>3. /\ q.in_use = TRUE /\ q.cmdev = "W_PEIND" /\ q.alarm_enable = FALSE /\ q.cmsu = "STARTUP"
      /\ q.ppm = CmsuPpm(r, "STARTUP") /\ q.cmio = CmioState(r, "STARTUP")
      /\ q.cmwrr = CmwrrState(r, "STARTUP") /\ q.cmsm = CmsmState(r, "STARTUP")
      /\ q.cmpbe = CmpbeState(r, "STARTUP")
  BY <1>1 DEF Indicated, NoAr
<1> HIDE DEF q
<1> QED  BY <1>2, <1>3 DEF SlotOK, InStep, r, q

\* PRMEND,
LEMMA PrmEndSlot ==
  ASSUME NEW r \in ArType, NEW t, NEW timer \in BOOLEAN, NEW n \in Nat,
         SlotOK(r, t, timer, n), r.cmdev = "W_PEIND"
  PROVE  LET q == [r EXCEPT !.cmdev = "W_ARDY"] IN
         SlotOK(Indicated(q, "PRMEND"), "PRMEND", TimerAfter(q, timer, "PRMEND"),
                PollCount(q, n, "PRMEND"))
BY SMTT(30) DEF NoAr, SlotOK, InStep, Indicated, CmsuPpm, CmioState, CmioReschedule, CmioStarts, ArType,
       CmioStops, CmwrrState, CmsmState, CmsmStarts, CmsmStops, CmpbeState, TimerAfter, PollCount

\* APPLRDY, with and without a session for the CControl request,
LEMMA ReadySlot ==
  ASSUME NEW r \in ArType, NEW t, NEW timer \in BOOLEAN, NEW n \in Nat,
         SlotOK(r, t, timer, n), r.cmdev = "W_ARDY", NEW to \in {"W_ARDY", "W_ARDYCNF"}
  PROVE  LET q == [r EXCEPT !.cmdev = to] IN
         SlotOK(Indicated(q, "APPLRDY"), "APPLRDY", TimerAfter(q, timer, "APPLRDY"),
                PollCount(q, n, "APPLRDY"))
BY SMTT(30) DEF NoAr, SlotOK, InStep, Indicated, CmsuPpm, CmioState, CmioReschedule, CmioStarts, ArType,
       CmioStops, CmwrrState, CmsmState, CmsmStarts, CmsmStops, CmpbeState, TimerAfter, PollCount

\* An AR whose CControl request was confirmed, and one that the poll found with
\* data (d) after that.
Confirmed(r) == [r EXCEPT !.alarm_enable = TRUE, !.cmdev = "DATA"]
PolledAr(r, d) ==
  [Indicated([r EXCEPT !.ready_4_data = d], "DATA") EXCEPT !.cmdev = "DATA"]

\* DATA when the confirmation comes after the cyclic data,
LEMMA CnfSlot ==
  ASSUME NEW r \in ArType, NEW t, NEW timer \in BOOLEAN, NEW n \in Nat,
         SlotOK(r, t, timer, n), r.cmdev = "W_ARDYCNF"
  PROVE  SlotOK(Indicated(Confirmed(r), "DATA"), "DATA",
                TimerAfter(Confirmed(r), timer, "DATA"), PollCount(Confirmed(r), n, "DATA"))
BY SMTT(30) DEF Confirmed, NoAr, SlotOK, InStep, Indicated, CmsuPpm, CmioState, CmioReschedule, CmioStarts, ArType,
       CmioStops, CmwrrState, CmsmState, CmsmStarts, CmsmStops, CmpbeState, TimerAfter, PollCount

\* and DATA when the poll of CMIO finds the data after the confirmation.
LEMMA PollSlot ==
  ASSUME NEW r \in ArType, NEW t, NEW timer \in BOOLEAN, NEW n \in Nat, NEW k \in Nat,
         SlotOK(r, t, timer, n), r.cmdev = "WDATA", NEW d \in BOOLEAN
  PROVE  SlotOK(PolledAr(r, d), "DATA", TimerAfter(r, timer, "DATA"), k)
BY SMTT(30) DEF PolledAr, NoAr, SlotOK, InStep, Indicated, CmsuPpm, CmioState, CmioReschedule, CmioStarts, ArType,
       CmioStops, CmwrrState, CmsmState, CmsmStarts, CmsmStops, CmpbeState, TimerAfter

-----------------------------------------------------------------------------
(* What an event and an abort do to the slots.                             *)

\* An event for one AR leaves the other slots alone.
LEMMA EventSlots ==
  ASSUME TypeOK, SlotsOK, NEW a \in ARs, NEW r \in ArType, NEW ev \in Events, NEW rs, NEW ss,
         rs \in [ARs -> ArType], \A b \in ARs : b # a => rs[b] = ar[b],
         Event(a, r, ev, rs, ss),
         SlotOK(Indicated(r, ev), ev, TimerAfter(r, cmsmTimer[a], ev), PollCount(r, polls[a], ev))
  PROVE  /\ ar' \in [ARs -> ArType] /\ cmsmTimer' \in [ARs -> BOOLEAN]
         /\ polls' \in [ARs -> Nat] /\ told' \in [ARs -> {"none"} \cup Events]
         /\ ar'[a] = Indicated(r, ev) /\ \A b \in ARs : b # a => ar'[b] = ar[b]
         /\ sess' = ss
         /\ SlotsOK'
<1>1. /\ ar \in [ARs -> ArType] /\ cmsmTimer \in [ARs -> BOOLEAN] /\ polls \in [ARs -> Nat]
      /\ told \in [ARs -> {"none"} \cup Events]
  BY DEF TypeOK, Events
<1>2. Indicated(r, ev) \in ArType  BY IndicatedType
<1>3. /\ ar' = [rs EXCEPT ![a] = Indicated(r, ev)] /\ sess' = ss
      /\ told' = [told EXCEPT ![a] = ev]
  BY DEF Event
<1>4. cmsmTimer' = [cmsmTimer EXCEPT ![a] = TimerAfter(r, cmsmTimer[a], ev)]
  BY <1>1 DEF Event, CmsmTimerAfter, TimerAfter
<1>5. polls' = [polls EXCEPT ![a] = PollCount(r, polls[a], ev)]
  BY <1>1 DEF Event, PollsAfter, PollCount
<1>6. TimerAfter(r, cmsmTimer[a], ev) \in BOOLEAN
  BY DEF TimerAfter
<1>7. PollCount(r, polls[a], ev) \in Nat
  BY <1>1 DEF PollCount
<1>8. ar' \in [ARs -> ArType] /\ told' \in [ARs -> {"none"} \cup Events]
  BY <1>1, <1>2, <1>3
<1>9. cmsmTimer' \in [ARs -> BOOLEAN]  BY <1>1, <1>4, <1>6
<1>10. polls' \in [ARs -> Nat]  BY <1>1, <1>5, <1>7
<1>11. ar'[a] = Indicated(r, ev) /\ \A b \in ARs : b # a => ar'[b] = ar[b]
  BY <1>3
<1>12. \A b \in ARs : SlotOK(ar[b], told[b], cmsmTimer[b], polls[b])
  BY DEF SlotsOK
<1>13. ASSUME NEW b \in ARs PROVE SlotOK(ar'[b], told'[b], cmsmTimer'[b], polls'[b])
  <2>1. CASE b = a
    <3>1. /\ told'[a] = ev /\ cmsmTimer'[a] = TimerAfter(r, cmsmTimer[a], ev)
          /\ polls'[a] = PollCount(r, polls[a], ev)
      BY <1>1, <1>3, <1>4, <1>5
    <3> QED  BY <2>1, <3>1, <1>11, Zenon
  <2>2. CASE b # a
    <3>1. /\ told'[b] = told[b] /\ cmsmTimer'[b] = cmsmTimer[b] /\ polls'[b] = polls[b]
      BY <2>2, <1>1, <1>3, <1>4, <1>5
    <3> QED  BY <2>2, <3>1, <1>11, <1>12, Zenon
  <2> QED  BY <2>1, <2>2
<1> QED  BY <1>3, <1>8, <1>9, <1>10, <1>11, <1>13, Zenon DEF SlotsOK

\* An abort leaves every slot it names wholly cleared.
LEMMA AbortSlots ==
  ASSUME TypeOK, SlotsOK, NEW S \in SUBSET ARs, NEW rs, NEW ss,
         rs \in [ARs -> ArType], \A b \in ARs : b \notin S => rs[b] = ar[b],
         ss \in [Sessions -> SessType],
         Aborts(S, rs, ss)
  PROVE  TypeOK' /\ SlotsOK'
<1>1. /\ ar \in [ARs -> ArType] /\ cmsmTimer \in [ARs -> BOOLEAN] /\ polls \in [ARs -> Nat]
      /\ told \in [ARs -> {"none"} \cup Events] /\ alarmRx \in Nat
      /\ endpoint \in [ARs -> [p_ar : ARs \cup {0}, active : BOOLEAN]]
  BY DEF TypeOK, Events
<1>2. ar' = [b \in ARs |-> IF b \in S THEN NoAr ELSE rs[b]]
  BY DEF Aborts, Clear
<1>3. told' = [b \in ARs |-> IF b \in S THEN "none" ELSE told[b]]
  BY <1>1 DEF Aborts, Clear
<1>4. cmsmTimer' = [b \in ARs |-> cmsmTimer[b] /\ ~ (b \in S /\ ar[b].cmsm = "RUN")]
  BY DEF Aborts, CmsmTimerAfterAbort
<1>5. polls' = polls  BY DEF Aborts
<1>6. ar' \in [ARs -> ArType]  BY <1>2, NoArType
<1>7. told' \in [ARs -> {"none"} \cup Events]  BY <1>1, <1>3
<1>8. cmsmTimer' \in [ARs -> BOOLEAN]  BY <1>4
<1>9. sess' \in [Sessions -> SessType]
  <2>1. sess' = [s \in Sessions |-> IF s \in Gone(S) THEN NoSess ELSE ss[s]]
    BY DEF Aborts, Clear
  <2> QED  BY <2>1, NoSessType
<1>10. endpoint' \in [ARs -> [p_ar : ARs \cup {0}, active : BOOLEAN]]
  <2>1. endpoint' = [i \in ARs |-> IF i \in Freed(S) THEN NoEndpoint ELSE endpoint[i]]
    BY <1>1 DEF Aborts, Clear
  <2>2. NoEndpoint \in [p_ar : ARs \cup {0}, active : BOOLEAN]  BY DEF NoEndpoint
  <2> QED  BY <1>1, <2>1, <2>2
<1>11. alarmRx' \in Nat
  <2> DEFINE n == Cardinality(Lasts(S))
  <2>1. alarmRx' = IF alarmRx > n THEN alarmRx - n ELSE 0  BY DEF Aborts
  <2>2. n \in Nat
    <3>1. IsFiniteSet(ARs)  BY SizeAssumption, FS_Interval DEF ARs
    <3>2. Lasts(S) \subseteq ARs  BY DEF Lasts, Opened
    <3> QED  BY <3>1, <3>2, FS_Subset, FS_CardinalityType
  <2> HIDE DEF n
  <2> QED  BY <1>1, <2>1, <2>2
<1>12. TypeOK'
  BY <1>1, <1>5, <1>6, <1>7, <1>8, <1>9, <1>10, <1>11 DEF TypeOK, Events
<1>13. ASSUME NEW b \in ARs PROVE SlotOK(ar'[b], told'[b], cmsmTimer'[b], polls'[b])
  <2>1. SlotOK(ar[b], told[b], cmsmTimer[b], polls[b])  BY DEF SlotsOK
  <2>2. CASE b \in S
    <3>1. cmsmTimer[b] => ar[b].cmsm = "RUN"  BY <2>1 DEF SlotOK
    <3>2. ar'[b] = NoAr /\ told'[b] = "none" /\ ~ cmsmTimer'[b]
      BY <2>2, <3>1, <1>2, <1>3, <1>4
    <3> QED  BY <3>2, NoArType DEF SlotOK
  <2>3. CASE b \notin S
    <3>1. ar'[b] = ar[b] /\ told'[b] = told[b] /\ cmsmTimer'[b] = cmsmTimer[b] /\ polls'[b] = polls[b]
      BY <2>3, <1>1, <1>2, <1>3, <1>4, <1>5
    <3> QED  BY <2>1, <3>1, Zenon
  <2> QED  BY <2>2, <2>3
<1> QED  BY <1>12, <1>13, Zenon DEF SlotsOK

-----------------------------------------------------------------------------
(* The links between ARs and sessions.                                     *)

\* A step that leaves names and pointers alone keeps them.
LEMMA SameLinks ==
  ASSUME Links,
         \A a \in ARs : /\ ar'[a].in_use = ar[a].in_use /\ ar'[a].uuid = ar[a].uuid
                        /\ ar'[a].p_sess = ar[a].p_sess
                        /\ ar'[a].cmdev = "W_ARDYCNF" <=> ar[a].cmdev = "W_ARDYCNF",
         \A s \in Sessions : /\ sess'[s].in_use = sess[s].in_use /\ sess'[s].from_me = sess[s].from_me
                             /\ sess'[s].act = sess[s].act /\ sess'[s].p_ar = sess[s].p_ar
                             /\ sess'[s].epm = sess[s].epm,
         TypeOK
  PROVE  Links'
<1>0. \A s \in Sessions : sess[s].p_ar \in ARs \cup {0}  BY DEF TypeOK, SessType
<1>1. Outgoing'  BY DEF Links, Outgoing
<1>2. Incoming'  BY <1>0 DEF Links, Incoming
<1>3. Owned'  BY DEF Links, Owned
<1>4. Confirming'  BY DEF Links, Confirming
<1>5. Unique'  BY DEF Links, Unique
<1> QED  BY <1>1, <1>2, <1>3, <1>4, <1>5 DEF Links

\* Clearing ARs with their sessions, and sessions that belong to no AR, leaves
\* no pointer to what is gone.
LEMMA AbortLinks ==
  ASSUME TypeOK, SlotsOK, Links, NEW S \in SUBSET ARs, NEW T \in SUBSET Sessions, NEW rs,
         \A b \in ARs : b \notin S => rs[b] = ar[b],
         \A s \in T : \/ s \in Gone(S) \/ ~ sess[s].in_use
                      \/ ~ sess[s].from_me /\ sess[s].p_ar = 0,
         Gone(S) \cap Sessions \subseteq T,
         ar' = [b \in ARs |-> IF b \in S THEN NoAr ELSE rs[b]],
         sess' = [s \in Sessions |-> IF s \in T THEN NoSess ELSE sess[s]]
  PROVE  Links'
<1>1. \A s \in Sessions : sess[s].p_ar \in ARs \cup {0}  BY DEF TypeOK, SessType
<1>2. \A b \in ARs : ~ ar[b].in_use => ar[b].p_sess = 0
  BY DEF SlotsOK, SlotOK, NoAr
<1>3. \A b \in ARs : IF b \in S THEN ar'[b] = NoAr ELSE ar'[b] = ar[b]
  OBVIOUS
<1>4. \A s \in Sessions : IF s \in T THEN sess'[s] = NoSess ELSE sess'[s] = sess[s]
  OBVIOUS
<1>5. \A s \in Sessions : s \in Gone(S) <=>
        \/ \E b \in S : s = ar[b].p_sess
        \/ sess[s].from_me /\ sess[s].p_ar \in S
  BY DEF Gone
<1>6. \A s \in Sessions : s \notin T => s \notin Gone(S)
  OBVIOUS
<1>7. \A s \in Sessions : sess'[s].in_use => s \notin T /\ sess'[s] = sess[s]
  BY <1>4, NoSessType
<1>8. \A b \in ARs : ar'[b].in_use => b \notin S /\ ar'[b] = ar[b]
  BY <1>3, NoArType
<1>9. Outgoing'
  <2> SUFFICES ASSUME NEW s \in Sessions, sess'[s].in_use, sess'[s].from_me
               PROVE  /\ sess'[s].p_ar \in ARs /\ sess'[s].act = NoAct /\ ~ sess'[s].epm
                      /\ ar'[sess'[s].p_ar].in_use /\ ar'[sess'[s].p_ar].cmdev = "W_ARDYCNF"
    BY DEF Outgoing
  <2>1. sess'[s] = sess[s] /\ s \notin Gone(S)  BY <1>6, <1>7
  <2>2. sess[s].p_ar \in ARs /\ sess[s].p_ar \notin S  BY <1>5, <2>1 DEF Links, Outgoing
  <2> QED  BY <1>3, <2>1, <2>2 DEF Links, Outgoing
<1>10. Incoming'
  <2> SUFFICES ASSUME NEW s \in Sessions, sess'[s].in_use, ~ sess'[s].from_me
               PROVE  /\ sess'[s].act \in Acts
                      /\ sess'[s].p_ar # 0 =>
                           /\ ar'[sess'[s].p_ar].in_use /\ ar'[sess'[s].p_ar].p_sess = s
                           /\ ar'[sess'[s].p_ar].uuid \in Uuids
                           /\ sess'[s].act = Home[ar'[sess'[s].p_ar].uuid]
                      /\ sess'[s].epm => sess'[s].act \in Lookups
    BY DEF Incoming
  <2>1. sess'[s] = sess[s] /\ s \notin Gone(S)  BY <1>6, <1>7
  <2>2. sess[s].p_ar # 0 => sess[s].p_ar \in ARs /\ sess[s].p_ar \notin S
    BY <1>1, <1>5, <2>1 DEF Links, Incoming
  <2> QED  BY <1>3, <2>1, <2>2 DEF Links, Incoming
<1>11. Owned'
  <2> SUFFICES ASSUME NEW a \in ARs, ar'[a].in_use
               PROVE  /\ ar'[a].p_sess \in Sessions /\ sess'[ar'[a].p_sess].in_use
                      /\ ~ sess'[ar'[a].p_sess].from_me /\ sess'[ar'[a].p_sess].p_ar = a
    BY DEF Owned
  <2> DEFINE s == ar[a].p_sess
  <2>1. a \notin S /\ ar'[a] = ar[a]  BY <1>8
  <2>2. s \in Sessions /\ sess[s].in_use /\ ~ sess[s].from_me /\ sess[s].p_ar = a
    BY <2>1 DEF Links, Owned
  <2>3. \A b \in S : ar[b].p_sess # s
    <3> SUFFICES ASSUME NEW b \in S PROVE ar[b].p_sess # s
      OBVIOUS
    <3>1. b \in ARs /\ b # a
      BY <2>1
    <3>2. CASE ar[b].in_use
      <4>1. sess[ar[b].p_sess].p_ar = b
        BY <3>1, <3>2 DEF Links, Owned
      <4> HIDE DEF s
      <4> QED  BY <2>2, <3>1, <4>1
    <3>3. CASE ~ ar[b].in_use
      <4>1. ar[b].p_sess = 0
        BY <1>2, <3>1, <3>3
      <4> HIDE DEF s
      <4> QED  BY <2>2, <4>1, IndexSets
    <3> QED  BY <3>2, <3>3
  <2> HIDE DEF s
  <2>4. s \notin T
    <3>1. s \in Sessions /\ sess[s].in_use /\ ~ sess[s].from_me /\ sess[s].p_ar # 0
      BY <2>1, <2>2, IndexSets
    <3>2. s \notin Gone(S)  BY <1>5, <2>3, <3>1
    <3> QED  BY <3>1, <3>2
  <2> QED  BY <1>4, <2>1, <2>2, <2>4 DEF s
<1>12. Confirming'
  <2> SUFFICES ASSUME NEW a \in ARs, ar'[a].cmdev = "W_ARDYCNF"
               PROVE  \E s \in Sessions : sess'[s].in_use /\ sess'[s].from_me /\ sess'[s].p_ar = a
    BY DEF Confirming
  <2>1. a \notin S /\ ar'[a] = ar[a]  BY <1>3, NoArType
  <2>2. PICK s \in Sessions : sess[s].in_use /\ sess[s].from_me /\ sess[s].p_ar = a
    BY <2>1 DEF Links, Confirming
  <2>3. \A b \in S : ar[b].p_sess # s
    BY <1>2, <2>2, IndexSets DEF Links, Owned
  <2>4. s \notin T  BY <1>5, <2>1, <2>2, <2>3
  <2> QED  BY <1>4, <2>2, <2>4
<1>13. Unique'
  BY <1>7, <1>8 DEF Links, Unique
<1> QED  BY <1>9, <1>10, <1>11, <1>12, <1>13 DEF Links

\* Both together, for the steps that abort and otherwise change nothing.
LEMMA AbortInv ==
  ASSUME TypeOK, SlotsOK, Links, NEW S \in SUBSET ARs, NEW T \in SUBSET Sessions, NEW rs,
         rs \in [ARs -> ArType], \A b \in ARs : b \notin S => rs[b] = ar[b],
         \A s \in T : \/ s \in Gone(S) \/ ~ sess[s].in_use
                      \/ ~ sess[s].from_me /\ sess[s].p_ar = 0,
         Aborts(S, rs, Clear(sess, T, NoSess))
  PROVE  IInv'
<1> DEFINE ss == Clear(sess, T, NoSess)
           U  == T \cup (Gone(S) \cap Sessions)
<1>1. sess \in [Sessions -> SessType]  BY DEF TypeOK
<1>2. ss = [s \in Sessions |-> IF s \in T THEN NoSess ELSE sess[s]]
  BY <1>1 DEF Clear
<1>3. ss \in [Sessions -> SessType]  BY <1>1, <1>2, NoSessType
<1>4. sess' = [s \in Sessions |-> IF s \in U THEN NoSess ELSE sess[s]]
  BY <1>2 DEF Aborts, Clear
<1>5. ar' = [b \in ARs |-> IF b \in S THEN NoAr ELSE rs[b]]
  BY DEF Aborts, Clear
<1> HIDE DEF ss
<1>6. TypeOK' /\ SlotsOK'  BY <1>3, AbortSlots DEF ss
<1>7. Links'
  <2>1. U \subseteq Sessions /\ Gone(S) \cap Sessions \subseteq U  OBVIOUS
  <2>2. \A s \in U : \/ s \in Gone(S) \/ ~ sess[s].in_use
                     \/ ~ sess[s].from_me /\ sess[s].p_ar = 0
    OBVIOUS
  <2> HIDE DEF U
  <2> QED  BY <1>4, <1>5, <2>1, <2>2, AbortLinks
<1> QED  BY <1>6, <1>7 DEF IInv, Links

-----------------------------------------------------------------------------
(* The session that serves a request.                                      *)

\* A request about an AR arrives on the session of that AR.
LEMMA Conversation ==
  ASSUME IInv, Orderly, NEW u \in Uuids, NEW act \in Acts, NEW s \in Sessions,
         MayUse(u, act), Serves(s, act), NEW a \in ArOf(u)
  PROVE  /\ a \in ARs /\ ar[a].in_use /\ ar[a].uuid = u /\ ar[a].p_sess = s
         /\ sess[s].in_use /\ ~ sess[s].from_me /\ sess[s].p_ar = a
         /\ ArOf(u) = {a}
         /\ Session(s, act) = sess[s] /\ With(s, act) = sess
<1> DEFINE k == ar[a].p_sess
<1>1. act = Home[u]  BY DEF Orderly, MayUse
<1>2. a \in ARs /\ ar[a].in_use /\ ar[a].uuid = u  BY DEF ArOf, Used
<1>3. k \in Sessions /\ sess[k].in_use /\ ~ sess[k].from_me /\ sess[k].p_ar = a
  BY <1>2 DEF IInv, Owned
<1>4. sess[k].act = act
  <2>1. sess[k].p_ar # 0  BY <1>2, <1>3, IndexSets
  <2>2. sess[k].act = Home[ar[sess[k].p_ar].uuid]
    <3> HIDE DEF k
    <3> QED  BY <1>3, <2>1 DEF IInv, Incoming
  <2> QED  BY <1>1, <1>2, <1>3, <2>2
<1>5. s = k
  <2>1. sess[s].in_use /\ sess[s].act = act  BY <1>3, <1>4 DEF Serves
  <2> QED  BY <2>1, <1>3, <1>4 DEF IInv, Unique
<1>6. ArOf(u) = {a}  BY <1>2 DEF ArOf, Used, IInv, Unique
<1>7. Session(s, act) = sess[s]  BY <1>3, <1>5 DEF Session
<1>8. With(s, act) = sess
  BY <1>7 DEF With, IInv, TypeOK
<1> QED  BY <1>2, <1>3, <1>5, <1>6, <1>7, <1>8

\* A request about no AR arrives on a session without AR, or on a free one.
LEMMA NewConversation ==
  ASSUME IInv, Orderly, NEW u \in Uuids, NEW act \in Acts, NEW s \in Sessions,
         MayUse(u, act), Serves(s, act), ArOf(u) = {}
  PROVE  /\ act = Home[u]
         /\ ~ sess[s].in_use \/ (~ sess[s].from_me /\ sess[s].p_ar = 0 /\ sess[s].act = act
                                 /\ ~ sess[s].epm)
         /\ \A t \in Sessions : sess[t].in_use /\ sess[t].act = act => t = s
<1>1. act = Home[u]  BY DEF Orderly, MayUse
<1>2. sess[s].in_use => sess[s].act = act
  <2>1. FreeSess # {} => First(FreeSess) \in FreeSess
    BY FirstIn, IndexSets DEF FreeSess
  <2> QED  BY <2>1 DEF Serves, FreeSess
<1>3. ASSUME sess[s].in_use
      PROVE  ~ sess[s].from_me /\ sess[s].p_ar = 0 /\ ~ sess[s].epm
  <2>1. ~ sess[s].from_me
    BY <1>2, <1>3, ControllerAssumption DEF IInv, Outgoing
  <2>2. sess[s].p_ar = 0
    <3> SUFFICES ASSUME sess[s].p_ar # 0 PROVE FALSE  OBVIOUS
    <3> DEFINE a == sess[s].p_ar
    <3>1. a \in ARs  BY DEF IInv, TypeOK, SessType
    <3>2. ar[a].in_use /\ ar[a].uuid \in Uuids /\ act = Home[ar[a].uuid]
      BY <1>2, <1>3, <2>1 DEF IInv, Incoming
    <3>3. ar[a].uuid = u  BY <1>1, <3>2 DEF Orderly
    <3> QED  BY <3>1, <3>2, <3>3 DEF ArOf, Used
  <2>3. ~ sess[s].epm
    BY <1>1, <1>2, <1>3, <2>1 DEF IInv, Incoming, Orderly
  <2> QED  BY <2>1, <2>2, <2>3
<1>4. \A t \in Sessions : sess[t].in_use /\ sess[t].act = act => t = s
  <2> SUFFICES ASSUME NEW t \in Sessions, sess[t].in_use, sess[t].act = act PROVE t = s
    OBVIOUS
  <2>1. sess[s].in_use  BY DEF Serves
  <2> QED  BY <1>2, <2>1 DEF IInv, Unique
<1> QED  BY <1>1, <1>2, <1>3, <1>4

\* A session that is opened for an activity belongs to no AR yet.
LEMMA SessionType ==
  ASSUME TypeOK, NEW s \in Sessions, NEW act \in Acts
  PROVE  /\ Session(s, act) \in SessType /\ Session(s, act).in_use
         /\ ~ sess[s].in_use => Session(s, act).act = act /\ ~ Session(s, act).from_me
                                /\ Session(s, act).p_ar = 0 /\ ~ Session(s, act).epm
<1>1. CASE sess[s].in_use  BY <1>1 DEF Session, TypeOK
<1>2. CASE ~ sess[s].in_use
  <2>1. 0 \in 0 .. Resends  BY SizeAssumption
  <2>2. Session(s, act) = [NoSess EXCEPT !.in_use = TRUE, !.act = act]  BY <1>2 DEF Session
  <2>3. Session(s, act) = [in_use |-> TRUE, from_me |-> FALSE, act |-> act, p_ar |-> 0,
                           tries |-> 0, armed |-> FALSE, epm |-> FALSE]
    BY <2>2 DEF NoSess
  <2> QED  BY <2>1, <2>3 DEF SessType
<1> QED  BY <1>1, <1>2

-----------------------------------------------------------------------------
(* One lemma per action: requests.                                         *)

\* Releasing a session clears one entry of the table.
LEMMA KillClears ==
  ASSUME NEW s \in Sessions PROVE Kill(s) = Clear(sess, {s}, NoSess)
BY DEF Kill

\* An abort that no request asked for clears the sessions of the AR only.
LEMMA ClearNothing == ASSUME TypeOK PROVE sess = Clear(sess, {}, NoSess)
BY DEF TypeOK, Clear

\* A session that belongs to no AR ends.
LEMMA KillUnowned ==
  ASSUME IInv, NEW s \in Sessions,
         ~ sess[s].in_use \/ (~ sess[s].from_me /\ sess[s].p_ar = 0),
         sess' = Kill(s), UNCHANGED <<ar, alarmRx, timers, told>>,
         endpoint' \in [ARs -> [p_ar : ARs \cup {0}, active : BOOLEAN]]
  PROVE  IInv'
<1>1. sess' = [t \in Sessions |-> IF t \in {s} THEN NoSess ELSE sess[t]]
  BY DEF IInv, TypeOK, Kill, Clear
<1>2. sess' \in [Sessions -> SessType]  BY <1>1, NoSessType DEF IInv, TypeOK
<1>3. ar' = [b \in ARs |-> IF b \in {} THEN NoAr ELSE ar[b]]
  BY DEF IInv, TypeOK
<1>4. Links'
  <2>1. Gone({}) \cap Sessions \subseteq {s}  BY DEF Gone
  <2>2. {s} \in SUBSET Sessions /\ {} \in SUBSET ARs  OBVIOUS
  <2>3. \A t \in {s} : \/ t \in Gone({}) \/ ~ sess[t].in_use
                       \/ ~ sess[t].from_me /\ sess[t].p_ar = 0
    OBVIOUS
  <2>4. TypeOK /\ SlotsOK /\ Links  BY DEF IInv, Links
  <2> QED  BY <1>1, <1>3, <2>1, <2>2, <2>3, <2>4, AbortLinks
<1>5. TypeOK'  BY <1>2 DEF IInv, TypeOK, timers
<1>6. SlotsOK'  BY DEF IInv, SlotsOK, timers
<1> QED  BY <1>4, <1>5, <1>6 DEF IInv, Links

\* A second Connect aborts the AR that has the UUID.
LEMMA ConnectDuplicateInv ==
  ASSUME IInv, Orderly, NEW u \in Uuids, NEW act \in Acts, NEW s \in Sessions,
         ConnectDuplicate(u, act, s)
  PROVE  IInv'
<1>1. PICK a : a \in ArOf(u)  BY DEF ConnectDuplicate
<1>2. a \in ARs /\ ArOf(u) = {a} /\ ar[a].p_sess = s
  BY <1>1, Conversation DEF ConnectDuplicate
<1>3. First(ArOf(u)) = a
  <2>1. ArOf(u) \in SUBSET Nat  BY <1>2, IndexSets
  <2> QED  BY <1>2, <2>1, FirstIn
<1>4. Aborts({a}, ar, Clear(sess, {s}, NoSess))
  BY <1>3 DEF ConnectDuplicate, Kill
<1>5. s \in Gone({a})  BY <1>2 DEF Gone
<1>6. ar \in [ARs -> ArType]  BY DEF IInv, TypeOK
<1> QED  BY <1>2, <1>4, <1>5, <1>6, AbortInv DEF IInv, Links

\* An endpoint that is allocated has the type of its table.
LEMMA AllocateType ==
  ASSUME TypeOK, NEW a \in ARs
  PROVE  Allocate(a) \in [ARs -> [p_ar : ARs \cup {0}, active : BOOLEAN]]
<1>1. endpoint \in [ARs -> [p_ar : ARs \cup {0}, active : BOOLEAN]]  BY DEF TypeOK
<1>2. [p_ar |-> a, active |-> FALSE] \in [p_ar : ARs \cup {0}, active : BOOLEAN]
  OBVIOUS
<1> QED  BY <1>1, <1>2 DEF Allocate

\* A new AR takes a slot that is free.
LEMMA FirstFree == FreeArs # {} => First(FreeArs) \in ARs /\ ~ ar[First(FreeArs)].in_use
<1>1. FreeArs \in SUBSET Nat  BY IndexSets DEF FreeArs
<1>2. FreeArs # {} => First(FreeArs) \in FreeArs  BY <1>1, FirstIn
<1> QED  BY <1>2 DEF FreeArs, Used

\* A refused Connect releases the session it came on.
LEMMA ConnectRefusedInv ==
  ASSUME IInv, Orderly, NEW u \in Uuids, NEW act \in Acts, NEW s \in Sessions, NEW why,
         ConnectRefused(u, act, s, why)
  PROVE  IInv'
<1>1. ~ sess[s].in_use \/ (~ sess[s].from_me /\ sess[s].p_ar = 0)
  BY NewConversation DEF ConnectRefused
<1>2. endpoint' \in [ARs -> [p_ar : ARs \cup {0}, active : BOOLEAN]]
  <2>1. CASE why = "apdu"
    BY <2>1 DEF ConnectRefused, IInv, TypeOK
  <2>2. CASE why # "apdu"
    <3>1. FreeArs # {} /\ endpoint' = Allocate(First(FreeArs))  BY <2>2 DEF ConnectRefused
    <3> QED  BY <3>1, FirstFree, AllocateType DEF IInv
  <2> QED  BY <2>1, <2>2
<1>3. sess' = Kill(s) /\ UNCHANGED <<ar, alarmRx, timers, told>>
  BY DEF ConnectRefused
<1> QED  BY <1>1, <1>2, <1>3, KillUnowned

\* A DControl for an unknown UUID releases its session.
LEMMA DControlUnknownInv ==
  ASSUME IInv, Orderly, NEW u \in Uuids, NEW act \in Acts, NEW s \in Sessions,
         DControlUnknown(u, act, s)
  PROVE  IInv'
<1>1. ~ sess[s].in_use \/ (~ sess[s].from_me /\ sess[s].p_ar = 0)
  BY NewConversation DEF DControlUnknown
<1>2. endpoint' \in [ARs -> [p_ar : ARs \cup {0}, active : BOOLEAN]]
  BY DEF DControlUnknown, alarms, IInv, TypeOK
<1>3. sess' = Kill(s) /\ UNCHANGED <<ar, alarmRx, timers, told>>
  BY DEF DControlUnknown, alarms
<1> QED  BY <1>1, <1>2, <1>3, KillUnowned

\* A Release aborts its AR, if there is one, and ends the session.
LEMMA ReleaseInv ==
  ASSUME IInv, Orderly, NEW u \in Uuids, NEW act \in Acts, NEW s \in Sessions,
         Release(u, act, s)
  PROVE  IInv'
<1> DEFINE S == {a \in ArOf(u) : ar[a].cmdev \in Releasable}
<1>1. Aborts(S, ar, Clear(sess, {s}, NoSess)) /\ S \in SUBSET ARs
  BY DEF Release, Kill, ArOf, Used
<1>2. \/ s \in Gone(S) \/ ~ sess[s].in_use
      \/ ~ sess[s].from_me /\ sess[s].p_ar = 0
  <2>1. CASE ArOf(u) = {}
    <3>1. ~ sess[s].in_use \/ (~ sess[s].from_me /\ sess[s].p_ar = 0)
      BY <2>1, NewConversation DEF Release
    <3> QED  BY <3>1
  <2>2. CASE ArOf(u) # {}
    <3>1. PICK a : a \in ArOf(u)  BY <2>2
    <3>2. a \in ARs /\ ar[a].in_use /\ ar[a].p_sess = s
      BY <3>1, Conversation DEF Release
    <3>3. ar[a].cmdev \in Releasable
      BY <3>2 DEF IInv, SlotsOK, SlotOK, InStep, Releasable
    <3>4. a \in S  BY <3>1, <3>3
    <3> HIDE DEF S
    <3>5. s \in Gone(S)  BY <3>2, <3>4 DEF Gone
    <3> QED  BY <3>5
  <2> QED  BY <2>1, <2>2
<1>3. ar \in [ARs -> ArType]  BY DEF IInv, TypeOK
<1> HIDE DEF S
<1> QED  BY <1>1, <1>2, <1>3, AbortInv DEF IInv, Links

\* The record of a new AR names its session and its UUID.
LEMMA NewArType ==
  ASSUME NEW u \in Uuids, NEW s \in Sessions, NEW ref \in ARs \cup {0}
  PROVE  /\ NewAr(u, s, ref) \in ArType /\ NewAr(u, s, ref).in_use
         /\ NewAr(u, s, ref).uuid = u /\ NewAr(u, s, ref).p_sess = s
         /\ NewAr(u, s, ref).cmdev = "W_PEIND"
<1> DEFINE q1 == [NoAr EXCEPT !.in_use = TRUE]    q2 == [q1 EXCEPT !.uuid = u]
           q3 == [q2 EXCEPT !.p_sess = s]         q4 == [q3 EXCEPT !.cmdev = "W_PEIND"]
           q5 == [q4 EXCEPT !.ref = ref]          q6 == [q5 EXCEPT !.cmsu = "STARTUP"]
           q7 == [q6 EXCEPT !.cpm = "FRUN"]
<1>1. NewAr(u, s, ref) = q7  BY DEF NewAr
<1>2. /\ q7.in_use /\ q7.uuid = u /\ q7.p_sess = s /\ q7.cmdev = "W_PEIND"
  BY DEF NoAr
<1> HIDE DEF q1, q2, q3, q4, q5, q6, q7
<1>3. q1 \in ArType /\ q2 \in ArType  BY NoArType, FieldTypes DEF q1, q2
<1>4. q3 \in ArType /\ q4 \in ArType  BY <1>3, FieldTypes DEF q3, q4, Releasable
<1>5. q5 \in ArType /\ q6 \in ArType  BY <1>4, FieldTypes DEF q5, q6
<1>6. q7 \in ArType  BY <1>5, FieldTypes DEF q7
<1> QED  BY <1>1, <1>2, <1>6

\* A new AR a on session s, which belonged to no AR.
Attach(u, act, s, a) ==
  /\ act = Home[u] /\ ArOf(u) = {} /\ ~ ar[a].in_use
  /\ ~ sess[s].in_use \/ (~ sess[s].from_me /\ sess[s].p_ar = 0 /\ sess[s].act = act
                          /\ ~ sess[s].epm)
  /\ \A t \in Sessions : sess[t].in_use /\ sess[t].act = act => t = s
  /\ ar'[a].in_use /\ ar'[a].uuid = u /\ ar'[a].p_sess = s /\ ar'[a].cmdev = "W_PEIND"
  /\ \A b \in ARs : b # a => ar'[b] = ar[b]
  /\ sess'[s].in_use /\ ~ sess'[s].from_me /\ sess'[s].act = act /\ sess'[s].p_ar = a
  /\ ~ sess'[s].epm
  /\ \A t \in Sessions : t # s => sess'[t] = sess[t]

\* A new AR and its session point to each other, the others are as before.
LEMMA ConnectLinks ==
  ASSUME TypeOK, Links, Orderly, NEW u \in Uuids, NEW act \in Acts, NEW s \in Sessions,
         NEW a \in ARs, Attach(u, act, s, a)
  PROVE  Links'
<1> USE DEF Attach
<1>3. \A t \in Sessions : sess[t].in_use /\ sess[t].p_ar # 0 =>
        sess[t].p_ar \in ARs /\ sess[t].p_ar # a /\ t # s
  <2> SUFFICES ASSUME NEW t \in Sessions, sess[t].in_use, sess[t].p_ar # 0
               PROVE  sess[t].p_ar \in ARs /\ sess[t].p_ar # a /\ t # s
    OBVIOUS
  <2>1. sess[t].p_ar \in ARs  BY DEF TypeOK, SessType
  <2>2. ar[sess[t].p_ar].in_use  BY DEF Links, Outgoing, Incoming
  <2> QED  BY <2>1, <2>2
<1>4. Outgoing'
  <2> SUFFICES ASSUME NEW t \in Sessions, sess'[t].in_use, sess'[t].from_me
               PROVE  /\ sess'[t].p_ar \in ARs /\ sess'[t].act = NoAct /\ ~ sess'[t].epm
                      /\ ar'[sess'[t].p_ar].in_use /\ ar'[sess'[t].p_ar].cmdev = "W_ARDYCNF"
    BY DEF Outgoing
  <2>1. t # s /\ sess'[t] = sess[t]  OBVIOUS
  <2>2. sess[t].p_ar \in ARs /\ sess[t].p_ar # a
    BY <1>3, <2>1, IndexSets DEF Links, Outgoing
  <2> QED  BY <2>1, <2>2 DEF Links, Outgoing
<1>5. Incoming'
  <2> SUFFICES ASSUME NEW t \in Sessions, sess'[t].in_use, ~ sess'[t].from_me
               PROVE  /\ sess'[t].act \in Acts
                      /\ sess'[t].p_ar # 0 =>
                           /\ ar'[sess'[t].p_ar].in_use /\ ar'[sess'[t].p_ar].p_sess = t
                           /\ ar'[sess'[t].p_ar].uuid \in Uuids
                           /\ sess'[t].act = Home[ar'[sess'[t].p_ar].uuid]
                      /\ sess'[t].epm => sess'[t].act \in Lookups
    BY DEF Incoming
  <2>1. CASE t = s  BY <2>1
  <2>2. CASE t # s
    <3>1. sess'[t] = sess[t]  BY <2>2
    <3>2. sess[t].p_ar # 0 => ar'[sess[t].p_ar] = ar[sess[t].p_ar]
      BY <1>3, <3>1
    <3> QED  BY <3>1, <3>2 DEF Links, Incoming
  <2> QED  BY <2>1, <2>2
<1>6. Owned'
  <2> SUFFICES ASSUME NEW b \in ARs, ar'[b].in_use
               PROVE  /\ ar'[b].p_sess \in Sessions /\ sess'[ar'[b].p_sess].in_use
                      /\ ~ sess'[ar'[b].p_sess].from_me /\ sess'[ar'[b].p_sess].p_ar = b
    BY DEF Owned
  <2>1. CASE b = a  BY <2>1
  <2>2. CASE b # a
    <3>1. ar'[b] = ar[b]  BY <2>2
    <3>2. /\ ar[b].p_sess \in Sessions /\ sess[ar[b].p_sess].in_use
          /\ ~ sess[ar[b].p_sess].from_me /\ sess[ar[b].p_sess].p_ar = b
      BY <3>1 DEF Links, Owned
    <3>3. ar[b].p_sess # s  BY <1>3, <3>2, IndexSets
    <3> QED  BY <3>1, <3>2, <3>3
  <2> QED  BY <2>1, <2>2
<1>7. Confirming'
  <2> SUFFICES ASSUME NEW b \in ARs, ar'[b].cmdev = "W_ARDYCNF"
               PROVE  \E t \in Sessions : sess'[t].in_use /\ sess'[t].from_me /\ sess'[t].p_ar = b
    BY DEF Confirming
  <2>1. b # a /\ ar'[b] = ar[b]  OBVIOUS
  <2>2. PICK t \in Sessions : sess[t].in_use /\ sess[t].from_me /\ sess[t].p_ar = b
    BY <2>1 DEF Links, Confirming
  <2>3. t # s  BY <1>3, <2>2, IndexSets
  <2> QED  BY <2>2, <2>3
<1>8. Unique'
  <2>1. \A t \in Sessions : t # s /\ sess'[t].in_use => sess'[t] = sess[t] /\ sess[t].act # act
    OBVIOUS
  <2>2. \A b \in ARs : b # a /\ ar'[b].in_use => ar'[b] = ar[b] /\ ar[b].uuid # u
    BY DEF ArOf, Used
  <2>3. \A t, v \in Sessions : sess'[t].in_use /\ sess'[v].in_use /\ sess'[t].act \in Acts
                               /\ sess'[t].act = sess'[v].act => t = v
    BY <2>1 DEF Links, Unique
  <2>4. \A t, v \in Sessions : sess'[t].in_use /\ sess'[v].in_use /\ sess'[t].from_me
                               /\ sess'[v].from_me /\ sess'[t].p_ar = sess'[v].p_ar => t = v
    BY <2>1 DEF Links, Unique
  <2>5. \A b, c \in ARs : ar'[b].in_use /\ ar'[c].in_use /\ ar'[b].uuid = ar'[c].uuid => b = c
    BY <2>2 DEF Links, Unique
  <2> QED  BY <2>3, <2>4, <2>5 DEF Unique
<1> QED  BY <1>4, <1>5, <1>6, <1>7, <1>8 DEF Links

\* An accepted Connect.
LEMMA ConnectAcceptedInv ==
  ASSUME IInv, Orderly, NEW u \in Uuids, NEW act \in Acts, NEW s \in Sessions,
         ConnectAccepted(u, act, s)
  PROVE  IInv'
<1> DEFINE a   == First(FreeArs)
           ref == IF FreeEndpoints = {} THEN 0 ELSE First(FreeEndpoints)
           ss  == [sess EXCEPT ![s] = [Session(s, act) EXCEPT !.p_ar = a]]
<1>1. /\ MayUse(u, act) /\ Serves(s, act) /\ ArOf(u) = {}
      /\ Event(a, NewAr(u, s, ref), "STARTUP", ar, ss)
      /\ endpoint' = Activated(a) /\ alarmRx' = RxAfterActivate
  BY DEF ConnectAccepted
<1>2. a \in ARs /\ ~ ar[a].in_use  BY FirstFree DEF ConnectAccepted
<1>3. ref \in ARs \cup {0}
  <2>1. FreeEndpoints \in SUBSET ARs  BY DEF FreeEndpoints, EndpointsOf
  <2>2. FreeEndpoints \in SUBSET Nat  BY <2>1, IndexSets
  <2> QED  BY <2>1, <2>2, FirstIn
<1> HIDE DEF a, ref
<1>4. NewAr(u, s, ref) \in ArType  BY <1>3, NewArType
<1>5. ar[a] = NoAr /\ ~ cmsmTimer[a]  BY <1>2 DEF IInv, SlotsOK, SlotOK
<1>6. polls[a] \in Nat  BY <1>2 DEF IInv, TypeOK
<1>7. SlotOK(Indicated(NewAr(u, s, ref), "STARTUP"), "STARTUP",
             TimerAfter(NewAr(u, s, ref), FALSE, "STARTUP"),
             PollCount(NewAr(u, s, ref), polls[a], "STARTUP"))
  BY <1>3, <1>6, StartupSlot
<1>8. cmsmTimer[a] = FALSE  BY <1>2, <1>5 DEF IInv, TypeOK
<1>9. ar \in [ARs -> ArType] /\ "STARTUP" \in Events /\ TypeOK /\ SlotsOK
  BY DEF IInv, TypeOK, Events
<1>10. /\ ar' \in [ARs -> ArType] /\ cmsmTimer' \in [ARs -> BOOLEAN]
       /\ polls' \in [ARs -> Nat] /\ told' \in [ARs -> {"none"} \cup Events]
       /\ ar'[a] = Indicated(NewAr(u, s, ref), "STARTUP")
       /\ \A b \in ARs : b # a => ar'[b] = ar[b]
       /\ sess' = ss /\ SlotsOK'
  <2> HIDE DEF ss
  <2>1. SlotOK(Indicated(NewAr(u, s, ref), "STARTUP"), "STARTUP",
               TimerAfter(NewAr(u, s, ref), cmsmTimer[a], "STARTUP"),
               PollCount(NewAr(u, s, ref), polls[a], "STARTUP"))
    BY <1>7, <1>8
  <2> QED  BY <1>1, <1>2, <1>4, <1>9, <2>1, EventSlots
<1>11. /\ ar'[a].in_use /\ ar'[a].uuid = u /\ ar'[a].p_sess = s /\ ar'[a].cmdev = "W_PEIND"
  <2> DEFINE r == NewAr(u, s, ref)
  <2>1. r \in ArType /\ r.in_use /\ r.uuid = u /\ r.p_sess = s /\ r.cmdev = "W_PEIND"
    BY <1>3, NewArType
  <2> HIDE DEF r
  <2>2. /\ Indicated(r, "STARTUP").in_use = r.in_use /\ Indicated(r, "STARTUP").uuid = r.uuid
        /\ Indicated(r, "STARTUP").p_sess = r.p_sess /\ Indicated(r, "STARTUP").cmdev = r.cmdev
    BY <2>1, <1>9, IndicatedType
  <2> QED  BY <1>10, <2>1, <2>2 DEF r
<1>12. Links'
  <2>1. /\ act = Home[u]
        /\ ~ sess[s].in_use \/ (~ sess[s].from_me /\ sess[s].p_ar = 0 /\ sess[s].act = act
                                /\ ~ sess[s].epm)
        /\ \A t \in Sessions : sess[t].in_use /\ sess[t].act = act => t = s
    BY <1>1, NewConversation
  <2>2. TypeOK /\ Links  BY DEF IInv, Links
  <2>3. /\ sess'[s] = [Session(s, act) EXCEPT !.p_ar = a]
        /\ \A t \in Sessions : t # s => sess'[t] = sess[t]
    BY <1>10 DEF IInv, TypeOK
  <2>4. /\ Session(s, act) \in SessType /\ Session(s, act).in_use
        /\ Session(s, act).act = act /\ ~ Session(s, act).from_me /\ ~ Session(s, act).epm
    <3>1. /\ Session(s, act) \in SessType /\ Session(s, act).in_use
          /\ ~ sess[s].in_use => Session(s, act).act = act /\ ~ Session(s, act).from_me
                                 /\ Session(s, act).p_ar = 0 /\ ~ Session(s, act).epm
      BY <2>2, SessionType
    <3>2. sess[s].in_use => Session(s, act) = sess[s]  BY DEF Session
    <3> QED  BY <2>1, <3>1, <3>2
  <2>5. /\ sess'[s].in_use /\ ~ sess'[s].from_me /\ sess'[s].act = act /\ sess'[s].p_ar = a
        /\ ~ sess'[s].epm
    BY <2>3, <2>4 DEF SessType
  <2> HIDE DEF ss
  <2>6. \A b \in ARs : b # a => ar'[b] = ar[b]  BY <1>10
  <2>7. ArOf(u) = {}  BY <1>1
  <2>8. Attach(u, act, s, a)
    BY <1>2, <1>11, <2>1, <2>3, <2>5, <2>6, <2>7 DEF Attach
  <2> QED  BY <1>2, <2>2, <2>8, ConnectLinks
<1>13. ss \in [Sessions -> SessType]
  <2>1. Session(s, act) \in SessType  BY <1>9, SessionType
  <2>2. [Session(s, act) EXCEPT !.p_ar = a] \in SessType  BY <1>2, <2>1 DEF SessType
  <2> QED  BY <2>2 DEF IInv, TypeOK
<1>14. endpoint' \in [ARs -> [p_ar : ARs \cup {0}, active : BOOLEAN]]
  <2>1. Allocate(a) \in [ARs -> [p_ar : ARs \cup {0}, active : BOOLEAN]]
    BY <1>2, <1>9, AllocateType
  <2>2. \A i : [Allocate(a) EXCEPT ![i].active = TRUE]
                 \in [ARs -> [p_ar : ARs \cup {0}, active : BOOLEAN]]
    BY <2>1
  <2> QED  BY <1>1, <2>1, <2>2 DEF Activated
<1>15. alarmRx' \in Nat
  BY <1>1, <1>9 DEF RxAfterActivate, TypeOK
<1>16. TypeOK'
  BY <1>10, <1>13, <1>14, <1>15 DEF TypeOK, Events
<1> QED  BY <1>10, <1>12, <1>16 DEF IInv, Links

-----------------------------------------------------------------------------
(* Steps of one AR that is not aborted.                                    *)

\* One slot takes new values; the sessions may change as well.
Becomes(a, q, t, timer, n) ==
  /\ ar' = [ar EXCEPT ![a] = q] /\ told' = [told EXCEPT ![a] = t]
  /\ cmsmTimer' = [cmsmTimer EXCEPT ![a] = timer] /\ polls' = [polls EXCEPT ![a] = n]
  /\ sess' \in [Sessions -> SessType] /\ UNCHANGED alarms
  /\ q \in ArType /\ t \in {"none"} \cup Events /\ timer \in BOOLEAN /\ n \in Nat
  /\ SlotOK(q, t, timer, n)

\* The types and the slots survive a change of one slot.
LEMMA SlotStep ==
  ASSUME TypeOK, SlotsOK, NEW a \in ARs, NEW q, NEW t, NEW timer, NEW n,
         Becomes(a, q, t, timer, n)
  PROVE  TypeOK' /\ SlotsOK'
<1> USE DEF Becomes
<1>1. /\ ar \in [ARs -> ArType] /\ cmsmTimer \in [ARs -> BOOLEAN] /\ polls \in [ARs -> Nat]
      /\ told \in [ARs -> {"none"} \cup Events] /\ alarmRx \in Nat
      /\ endpoint \in [ARs -> [p_ar : ARs \cup {0}, active : BOOLEAN]]
  BY DEF TypeOK, Events
<1>2. ar' \in [ARs -> ArType]  BY <1>1
<1>3. told' \in [ARs -> {"none"} \cup Events]  BY <1>1
<1>4. cmsmTimer' \in [ARs -> BOOLEAN] /\ polls' \in [ARs -> Nat]  BY <1>1
<1>5. endpoint' = endpoint /\ alarmRx' = alarmRx  BY DEF alarms
<1>6. TypeOK'  BY <1>1, <1>2, <1>3, <1>4, <1>5 DEF TypeOK, Events
<1>7. ASSUME NEW b \in ARs PROVE SlotOK(ar'[b], told'[b], cmsmTimer'[b], polls'[b])
  <2>1. CASE b = a
    <3>1. ar'[b] = q /\ told'[b] = t /\ cmsmTimer'[b] = timer /\ polls'[b] = n
      BY <1>1, <2>1
    <3> QED  BY <3>1, Zenon
  <2>2. CASE b # a
    <3>1. /\ ar'[b] = ar[b] /\ told'[b] = told[b] /\ cmsmTimer'[b] = cmsmTimer[b]
          /\ polls'[b] = polls[b]
      BY <1>1, <2>2
    <3>2. SlotOK(ar[b], told[b], cmsmTimer[b], polls[b])  BY DEF SlotsOK
    <3> QED  BY <3>1, <3>2, Zenon
  <2> QED  BY <2>1, <2>2
<1> QED  BY <1>6, <1>7, Zenon DEF SlotsOK

\* Only the record changes, and neither its name, its session nor the wait
\* for a confirmation.
LEMMA RecordStep ==
  ASSUME IInv, NEW a \in ARs, NEW q \in ArType, ar' = [ar EXCEPT ![a] = q],
         UNCHANGED <<sess, alarms, timers, told>>,
         SlotOK(q, told[a], cmsmTimer[a], polls[a]),
         q.in_use = ar[a].in_use, q.uuid = ar[a].uuid, q.p_sess = ar[a].p_sess,
         q.cmdev = "W_ARDYCNF" <=> ar[a].cmdev = "W_ARDYCNF"
  PROVE  IInv'
<1> DEFINE t == told[a]   timer == cmsmTimer[a]   n == polls[a]
<1>1. TypeOK /\ SlotsOK /\ Links  BY DEF IInv, Links
<1>2. told' = [told EXCEPT ![a] = t] /\ t \in {"none"} \cup Events
  BY <1>1 DEF TypeOK, Events
<1>3. cmsmTimer' = [cmsmTimer EXCEPT ![a] = timer] /\ timer \in BOOLEAN
  BY <1>1 DEF TypeOK, timers
<1>4. polls' = [polls EXCEPT ![a] = n] /\ n \in Nat
  BY <1>1 DEF TypeOK, timers
<1>5. sess' \in [Sessions -> SessType] /\ UNCHANGED alarms  BY <1>1 DEF TypeOK
<1>6. SlotOK(q, t, timer, n)  OBVIOUS
<1> HIDE DEF t, timer, n
<1>7. TypeOK' /\ SlotsOK'
  <2>1. Becomes(a, q, t, timer, n)  BY <1>2, <1>3, <1>4, <1>5, <1>6 DEF Becomes
  <2> QED  BY <1>1, <2>1, SlotStep
<1>8. Links'
  <2>1. \A b \in ARs : /\ ar'[b].in_use = ar[b].in_use /\ ar'[b].uuid = ar[b].uuid
                       /\ ar'[b].p_sess = ar[b].p_sess
                       /\ ar'[b].cmdev = "W_ARDYCNF" <=> ar[b].cmdev = "W_ARDYCNF"
    BY <1>1 DEF TypeOK
  <2>2. \A s \in Sessions : sess'[s] = sess[s]  OBVIOUS
  <2> QED  BY <1>1, <2>1, <2>2, SameLinks
<1> QED  BY <1>7, <1>8 DEF IInv, Links

\* The same with the sessions: only their timers and counters change.
LEMMA SessionStepInv ==
  ASSUME IInv, UNCHANGED <<ar, alarms, timers, told>>, sess' \in [Sessions -> SessType],
         \A s \in Sessions : /\ sess'[s].in_use = sess[s].in_use /\ sess'[s].from_me = sess[s].from_me
                             /\ sess'[s].act = sess[s].act /\ sess'[s].p_ar = sess[s].p_ar
                             /\ sess'[s].epm = sess[s].epm
  PROVE  IInv'
<1>1. TypeOK /\ SlotsOK /\ Links  BY DEF IInv, Links
<1>2. TypeOK'  BY <1>1 DEF TypeOK, alarms, timers
<1>3. SlotsOK'  BY <1>1 DEF SlotsOK, timers
<1>4. Links'
  <2>1. \A b \in ARs : ar'[b] = ar[b]  OBVIOUS
  <2> QED  BY <1>1, <2>1, SameLinks
<1> QED  BY <1>2, <1>3, <1>4 DEF IInv, Links

\* Nothing but the AR table's own abort, on behalf of any handler.
LEMMA PlainAbort ==
  ASSUME IInv, NEW S \in SUBSET ARs, NEW rs, rs \in [ARs -> ArType],
         \A b \in ARs : b \notin S => rs[b] = ar[b], Aborts(S, rs, sess)
  PROVE  IInv'
<1>1. Aborts(S, rs, Clear(sess, {}, NoSess))
  BY ClearNothing DEF IInv
<1>2. {} \in SUBSET Sessions /\ \A s \in {} : \/ s \in Gone(S) \/ ~ sess[s].in_use
                                              \/ ~ sess[s].from_me /\ sess[s].p_ar = 0
  OBVIOUS
<1> QED  BY <1>1, <1>2, AbortInv DEF IInv, Links

\* The same with the AR table as it is.
LEMMA AbortSelf ==
  ASSUME IInv, NEW S \in SUBSET ARs, Aborts(S, ar, sess) PROVE IInv'
BY PlainAbort DEF IInv, TypeOK

\* The parameters end: the AR of the session is the AR that was asked for.
LEMMA PrmEndInv ==
  ASSUME IInv, Orderly, NEW u \in Uuids, NEW act \in Acts, NEW s \in Sessions,
         MayUse(u, act), Serves(s, act), NEW a \in ArOf(u), NEW ppmOk \in BOOLEAN,
         PrmEnd(a, act, s, ppmOk)
  PROVE  IInv'
<1> DEFINE r  == [ar[a] EXCEPT !.cmdev = "W_ARDY"]
           rs == [ar EXCEPT ![a].cmdev = "W_ARDY"]
<1>1. /\ a \in ARs /\ ar[a].in_use
      /\ sess[s].p_ar = a
      /\ Session(s, act) = sess[s] /\ With(s, act) = sess
  BY Conversation
<1>2. a # 0 /\ ar[a].cmdev = "W_PEIND"  BY <1>1, IndexSets DEF PrmEnd
<1>3. TypeOK /\ SlotsOK /\ Links /\ ar \in [ARs -> ArType] /\ ar[a] \in ArType
  BY <1>1 DEF IInv, Links, TypeOK
<1>4. r \in ArType  BY <1>3, FieldTypes DEF Releasable
<1>5. rs[a] = r /\ rs \in [ARs -> ArType] /\ \A b \in ARs : b # a => rs[b] = ar[b]
  BY <1>1, <1>3, <1>4
<1>6. \/ ppmOk /\ Event(a, r, "PRMEND", rs, sess) /\ UNCHANGED alarms
      \/ ~ppmOk /\ Aborts({a}, rs, sess)
  BY <1>1, <1>2, <1>5 DEF PrmEnd
<1> HIDE DEF rs
<1>7. CASE Event(a, r, "PRMEND", rs, sess) /\ UNCHANGED alarms
  <2>1. SlotOK(ar[a], told[a], cmsmTimer[a], polls[a])  BY <1>1, <1>3 DEF SlotsOK
  <2>2. cmsmTimer[a] \in BOOLEAN /\ polls[a] \in Nat  BY <1>1, <1>3 DEF TypeOK
  <2>3. SlotOK(Indicated(r, "PRMEND"), "PRMEND", TimerAfter(r, cmsmTimer[a], "PRMEND"),
               PollCount(r, polls[a], "PRMEND"))
    BY <1>2, <1>3, <2>1, <2>2, PrmEndSlot
  <2>4. "PRMEND" \in Events  BY DEF Events
  <2>5. r.in_use = ar[a].in_use /\ r.uuid = ar[a].uuid /\ r.p_sess = ar[a].p_sess /\ r.cmdev = "W_ARDY"
    BY <1>3 DEF ArType
  <2> HIDE DEF r
  <2>6. /\ ar' \in [ARs -> ArType] /\ cmsmTimer' \in [ARs -> BOOLEAN]
        /\ polls' \in [ARs -> Nat] /\ told' \in [ARs -> {"none"} \cup Events]
        /\ ar'[a] = Indicated(r, "PRMEND") /\ \A b \in ARs : b # a => ar'[b] = ar[b]
        /\ sess' = sess
        /\ SlotsOK'
    BY <1>1, <1>3, <1>4, <1>5, <1>7, <2>3, <2>4, EventSlots
  <2>7. TypeOK'  BY <1>3, <1>7, <2>6 DEF TypeOK, Events, alarms
  <2>8. /\ ar'[a].in_use = r.in_use /\ ar'[a].uuid = r.uuid
        /\ ar'[a].p_sess = r.p_sess /\ ar'[a].cmdev = r.cmdev
    BY <1>4, <2>4, <2>6, IndicatedType
  <2>9. \A b \in ARs : /\ ar'[b].in_use = ar[b].in_use /\ ar'[b].uuid = ar[b].uuid
                       /\ ar'[b].p_sess = ar[b].p_sess
                       /\ ar'[b].cmdev = "W_ARDYCNF" <=> ar[b].cmdev = "W_ARDYCNF"
    BY <1>2, <2>5, <2>6, <2>8
  <2>10. Links'  BY <1>3, <2>6, <2>9, SameLinks
  <2> QED  BY <2>6, <2>7, <2>10 DEF IInv, Links
<1>8. CASE Aborts({a}, rs, sess)
  BY <1>1, <1>5, <1>8, PlainAbort
<1> QED  BY <1>6, <1>7, <1>8

\* A DControl request for a known AR.
LEMMA DControlInv ==
  ASSUME IInv, Orderly, NEW u \in Uuids, NEW act \in Acts, NEW s \in Sessions,
         DControl(u, act, s)
  PROVE  IInv'
<1>1. MayUse(u, act) /\ Serves(s, act)  BY DEF DControl
<1>2. PICK a \in ArOf(u) : \/ \E ppmOk \in BOOLEAN : PrmEnd(a, act, s, ppmOk)
                           \/ PrmBegin(a, act, s) \/ DControlFails(a, act, s)
                           \/ DControlIgnored(a, act, s)
  BY DEF DControl
<1>3. a \in ARs /\ ar[a].in_use /\ With(s, act) = sess
  BY <1>1, Conversation
<1>4. CASE \E ppmOk \in BOOLEAN : PrmEnd(a, act, s, ppmOk)
  BY <1>1, <1>4, PrmEndInv
<1>5. CASE PrmBegin(a, act, s)
  <2> DEFINE q1 == [ar[a] EXCEPT !.cmpbe = "WFRSP"]
             q  == [q1 EXCEPT !.alarm_enable = FALSE]
  <2>1. /\ ar[a].cmdev = "DATA" /\ UNCHANGED <<sess, alarms, timers, told>>
    BY <1>3, <1>5 DEF PrmBegin
  <2>2. ar \in [ARs -> ArType] /\ ar[a] \in ArType  BY <1>3 DEF IInv, TypeOK
  <2>3. ar' = [ar EXCEPT ![a] = q]  BY <1>3, <1>5, <2>2 DEF PrmBegin
  <2>4. q \in ArType
    <3>1. q1 \in ArType  BY <2>2, FieldTypes
    <3> HIDE DEF q1
    <3> QED  BY <3>1, FieldTypes
  <2>5. /\ q.in_use = ar[a].in_use /\ q.uuid = ar[a].uuid /\ q.p_sess = ar[a].p_sess
        /\ q.cmdev = ar[a].cmdev
    BY <2>2 DEF ArType
  <2>6. SlotOK(q, told[a], cmsmTimer[a], polls[a])
    BY <1>3, <2>1, <2>2 DEF IInv, SlotsOK, SlotOK, InStep, ArType
  <2> HIDE DEF q
  <2> QED  BY <1>3, <2>1, <2>3, <2>4, <2>5, <2>6, RecordStep
<1>6. CASE DControlFails(a, act, s)
  BY <1>3, <1>6, AbortSelf DEF DControlFails
<1>7. CASE DControlIgnored(a, act, s)
  <2>1. UNCHANGED <<ar, sess, alarms, timers, told>>  BY <1>3, <1>7 DEF DControlIgnored
  <2> QED  BY <2>1, SessionStepInv DEF IInv, TypeOK
<1> QED  BY <1>2, <1>4, <1>5, <1>6, <1>7

-----------------------------------------------------------------------------
(* The application, the confirmations and the timers.                      *)

\* A CControl session s opens for AR a, or closes.
Asks(s, a) ==
  /\ ~ sess[s].in_use /\ ar[a].in_use /\ ar[a].cmdev = "W_ARDY"
  /\ ar'[a].in_use = ar[a].in_use /\ ar'[a].uuid = ar[a].uuid /\ ar'[a].p_sess = ar[a].p_sess
  /\ ar'[a].cmdev = "W_ARDYCNF"
  /\ \A b \in ARs : b # a => ar'[b] = ar[b]
  /\ sess'[s].in_use /\ sess'[s].from_me /\ sess'[s].act = NoAct /\ sess'[s].p_ar = a
  /\ ~ sess'[s].epm
  /\ \A t \in Sessions : t # s => sess'[t] = sess[t]

\* A CControl session is the only one of its AR.
LEMMA AskLinks ==
  ASSUME TypeOK, Links, NEW s \in Sessions, NEW a \in ARs, Asks(s, a)
  PROVE  Links'
<1> USE DEF Asks
<1>1. \A b \in ARs : /\ ar'[b].in_use = ar[b].in_use /\ ar'[b].uuid = ar[b].uuid
                     /\ ar'[b].p_sess = ar[b].p_sess
  OBVIOUS
<1>2. \A t \in Sessions : t # s => sess'[t] = sess[t]  OBVIOUS
<1>3. \A t \in Sessions : sess[t].p_ar \in ARs \cup {0}  BY DEF TypeOK, SessType
<1>4. Outgoing'
  <2> SUFFICES ASSUME NEW t \in Sessions, sess'[t].in_use, sess'[t].from_me
               PROVE  /\ sess'[t].p_ar \in ARs /\ sess'[t].act = NoAct /\ ~ sess'[t].epm
                      /\ ar'[sess'[t].p_ar].in_use /\ ar'[sess'[t].p_ar].cmdev = "W_ARDYCNF"
    BY DEF Outgoing
  <2>1. CASE t = s  BY <2>1
  <2>2. CASE t # s
    <3>1. sess'[t] = sess[t]  BY <2>2
    <3>2. sess[t].p_ar # a  BY <3>1 DEF Links, Outgoing
    <3> QED  BY <3>1, <3>2 DEF Links, Outgoing
  <2> QED  BY <2>1, <2>2
<1>5. Incoming'
  <2> SUFFICES ASSUME NEW t \in Sessions, sess'[t].in_use, ~ sess'[t].from_me
               PROVE  /\ sess'[t].act \in Acts
                      /\ sess'[t].p_ar # 0 =>
                           /\ ar'[sess'[t].p_ar].in_use /\ ar'[sess'[t].p_ar].p_sess = t
                           /\ ar'[sess'[t].p_ar].uuid \in Uuids
                           /\ sess'[t].act = Home[ar'[sess'[t].p_ar].uuid]
                      /\ sess'[t].epm => sess'[t].act \in Lookups
    BY DEF Incoming
  <2>1. sess'[t] = sess[t]  BY <1>2
  <2> HIDE DEF Asks
  <2> QED  BY <1>1, <1>3, <2>1 DEF Links, Incoming
<1>6. Owned'
  <2> SUFFICES ASSUME NEW b \in ARs, ar'[b].in_use
               PROVE  /\ ar'[b].p_sess \in Sessions /\ sess'[ar'[b].p_sess].in_use
                      /\ ~ sess'[ar'[b].p_sess].from_me /\ sess'[ar'[b].p_sess].p_ar = b
    BY DEF Owned
  <2>1. ar[b].p_sess \in Sessions /\ sess[ar[b].p_sess].in_use  BY <1>1 DEF Links, Owned
  <2>2. ar[b].p_sess # s  BY <2>1
  <2> HIDE DEF Asks
  <2> QED  BY <1>1, <1>2, <2>1, <2>2 DEF Links, Owned
<1>7. Confirming'
  <2> SUFFICES ASSUME NEW b \in ARs, ar'[b].cmdev = "W_ARDYCNF"
               PROVE  \E t \in Sessions : sess'[t].in_use /\ sess'[t].from_me /\ sess'[t].p_ar = b
    BY DEF Confirming
  <2>1. CASE b = a  BY <2>1
  <2>2. CASE b # a
    <3>1. PICK t \in Sessions : sess[t].in_use /\ sess[t].from_me /\ sess[t].p_ar = b
      BY <2>2 DEF Links, Confirming
    <3> QED  BY <3>1
  <2> QED  BY <2>1, <2>2
<1>8. Unique'
  <2>1. \A t, v \in Sessions : sess'[t].in_use /\ sess'[v].in_use /\ sess'[t].act \in Acts
                               /\ sess'[t].act = sess'[v].act => t = v
    BY ControllerAssumption DEF Links, Unique
  <2>2. \A t \in Sessions : t # s /\ sess'[t].in_use /\ sess'[t].from_me => sess'[t].p_ar # a
    BY DEF Links, Outgoing
  <2>3. \A t, v \in Sessions : sess'[t].in_use /\ sess'[v].in_use /\ sess'[t].from_me
                               /\ sess'[v].from_me /\ sess'[t].p_ar = sess'[v].p_ar => t = v
    BY <2>2 DEF Links, Unique
  <2>4. \A b, c \in ARs : ar'[b].in_use /\ ar'[c].in_use /\ ar'[b].uuid = ar'[c].uuid => b = c
    BY <1>1 DEF Links, Unique
  <2> QED  BY <2>1, <2>3, <2>4 DEF Unique
<1> QED  BY <1>4, <1>5, <1>6, <1>7, <1>8 DEF Links

Confirms(s, a) ==
  /\ sess[s].in_use /\ sess[s].from_me /\ sess[s].p_ar = a
  /\ ar'[a].in_use = ar[a].in_use /\ ar'[a].uuid = ar[a].uuid /\ ar'[a].p_sess = ar[a].p_sess
  /\ ar'[a].cmdev # "W_ARDYCNF"
  /\ \A b \in ARs : b # a => ar'[b] = ar[b]
  /\ ~ sess'[s].in_use
  /\ \A t \in Sessions : t # s => sess'[t] = sess[t]

\* A confirmation takes away the CControl session of its AR only.
LEMMA ConfirmLinks ==
  ASSUME TypeOK, Links, NEW s \in Sessions, NEW a \in ARs, Confirms(s, a)
  PROVE  Links'
<1> USE DEF Confirms
<1>1. \A b \in ARs : /\ ar'[b].in_use = ar[b].in_use /\ ar'[b].uuid = ar[b].uuid
                     /\ ar'[b].p_sess = ar[b].p_sess
  OBVIOUS
<1>2. \A t \in Sessions : sess'[t].in_use => t # s /\ sess'[t] = sess[t]  OBVIOUS
<1>3. \A t \in Sessions : sess[t].p_ar \in ARs \cup {0}  BY DEF TypeOK, SessType
<1>4. Outgoing'
  <2> SUFFICES ASSUME NEW t \in Sessions, sess'[t].in_use, sess'[t].from_me
               PROVE  /\ sess'[t].p_ar \in ARs /\ sess'[t].act = NoAct /\ ~ sess'[t].epm
                      /\ ar'[sess'[t].p_ar].in_use /\ ar'[sess'[t].p_ar].cmdev = "W_ARDYCNF"
    BY DEF Outgoing
  <2>1. t # s /\ sess'[t] = sess[t]  BY <1>2
  <2>2. sess[t].p_ar # a  BY <2>1 DEF Links, Unique
  <2> QED  BY <2>1, <2>2 DEF Links, Outgoing
<1>5. Incoming'
  <2> SUFFICES ASSUME NEW t \in Sessions, sess'[t].in_use, ~ sess'[t].from_me
               PROVE  /\ sess'[t].act \in Acts
                      /\ sess'[t].p_ar # 0 =>
                           /\ ar'[sess'[t].p_ar].in_use /\ ar'[sess'[t].p_ar].p_sess = t
                           /\ ar'[sess'[t].p_ar].uuid \in Uuids
                           /\ sess'[t].act = Home[ar'[sess'[t].p_ar].uuid]
                      /\ sess'[t].epm => sess'[t].act \in Lookups
    BY DEF Incoming
  <2>1. sess'[t] = sess[t]  BY <1>2
  <2> HIDE DEF Confirms
  <2> QED  BY <1>1, <1>3, <2>1 DEF Links, Incoming
<1>6. Owned'
  <2> SUFFICES ASSUME NEW b \in ARs, ar'[b].in_use
               PROVE  /\ ar'[b].p_sess \in Sessions /\ sess'[ar'[b].p_sess].in_use
                      /\ ~ sess'[ar'[b].p_sess].from_me /\ sess'[ar'[b].p_sess].p_ar = b
    BY DEF Owned
  <2>1. /\ ar[b].p_sess \in Sessions /\ sess[ar[b].p_sess].in_use
        /\ ~ sess[ar[b].p_sess].from_me /\ sess[ar[b].p_sess].p_ar = b
    BY <1>1 DEF Links, Owned
  <2>2. ar[b].p_sess # s  BY <2>1
  <2>3. sess'[ar[b].p_sess] = sess[ar[b].p_sess]  BY <2>1, <2>2
  <2> HIDE DEF Confirms
  <2> QED  BY <1>1, <2>1, <2>3
<1>7. Confirming'
  <2> SUFFICES ASSUME NEW b \in ARs, ar'[b].cmdev = "W_ARDYCNF"
               PROVE  \E t \in Sessions : sess'[t].in_use /\ sess'[t].from_me /\ sess'[t].p_ar = b
    BY DEF Confirming
  <2>1. b # a /\ ar'[b] = ar[b]  OBVIOUS
  <2>2. PICK t \in Sessions : sess[t].in_use /\ sess[t].from_me /\ sess[t].p_ar = b
    BY <2>1 DEF Links, Confirming
  <2> QED  BY <2>1, <2>2
<1>8. Unique'  BY <1>1, <1>2 DEF Links, Unique
<1> QED  BY <1>4, <1>5, <1>6, <1>7, <1>8 DEF Links

\* The record of an AR to which an event r, ev is told keeps its names.
LEMMA EventKeeps ==
  ASSUME NEW r \in ArType, NEW q \in ArType, NEW ev \in Events, NEW c \in {"POWER_ON", "W_CIND"} \cup Releasable,
         q = [r EXCEPT !.cmdev = c]
  PROVE  /\ q.in_use = r.in_use /\ q.uuid = r.uuid /\ q.p_sess = r.p_sess /\ q.cmdev = c
         /\ Indicated(q, ev).in_use = r.in_use /\ Indicated(q, ev).uuid = r.uuid
         /\ Indicated(q, ev).p_sess = r.p_sess /\ Indicated(q, ev).cmdev = c
<1>1. q.in_use = r.in_use /\ q.uuid = r.uuid /\ q.p_sess = r.p_sess /\ q.cmdev = c
  BY DEF ArType
<1> QED  BY <1>1, IndicatedType

\* The application is ready.
LEMMA AppReadyInv ==
  ASSUME IInv, NEW a \in ARs, NEW sent \in BOOLEAN, AppReady(a, sent)
  PROVE  IInv'
<1> DEFINE c  == IF FreeSess = {} THEN "W_ARDY" ELSE "W_ARDYCNF"
           r  == [ar[a] EXCEPT !.cmdev = c]
           s  == First(FreeSess)
           one == [NoSess EXCEPT !.in_use = TRUE, !.from_me = TRUE, !.p_ar = a,
                                 !.tries = Resends - 1, !.armed = sent]
           ss == IF FreeSess = {} THEN sess ELSE [sess EXCEPT ![s] = one]
<1>1. ar[a].cmdev = "W_ARDY" /\ Event(a, r, "APPLRDY", ar, ss) /\ UNCHANGED alarms
  BY DEF AppReady
<1>2. TypeOK /\ SlotsOK /\ Links /\ ar \in [ARs -> ArType] /\ ar[a] \in ArType
      /\ sess \in [Sessions -> SessType]
  BY DEF IInv, Links, TypeOK
<1>3. c \in {"W_ARDY", "W_ARDYCNF"} /\ c \in {"POWER_ON", "W_CIND"} \cup Releasable
  BY DEF Releasable
<1>4. FreeSess # {} => s \in Sessions /\ ~ sess[s].in_use
  <2>1. FreeSess \in SUBSET Nat  BY IndexSets DEF FreeSess
  <2>2. FreeSess # {} => s \in FreeSess  BY <2>1, FirstIn
  <2> QED  BY <2>2 DEF FreeSess
<1>5. /\ one \in SessType /\ one.in_use /\ one.from_me /\ one.act = NoAct /\ one.p_ar = a
      /\ ~ one.epm
  <2> DEFINE f1 == [NoSess EXCEPT !.in_use = TRUE]    f2 == [f1 EXCEPT !.from_me = TRUE]
             f3 == [f2 EXCEPT !.p_ar = a]             f4 == [f3 EXCEPT !.tries = Resends - 1]
             f5 == [f4 EXCEPT !.armed = sent]
  <2>1. one = f5  OBVIOUS
  <2>2. f5.in_use /\ f5.from_me /\ f5.act = NoAct /\ f5.p_ar = a /\ ~ f5.epm  BY DEF NoSess
  <2>3. Resends - 1 \in 0 .. Resends  BY SizeAssumption
  <2> HIDE DEF f1, f2, f3, f4, f5, one
  <2>4. f1 \in SessType /\ f2 \in SessType  BY NoSessType DEF SessType, f1, f2
  <2>5. f3 \in SessType /\ f4 \in SessType  BY <2>3, <2>4 DEF SessType, f3, f4
  <2>6. f5 \in SessType  BY <2>5 DEF SessType, f5
  <2> QED  BY <2>1, <2>2, <2>6
<1>6. ss \in [Sessions -> SessType]  BY <1>2, <1>5
<1>7. r \in ArType /\ "APPLRDY" \in Events
  <2>1. [ar[a] EXCEPT !.cmdev = c] \in ArType  BY <1>2, <1>3, FieldTypes
  <2> QED  BY <2>1 DEF Events
<1>8. SlotOK(ar[a], told[a], cmsmTimer[a], polls[a])  BY <1>2 DEF SlotsOK
<1>9. ar[a].in_use  BY <1>1, <1>8, NoArType DEF SlotOK
<1>10. SlotOK(Indicated(r, "APPLRDY"), "APPLRDY", TimerAfter(r, cmsmTimer[a], "APPLRDY"),
              PollCount(r, polls[a], "APPLRDY"))
  <2>1. cmsmTimer[a] \in BOOLEAN /\ polls[a] \in Nat  BY <1>2 DEF TypeOK
  <2> HIDE DEF c
  <2> QED  BY <1>1, <1>2, <1>3, <1>8, <2>1, ReadySlot
<1>11. /\ Indicated(r, "APPLRDY").in_use = ar[a].in_use
       /\ Indicated(r, "APPLRDY").uuid = ar[a].uuid
       /\ Indicated(r, "APPLRDY").p_sess = ar[a].p_sess /\ Indicated(r, "APPLRDY").cmdev = c
  <2> HIDE DEF c
  <2> QED  BY <1>2, <1>3, <1>7, EventKeeps
<1> HIDE DEF r, one
<1>12. /\ ar' \in [ARs -> ArType] /\ cmsmTimer' \in [ARs -> BOOLEAN]
       /\ polls' \in [ARs -> Nat] /\ told' \in [ARs -> {"none"} \cup Events]
       /\ ar'[a] = Indicated(r, "APPLRDY") /\ \A b \in ARs : b # a => ar'[b] = ar[b]
       /\ sess' = ss
       /\ SlotsOK'
  <2> HIDE DEF ss
  <2> QED  BY <1>1, <1>2, <1>7, <1>10, EventSlots
<1>13. TypeOK'  BY <1>1, <1>2, <1>6, <1>12 DEF TypeOK, Events, alarms
<1>14. Links'
  <2>1. CASE FreeSess = {}
    <3>1. sess' = sess /\ ar'[a].cmdev = "W_ARDY"  BY <1>11, <1>12, <2>1
    <3>2. \A b \in ARs : /\ ar'[b].in_use = ar[b].in_use /\ ar'[b].uuid = ar[b].uuid
                         /\ ar'[b].p_sess = ar[b].p_sess
                         /\ ar'[b].cmdev = "W_ARDYCNF" <=> ar[b].cmdev = "W_ARDYCNF"
      BY <1>1, <1>11, <1>12, <3>1
    <3> QED  BY <1>2, <3>1, <3>2, SameLinks
  <2>2. CASE FreeSess # {}
    <3>1. /\ s \in Sessions /\ ~ sess[s].in_use /\ sess'[s] = one
          /\ \A t \in Sessions : t # s => sess'[t] = sess[t]
      BY <1>2, <1>4, <1>12, <2>2
    <3>2. ar'[a].cmdev = "W_ARDYCNF"  BY <1>11, <1>12, <2>2
    <3> HIDE DEF s, c, ss
    <3>3. Asks(s, a)
      BY <1>1, <1>5, <1>9, <1>11, <1>12, <3>1, <3>2 DEF Asks
    <3> QED  BY <1>2, <3>1, <3>3, AskLinks
  <2> QED  BY <2>1, <2>2
<1> QED  BY <1>12, <1>13, <1>14 DEF IInv, Links

\* The resend timer of a CControl session.
LEMMA ResendInv ==
  ASSUME IInv, NEW s \in Sessions, NEW sent \in BOOLEAN, Resend(s, sent)
  PROVE  IInv'
<1>1. sess \in [Sessions -> SessType] /\ sess[s] \in SessType  BY DEF IInv, TypeOK
<1>2. CASE sess[s].tries > 0
  <2>1. /\ sess' = [sess EXCEPT ![s].tries = @ - 1, ![s].armed = sent]
        /\ UNCHANGED <<ar, alarms, timers, told>>
    BY <1>2 DEF Resend
  <2>2. sess[s].tries - 1 \in 0 .. Resends  BY <1>1, <1>2, SizeAssumption DEF SessType
  <2>3. sess' \in [Sessions -> SessType]
    <3>1. sess'[s] = [[sess[s] EXCEPT !.tries = sess[s].tries - 1] EXCEPT !.armed = sent]
      BY <1>1, <2>1
    <3>2. sess'[s] \in SessType  BY <1>1, <2>2, <3>1 DEF SessType
    <3>3. sess' = [sess EXCEPT ![s] = sess'[s]]  BY <1>1, <2>1
    <3> QED  BY <1>1, <3>2, <3>3
  <2>4. \A t \in Sessions :
          /\ sess'[t].in_use = sess[t].in_use /\ sess'[t].from_me = sess[t].from_me
          /\ sess'[t].act = sess[t].act /\ sess'[t].p_ar = sess[t].p_ar
          /\ sess'[t].epm = sess[t].epm
    BY <1>1, <2>1 DEF SessType
  <2> QED  BY <2>1, <2>3, <2>4, SessionStepInv
<1>3. CASE ~ (sess[s].tries > 0)
  <2>1. Aborts({sess[s].p_ar}, ar, sess) /\ sess[s].in_use /\ sess[s].from_me
    BY <1>3 DEF Resend
  <2>2. sess[s].p_ar \in ARs  BY <2>1 DEF IInv, Outgoing
  <2> QED  BY <2>1, <2>2, AbortSelf
<1> QED  BY <1>2, <1>3

\* The confirmation, before or after the cyclic data.
LEMMA CControlCnfInv ==
  ASSUME IInv, NEW s \in Sessions, CControlCnf(s)
  PROVE  IInv'
<1> DEFINE a == sess[s].p_ar
           ready == ar[a].ready_4_data
           c == IF ready THEN "DATA" ELSE "WDATA"
           q == [ar[a] EXCEPT !.alarm_enable = TRUE]
           r == [q EXCEPT !.cmdev = c]
<1>1. /\ sess[s].in_use /\ sess[s].from_me /\ ar[a].cmdev = "W_ARDYCNF" /\ UNCHANGED alarms
      /\ IF ready THEN Event(a, r, "DATA", ar, Kill(s))
         ELSE ar' = [ar EXCEPT ![a] = r] /\ sess' = Kill(s) /\ UNCHANGED <<timers, told>>
  BY DEF CControlCnf
<1>2. a \in ARs  BY <1>1 DEF IInv, Outgoing
<1>3. TypeOK /\ SlotsOK /\ Links /\ ar \in [ARs -> ArType] /\ ar[a] \in ArType
      /\ sess \in [Sessions -> SessType]
  BY <1>2 DEF IInv, Links, TypeOK
<1>4. Kill(s) = [t \in Sessions |-> IF t = s THEN NoSess ELSE sess[t]]
  BY <1>3 DEF Kill, Clear
<1>5. Kill(s) \in [Sessions -> SessType]  BY <1>3, <1>4, NoSessType
<1>6. SlotOK(ar[a], told[a], cmsmTimer[a], polls[a]) /\ cmsmTimer[a] \in BOOLEAN /\ polls[a] \in Nat
      /\ told[a] \in {"none"} \cup Events
  BY <1>2, <1>3 DEF SlotsOK, TypeOK, Events
<1>7. q \in ArType /\ r \in ArType
  <2>1. q \in ArType  BY <1>3, FieldTypes
  <2>2. c \in {"POWER_ON", "W_CIND"} \cup Releasable  BY DEF Releasable
  <2> HIDE DEF q, c
  <2> QED  BY <2>1, <2>2, FieldTypes
<1>8. /\ r.in_use = ar[a].in_use /\ r.uuid = ar[a].uuid /\ r.p_sess = ar[a].p_sess /\ r.cmdev = c
  BY <1>3 DEF ArType
<1>9. "DATA" \in Events  BY DEF Events
<1>10. CASE ready
  <2>1. Event(a, r, "DATA", ar, Kill(s)) /\ c = "DATA"  BY <1>1, <1>10
  <2>2. SlotOK(Indicated(r, "DATA"), "DATA", TimerAfter(r, cmsmTimer[a], "DATA"),
               PollCount(r, polls[a], "DATA"))
    <3>1. r = Confirmed(ar[a])  BY <2>1 DEF Confirmed
    <3> HIDE DEF a, r, q, c, ready
    <3>2. SlotOK(Indicated(Confirmed(ar[a]), "DATA"), "DATA",
                 TimerAfter(Confirmed(ar[a]), cmsmTimer[a], "DATA"),
                 PollCount(Confirmed(ar[a]), polls[a], "DATA"))
      BY <1>1, <1>3, <1>6, CnfSlot
    <3> QED  BY <3>1, <3>2
  <2> HIDE DEF r
  <2>3. /\ ar' \in [ARs -> ArType] /\ cmsmTimer' \in [ARs -> BOOLEAN]
        /\ polls' \in [ARs -> Nat] /\ told' \in [ARs -> {"none"} \cup Events]
        /\ ar'[a] = Indicated(r, "DATA") /\ \A b \in ARs : b # a => ar'[b] = ar[b]
        /\ sess' = Kill(s)
        /\ SlotsOK'
    <3> HIDE DEF a
    <3> QED  BY <1>2, <1>3, <1>7, <1>9, <2>1, <2>2, EventSlots
  <2>4. TypeOK'  BY <1>1, <1>3, <1>5, <2>3 DEF TypeOK, Events, alarms
  <2>5. /\ ar'[a].in_use = ar[a].in_use /\ ar'[a].uuid = ar[a].uuid
        /\ ar'[a].p_sess = ar[a].p_sess /\ ar'[a].cmdev # "W_ARDYCNF"
    BY <1>7, <1>8, <1>9, <2>1, <2>3, IndicatedType
  <2>6. Confirms(s, a)
    <3>1. ~ sess'[s].in_use /\ \A t \in Sessions : t # s => sess'[t] = sess[t]
      BY <1>4, <2>3, NoSessType
    <3> QED  BY <1>1, <2>3, <2>5, <3>1 DEF Confirms
  <2>7. Links'  BY <1>2, <1>3, <2>6, ConfirmLinks
  <2> QED  BY <2>3, <2>4, <2>7 DEF IInv, Links
<1>11. CASE ~ ready
  <2>1. ar' = [ar EXCEPT ![a] = r] /\ sess' = Kill(s) /\ UNCHANGED <<timers, told>> /\ c = "WDATA"
    BY <1>1, <1>11
  <2>2. SlotOK(r, told[a], cmsmTimer[a], polls[a])
    BY <1>1, <1>3, <1>6, <2>1 DEF SlotOK, InStep, NoAr, ArType
  <2> DEFINE t == told[a]   timer == cmsmTimer[a]   n == polls[a]
  <2>3. told' = [told EXCEPT ![a] = t] /\ cmsmTimer' = [cmsmTimer EXCEPT ![a] = timer]
        /\ polls' = [polls EXCEPT ![a] = n]
    BY <1>3, <2>1 DEF TypeOK, timers
  <2>4. Becomes(a, r, t, timer, n)
    <3> HIDE DEF r, a
    <3> QED  BY <1>1, <1>5, <1>6, <1>7, <2>1, <2>2, <2>3 DEF Becomes
  <2>5. TypeOK' /\ SlotsOK'
    <3> HIDE DEF r, a, t, timer, n
    <3> QED  BY <1>2, <1>3, <2>4, SlotStep
  <2>6. Confirms(s, a)
    <3>1. ~ sess'[s].in_use /\ \A v \in Sessions : v # s => sess'[v] = sess[v]
      BY <1>4, <2>1, NoSessType
    <3>2. ar'[a] = r /\ \A b \in ARs : b # a => ar'[b] = ar[b]  BY <1>2, <1>3, <2>1
    <3> HIDE DEF r
    <3> QED  BY <1>1, <1>8, <2>1, <3>1, <3>2 DEF Confirms
  <2>7. Links'  BY <1>2, <1>3, <2>6, ConfirmLinks
  <2> QED  BY <2>5, <2>7 DEF IInv, Links
<1> QED  BY <1>10, <1>11

\* A response that is not the one expected.
LEMMA CControlBadInv ==
  ASSUME IInv, NEW s \in Sessions, CControlBad(s)
  PROVE  IInv'
<1>1. sess \in [Sessions -> SessType] /\ sess[s] \in SessType  BY DEF IInv, TypeOK
<1>2. /\ sess' = [sess EXCEPT ![s].armed = FALSE] /\ UNCHANGED <<ar, alarms, timers, told>>
  BY DEF CControlBad
<1>3. sess' \in [Sessions -> SessType]
  <2>1. [sess[s] EXCEPT !.armed = FALSE] \in SessType  BY <1>1 DEF SessType
  <2> QED  BY <1>1, <1>2, <2>1
<1>4. \A t \in Sessions :
        /\ sess'[t].in_use = sess[t].in_use /\ sess'[t].from_me = sess[t].from_me
        /\ sess'[t].act = sess[t].act /\ sess'[t].p_ar = sess[t].p_ar
        /\ sess'[t].epm = sess[t].epm
  BY <1>1, <1>2 DEF SessType
<1> QED  BY <1>2, <1>3, <1>4, SessionStepInv

\* A fault on a session aborts its AR.
LEMMA PeerFaultInv ==
  ASSUME IInv, NEW s \in Sessions, PeerFault(s)
  PROVE  IInv'
<1> DEFINE S == {sess[s].p_ar} \ {0}
<1>1. sess[s].in_use /\ Aborts(S, ar, Clear(sess, {s}, NoSess))
  BY DEF PeerFault, Kill
<1>2. sess[s].p_ar \in ARs \cup {0} /\ ar \in [ARs -> ArType]
  BY DEF IInv, TypeOK, SessType
<1>3. S \in SUBSET ARs  BY <1>2
<1>4. s \in Gone(S) \/ (~ sess[s].from_me /\ sess[s].p_ar = 0)
  <2>1. CASE sess[s].p_ar = 0
    BY <1>1, <2>1, IndexSets DEF IInv, Outgoing
  <2>2. CASE sess[s].p_ar # 0
    <3>1. sess[s].p_ar \in S  BY <2>2
    <3>2. sess[s].from_me \/ ar[sess[s].p_ar].p_sess = s
      BY <1>1, <2>2 DEF IInv, Incoming
    <3> HIDE DEF S
    <3> QED  BY <3>1, <3>2 DEF Gone
  <2> QED  BY <2>1, <2>2
<1>5. \A t \in {s} : \/ t \in Gone(S) \/ ~ sess[t].in_use
                     \/ ~ sess[t].from_me /\ sess[t].p_ar = 0
  BY <1>4
<1>6. TypeOK /\ SlotsOK /\ Links /\ {s} \in SUBSET Sessions  BY DEF IInv, Links
<1> HIDE DEF S
<1> QED  BY <1>1, <1>2, <1>3, <1>5, <1>6, AbortInv

\* An endpoint lookup opens or marks a session.
LEMMA LookupInv ==
  ASSUME IInv, NEW s \in Sessions, NEW act \in Acts, Lookup(act, s)
  PROVE  IInv'
<1> DEFINE q == [Session(s, act) EXCEPT !.epm = TRUE]
<1>1. /\ act \in Lookups /\ Serves(s, act) /\ sess' = [sess EXCEPT ![s] = q]
      /\ UNCHANGED <<ar, alarms, timers, told>>
  BY DEF Lookup
<1>2. TypeOK /\ SlotsOK /\ Links /\ sess \in [Sessions -> SessType]  BY DEF IInv, Links, TypeOK
<1>3. /\ Session(s, act) \in SessType /\ Session(s, act).in_use
      /\ ~ sess[s].in_use => Session(s, act).act = act /\ ~ Session(s, act).from_me
                             /\ Session(s, act).p_ar = 0 /\ ~ Session(s, act).epm
  BY <1>2, SessionType
<1>4. sess[s].in_use => Session(s, act) = sess[s]  BY DEF Session
<1>5. sess[s].in_use => sess[s].act = act /\ ~ sess[s].from_me
  <2>1. FreeSess # {} => First(FreeSess) \in FreeSess  BY FirstIn, IndexSets DEF FreeSess
  <2>2. sess[s].in_use => sess[s].act = act  BY <1>1, <2>1 DEF Serves, FreeSess
  <2> QED  BY <2>2, ControllerAssumption DEF IInv, Outgoing
<1>6. \A t \in Sessions : sess[t].in_use /\ sess[t].act = act => t = s
  <2> SUFFICES ASSUME NEW t \in Sessions, sess[t].in_use, sess[t].act = act PROVE t = s
    OBVIOUS
  <2>1. sess[s].in_use  BY <1>1 DEF Serves
  <2> QED  BY <1>2, <1>5, <2>1 DEF Links, Unique
<1>7. /\ q \in SessType /\ q.in_use /\ q.act = act /\ ~ q.from_me
      /\ q.p_ar = (IF sess[s].in_use THEN sess[s].p_ar ELSE 0)
  BY <1>3, <1>4, <1>5 DEF SessType
<1> HIDE DEF q
<1>8. sess' \in [Sessions -> SessType] /\ sess'[s] = q
      /\ \A t \in Sessions : t # s => sess'[t] = sess[t]
  BY <1>1, <1>2, <1>7
<1>9. TypeOK'  BY <1>1, <1>2, <1>8 DEF TypeOK, alarms, timers
<1>10. SlotsOK'  BY <1>1, <1>2 DEF SlotsOK, timers
<1>11. Outgoing'
  BY <1>1, <1>2, <1>7, <1>8 DEF Links, Outgoing
<1>12. Incoming'
  <2> SUFFICES ASSUME NEW t \in Sessions, sess'[t].in_use, ~ sess'[t].from_me
               PROVE  /\ sess'[t].act \in Acts
                      /\ sess'[t].p_ar # 0 =>
                           /\ ar[sess'[t].p_ar].in_use /\ ar[sess'[t].p_ar].p_sess = t
                           /\ ar[sess'[t].p_ar].uuid \in Uuids
                           /\ sess'[t].act = Home[ar[sess'[t].p_ar].uuid]
                      /\ sess'[t].epm => sess'[t].act \in Lookups
    BY <1>1 DEF Incoming
  <2>1. CASE t = s  BY <1>1, <1>2, <1>5, <1>7, <1>8, <2>1 DEF Links, Incoming
  <2>2. CASE t # s  BY <1>2, <1>8, <2>2 DEF Links, Incoming
  <2> QED  BY <2>1, <2>2
<1>13. Owned'
  <2> SUFFICES ASSUME NEW a \in ARs, ar[a].in_use
               PROVE  /\ ar[a].p_sess \in Sessions /\ sess'[ar[a].p_sess].in_use
                      /\ ~ sess'[ar[a].p_sess].from_me /\ sess'[ar[a].p_sess].p_ar = a
    BY <1>1 DEF Owned
  <2>1. /\ ar[a].p_sess \in Sessions /\ sess[ar[a].p_sess].in_use
        /\ ~ sess[ar[a].p_sess].from_me /\ sess[ar[a].p_sess].p_ar = a
    BY <1>2 DEF Links, Owned
  <2> QED  BY <1>7, <1>8, <2>1
<1>14. Confirming'
  <2> SUFFICES ASSUME NEW a \in ARs, ar[a].cmdev = "W_ARDYCNF"
               PROVE  \E t \in Sessions : sess'[t].in_use /\ sess'[t].from_me /\ sess'[t].p_ar = a
    BY <1>1 DEF Confirming
  <2>1. PICK t \in Sessions : sess[t].in_use /\ sess[t].from_me /\ sess[t].p_ar = a
    BY <1>2 DEF Links, Confirming
  <2>2. t # s  BY <1>5, <2>1
  <2> QED  BY <1>8, <2>1, <2>2
<1>15. Unique'
  <2>1. \A t, v \in Sessions : sess'[t].in_use /\ sess'[v].in_use /\ sess'[t].act \in Acts
                               /\ sess'[t].act = sess'[v].act => t = v
    BY <1>2, <1>6, <1>7, <1>8 DEF Links, Unique
  <2>2. \A t, v \in Sessions : sess'[t].in_use /\ sess'[v].in_use /\ sess'[t].from_me
                               /\ sess'[v].from_me /\ sess'[t].p_ar = sess'[v].p_ar => t = v
    BY <1>2, <1>7, <1>8 DEF Links, Unique
  <2> QED  BY <1>1, <1>2, <2>1, <2>2 DEF Links, Unique
<1> QED  BY <1>9, <1>10, <1>11, <1>12, <1>13, <1>14, <1>15 DEF IInv

\* The timer of a lookup ends a session that has no AR, since lookups have
\* activities of their own.
LEMMA LookupTimeoutInv ==
  ASSUME IInv, Orderly, NEW s \in Sessions, LookupTimeout(s)
  PROVE  IInv'
<1>1. sess[s].in_use /\ sess[s].epm /\ sess' = Kill(s) /\ UNCHANGED <<ar, alarms, timers, told>>
  BY DEF LookupTimeout
<1>2. ~ sess[s].from_me  BY <1>1 DEF IInv, Outgoing
<1>3. sess[s].p_ar = 0
  BY <1>1, <1>2 DEF IInv, Incoming, Orderly
<1>4. endpoint' \in [ARs -> [p_ar : ARs \cup {0}, active : BOOLEAN]] /\ alarmRx' = alarmRx
  BY <1>1 DEF alarms, IInv, TypeOK
<1> QED  BY <1>1, <1>2, <1>3, <1>4, KillUnowned

\* The poll of CMIO, whether it stops, reports data or goes on.
LEMMA CmioPollInv ==
  ASSUME IInv, NEW a \in ARs, NEW drop \in {0, 1}, CmioPoll(a, drop)
  PROVE  IInv'
<1> DEFINE r == ar[a]
           n == polls[a] - drop
           go == ~ PollStops(r) /\ r.cmdev = "WDATA" /\ r.cmio_start
<1>1. polls[a] > 0 /\ drop <= polls[a] - 1 /\ UNCHANGED <<sess, alarms>>
  BY DEF CmioPoll
<1>2. TypeOK /\ SlotsOK /\ Links /\ r \in ArType /\ polls[a] \in Nat /\ cmsmTimer[a] \in BOOLEAN
      /\ told[a] \in {"none"} \cup Events /\ sess' \in [Sessions -> SessType]
      /\ ar \in [ARs -> ArType] /\ polls \in [ARs -> Nat] /\ cmsmTimer \in [ARs -> BOOLEAN]
      /\ told \in [ARs -> {"none"} \cup Events]
  BY <1>1 DEF IInv, Links, TypeOK, Events
<1>3. SlotOK(r, told[a], cmsmTimer[a], polls[a])  BY <1>2 DEF SlotsOK
<1>4. ASSUME NEW q, NEW t, NEW timer, NEW k, Becomes(a, q, t, timer, k),
             q.in_use = r.in_use, q.uuid = r.uuid, q.p_sess = r.p_sess,
             q.cmdev = "W_ARDYCNF" <=> r.cmdev = "W_ARDYCNF"
      PROVE  IInv'
  <2>1. TypeOK' /\ SlotsOK'  BY <1>2, <1>4, SlotStep
  <2>2. \A b \in ARs : /\ ar'[b].in_use = ar[b].in_use /\ ar'[b].uuid = ar[b].uuid
                       /\ ar'[b].p_sess = ar[b].p_sess
                       /\ ar'[b].cmdev = "W_ARDYCNF" <=> ar[b].cmdev = "W_ARDYCNF"
    BY <1>2, <1>4 DEF Becomes
  <2>3. Links'  BY <1>1, <1>2, <2>2, SameLinks
  <2> QED  BY <2>1, <2>3 DEF IInv, Links
<1>5. CASE PollStops(r)
  <2> DEFINE q == [r EXCEPT !.reschedule = FALSE]  t == told[a]  timer == cmsmTimer[a]
             k == polls[a] - 1
  <2>1. ar' = [ar EXCEPT ![a] = q] /\ polls' = [polls EXCEPT ![a] = k] /\ UNCHANGED <<cmsmTimer, told>>
    BY <1>5 DEF CmioPoll
  <2>2. told' = [told EXCEPT ![a] = t] /\ cmsmTimer' = [cmsmTimer EXCEPT ![a] = timer]
    BY <1>2, <2>1
  <2>3. k \in Nat  BY <1>1, <1>2
  <2>4. q \in ArType  BY <1>2, FieldTypes
  <2>5. /\ q.in_use = r.in_use /\ q.uuid = r.uuid /\ q.p_sess = r.p_sess /\ q.cmdev = r.cmdev
    BY <1>2 DEF ArType
  <2>6. SlotOK(q, t, timer, k)
    <3>1. CASE r.in_use
      BY <1>2, <1>3, <1>5, <3>1 DEF SlotOK, InStep, PollStops, ArType
    <3>2. CASE ~ r.in_use
      <4>1. r = NoAr /\ t = "none" /\ ~ timer  BY <1>3, <3>2 DEF SlotOK
      <4>2. r.reschedule = FALSE  BY <4>1 DEF NoAr
      <4>3. q = r  BY <1>2, <4>2 DEF ArType
      <4> HIDE DEF q
      <4> QED  BY <4>1, <4>3, NoArType DEF SlotOK
    <3> QED  BY <3>1, <3>2
  <2> HIDE DEF q, t, timer, k, r
  <2>7. Becomes(a, q, t, timer, k)
    <3>1. t \in {"none"} \cup Events /\ timer \in BOOLEAN  BY <1>2 DEF t, timer
    <3> QED  BY <1>1, <1>2, <2>1, <2>2, <2>3, <2>4, <2>6, <3>1 DEF Becomes
  <2> QED  BY <1>4, <2>5, <2>7
<1>6. CASE go
  <2> DEFINE q == [Indicated([r EXCEPT !.ready_4_data = TRUE], "DATA") EXCEPT !.cmdev = "DATA"]
             timer == TimerAfter(r, cmsmTimer[a], "DATA")
             k == polls[a] - drop
  <2>1. ar' = [ar EXCEPT ![a] = q] /\ polls' = [polls EXCEPT ![a] = k]
        /\ told' = [told EXCEPT ![a] = "DATA"]
        /\ cmsmTimer' = [cmsmTimer EXCEPT ![a] = timer]
    <3>1. r.cmio_start = TRUE  BY <1>2, <1>6 DEF ArType
    <3>2. /\ ar' = [ar EXCEPT ![a] = [Indicated([r EXCEPT !.ready_4_data = r.cmio_start], "DATA")
                                        EXCEPT !.cmdev = "DATA"]]
          /\ polls' = PollsAfterPoll(a, drop) /\ cmsmTimer' = CmsmTimerAfter(a, r, "DATA")
          /\ told' = [told EXCEPT ![a] = "DATA"]
      BY <1>6 DEF CmioPoll
    <3>3. polls' = [polls EXCEPT ![a] = k]  BY <1>2, <3>2 DEF PollsAfterPoll
    <3>4. cmsmTimer' = [cmsmTimer EXCEPT ![a] = timer]
      BY <1>2, <3>2 DEF CmsmTimerAfter, TimerAfter
    <3> QED  BY <3>1, <3>2, <3>3, <3>4
  <2>2. k \in Nat /\ timer \in BOOLEAN  BY <1>1, <1>2 DEF TimerAfter
  <2>3. "DATA" \in Events /\ "DATA" \in {"none"} \cup Events  BY DEF Events
  <2>4. [r EXCEPT !.ready_4_data = TRUE] \in ArType  BY <1>2, FieldTypes
  <2>5. q \in ArType
    <3>1. Indicated([r EXCEPT !.ready_4_data = TRUE], "DATA") \in ArType
      BY <2>3, <2>4, IndicatedType
    <3> QED  BY <3>1, FieldTypes DEF Releasable
  <2>6. SlotOK(q, "DATA", timer, k)
    <3>1. q = PolledAr(r, TRUE)  BY Zenon DEF PolledAr
    <3>2. r.cmdev = "WDATA"  BY <1>6
    <3>3. cmsmTimer[a] \in BOOLEAN /\ polls[a] \in Nat  BY <1>2
    <3> HIDE DEF q, k, r
    <3> QED  BY <1>2, <1>3, <2>2, <3>1, <3>2, <3>3, PollSlot
  <2>7. /\ q.in_use = r.in_use /\ q.uuid = r.uuid /\ q.p_sess = r.p_sess /\ q.cmdev = "DATA"
    BY <1>2 DEF Indicated, ArType
  <2>8. r.cmdev = "WDATA"  BY <1>6
  <2> HIDE DEF q, timer, k, r
  <2>9. Becomes(a, q, "DATA", timer, k)
    BY <1>1, <1>2, <2>1, <2>2, <2>3, <2>5, <2>6 DEF Becomes
  <2> QED  BY <1>4, <2>7, <2>8, <2>9
<1>7. CASE ~ PollStops(r) /\ ~ go
  <2> DEFINE q == IF r.cmdev \in {"W_ARDY", "W_ARDYCNF", "WDATA"}
                  THEN [r EXCEPT !.ready_4_data = r.cmio_start] ELSE r
             t == told[a]  timer == cmsmTimer[a]  k == polls[a] - drop
  <2>1. ar' = [ar EXCEPT ![a] = q] /\ drop = 0 /\ polls' = PollsAfterPoll(a, drop)
        /\ UNCHANGED <<cmsmTimer, told>>
    BY <1>7 DEF CmioPoll
  <2>2. polls' = [polls EXCEPT ![a] = k] /\ k = polls[a] /\ k \in Nat
    BY <1>2, <2>1 DEF PollsAfterPoll
  <2>3. told' = [told EXCEPT ![a] = t] /\ cmsmTimer' = [cmsmTimer EXCEPT ![a] = timer]
    BY <1>2, <2>1
  <2>4. q \in ArType
    <3>1. r.cmio_start \in BOOLEAN  BY <1>2 DEF ArType
    <3> QED  BY <1>2, <3>1, FieldTypes
  <2>5. /\ q.in_use = r.in_use /\ q.uuid = r.uuid /\ q.p_sess = r.p_sess /\ q.cmdev = r.cmdev
    BY <1>2 DEF ArType
  <2>6. SlotOK(q, t, timer, k)
    <3>1. CASE r.in_use
      BY <1>2, <1>3, <2>2, <3>1 DEF SlotOK, InStep, ArType
    <3>2. CASE ~ r.in_use
      <4>1. r = NoAr  BY <1>3, <3>2 DEF SlotOK
      <4>2. r.cmdev = "POWER_ON"  BY <4>1, NoArType
      <4>3. q = r  BY <4>2
      <4> HIDE DEF q, k
      <4> QED  BY <1>3, <2>2, <4>3
    <3> QED  BY <3>1, <3>2
  <2> HIDE DEF q, t, timer, k, r
  <2>7. Becomes(a, q, t, timer, k)
    <3>1. t \in {"none"} \cup Events /\ timer \in BOOLEAN  BY <1>2 DEF t, timer
    <3> QED  BY <1>1, <1>2, <2>1, <2>2, <2>3, <2>4, <2>6, <3>1 DEF Becomes
  <2> QED  BY <1>4, <2>5, <2>7
<1> QED  BY <1>5, <1>6, <1>7

\* The start-up timer is armed only for an AR that it may abort.
LEMMA CmsmTimeoutInv ==
  ASSUME IInv, NEW a \in ARs, CmsmTimeout(a)
  PROVE  IInv'
<1>1. cmsmTimer[a] /\ SlotOK(ar[a], told[a], cmsmTimer[a], polls[a])
  BY DEF CmsmTimeout, IInv, SlotsOK
<1>2. ar[a].cmsm = "RUN"  BY <1>1 DEF SlotOK
<1>3. Aborts({a}, ar, sess)  BY <1>2 DEF CmsmTimeout
<1> QED  BY <1>3, AbortSelf

\* The CPM of an AR is not part of what the other machines agree on.
LEMMA CpmStepInv ==
  ASSUME IInv, NEW a \in ARs, NEW c \in {"W_START", "FRUN", "RUN"}, NEW d \in BOOLEAN,
         ar[a].cpm # "W_START",
         ar' = [ar EXCEPT ![a].cpm = c, ![a].cmio_start = d],
         UNCHANGED <<sess, alarms, timers, told>>
  PROVE  IInv'
<1> DEFINE q1 == [ar[a] EXCEPT !.cpm = c]
           q  == [q1 EXCEPT !.cmio_start = d]
<1>1. ar \in [ARs -> ArType] /\ ar[a] \in ArType  BY DEF IInv, TypeOK
<1>2. ar' = [ar EXCEPT ![a] = q]  BY <1>1
<1>3. q \in ArType
  <2>1. q1 \in ArType  BY <1>1, FieldTypes
  <2> HIDE DEF q1
  <2> QED  BY <2>1, FieldTypes
<1>4. /\ q.in_use = ar[a].in_use /\ q.uuid = ar[a].uuid /\ q.p_sess = ar[a].p_sess
      /\ q.cmdev = ar[a].cmdev
  BY <1>1 DEF ArType
<1>5. SlotOK(q, told[a], cmsmTimer[a], polls[a])
  <2>1. SlotOK(ar[a], told[a], cmsmTimer[a], polls[a])  BY DEF IInv, SlotsOK
  <2>2. ar[a].in_use  BY <2>1 DEF SlotOK, NoAr
  <2> QED  BY <1>1, <2>1, <2>2 DEF SlotOK, InStep, ArType
<1> HIDE DEF q, q1
<1>6. q.cmdev = "W_ARDYCNF" <=> ar[a].cmdev = "W_ARDYCNF"  BY <1>4
<1>7. q.in_use = ar[a].in_use /\ q.uuid = ar[a].uuid /\ q.p_sess = ar[a].p_sess
  BY <1>4
<1> QED  BY ONLY IInv, a \in ARs, UNCHANGED <<sess, alarms, timers, told>>, <1>2,
            <1>3, <1>5, <1>6, <1>7, RecordStep

\* A cyclic frame.
LEMMA CpmDataInv ==
  ASSUME IInv, NEW a \in ARs, CpmData(a)
  PROVE  IInv'
<1> DEFINE d == ar[a].cmio_start \/ ar[a].cmio = "WDATA"
<1>1. ar \in [ARs -> ArType] /\ ar[a].cmio_start \in BOOLEAN  BY DEF IInv, TypeOK, ArType
<1>2. ar' = [ar EXCEPT ![a].cpm = "RUN", ![a].cmio_start = d]
  BY <1>1 DEF CpmData
<1>3. d \in BOOLEAN /\ ar[a].cpm # "W_START" /\ UNCHANGED <<sess, alarms, timers, told>>
  BY <1>1 DEF CpmData
<1> HIDE DEF d
<1> QED  BY <1>2, <1>3, CpmStepInv

\* The data hold timer.
LEMMA CpmStopInv ==
  ASSUME IInv, NEW a \in ARs, CpmStop(a)
  PROVE  IInv'
<1> DEFINE d == ar[a].cmio_start /\ ar[a].cmio # "WDATA"
<1>1. ar \in [ARs -> ArType] /\ ar[a].cmio_start \in BOOLEAN  BY DEF IInv, TypeOK, ArType
<1>2. CASE Aborts({a}, ar, sess)  BY <1>2, AbortSelf
<1>3. CASE ~ Aborts({a}, ar, sess)
  <2>1. ar' = [ar EXCEPT ![a].cpm = "W_START", ![a].cmio_start = d]
    BY <1>1, <1>3 DEF CpmStop
  <2>2. d \in BOOLEAN /\ ar[a].cpm # "W_START" /\ UNCHANGED <<sess, alarms, timers, told>>
    BY <1>1, <1>3 DEF CpmStop
  <2> HIDE DEF d
  <2> QED  BY <2>1, <2>2, CpmStepInv
<1> QED  BY <1>2, <1>3

-----------------------------------------------------------------------------
(* The inductive invariant.                                                *)

\* The inductive invariant holds at first,
LEMMA InitInv == ASSUME Init PROVE IInv
<1>1. TypeOK
  <2>1. NoEndpoint \in [p_ar : ARs \cup {0}, active : BOOLEAN]  BY DEF NoEndpoint
  <2> QED  BY <2>1, NoArType, NoSessType DEF Init, TypeOK
<1>2. SlotsOK  BY NoArType DEF Init, SlotsOK, SlotOK
<1>3. Outgoing /\ Incoming  BY NoSessType DEF Init, Outgoing, Incoming
<1>4. Owned /\ Confirming  BY NoArType DEF Init, Owned, Confirming
<1>5. Unique  BY NoArType, NoSessType DEF Init, Unique
<1> QED  BY <1>1, <1>2, <1>3, <1>4, <1>5 DEF IInv

\* after every request,
LEMMA RequestInv == ASSUME IInv, Orderly, Request PROVE IInv'
<1>1. PICK u \in Uuids, act \in Acts, s \in Sessions :
        \/ ConnectDuplicate(u, act, s)
        \/ \E why \in {"apdu", "user", "cpm"} : ConnectRefused(u, act, s, why)
        \/ ConnectRefusedSilently(u, act, s)
        \/ ConnectAccepted(u, act, s)
        \/ Release(u, act, s)
        \/ DControlUnknown(u, act, s)
        \/ DControl(u, act, s)
  BY DEF Request
<1>2. CASE ConnectDuplicate(u, act, s)  BY <1>2, ConnectDuplicateInv
<1>3. CASE \E why \in {"apdu", "user", "cpm"} : ConnectRefused(u, act, s, why)
  BY <1>3, ConnectRefusedInv
<1>4. CASE ConnectRefusedSilently(u, act, s)  BY <1>4 DEF ConnectRefusedSilently, Orderly
<1>5. CASE ConnectAccepted(u, act, s)  BY <1>5, ConnectAcceptedInv
<1>6. CASE Release(u, act, s)  BY <1>6, ReleaseInv
<1>7. CASE DControlUnknown(u, act, s)  BY <1>7, DControlUnknownInv
<1>8. CASE DControl(u, act, s)  BY <1>8, DControlInv
<1> QED  BY <1>1, <1>2, <1>3, <1>4, <1>5, <1>6, <1>7, <1>8

\* after every step of a session,
LEMMA SessionInv == ASSUME IInv, Orderly, NEW s \in Sessions, SessionStep(s) PROVE IInv'
<1>1. CASE \E sent \in BOOLEAN : Resend(s, sent)  BY <1>1, ResendInv
<1>2. CASE CControlCnf(s)  BY <1>2, CControlCnfInv
<1>3. CASE CControlBad(s)  BY <1>3, CControlBadInv
<1>4. CASE PeerFault(s)  BY <1>4, PeerFaultInv
<1>5. CASE \E act \in Acts : Lookup(act, s)  BY <1>5, LookupInv
<1>6. CASE LookupTimeout(s)  BY <1>6, LookupTimeoutInv
<1> QED  BY <1>1, <1>2, <1>3, <1>4, <1>5, <1>6 DEF SessionStep

\* after every step of an AR,
LEMMA ArInv == ASSUME IInv, NEW a \in ARs, ArStep(a) PROVE IInv'
<1>1. CASE \E sent \in BOOLEAN : AppReady(a, sent)  BY <1>1, AppReadyInv
<1>2. CASE \E drop \in {0, 1} : CmioPoll(a, drop)  BY <1>2, CmioPollInv
<1>3. CASE CmsmTimeout(a)  BY <1>3, CmsmTimeoutInv
<1>4. CASE CpmData(a)  BY <1>4, CpmDataInv
<1>5. CASE CpmStop(a)  BY <1>5, CpmStopInv
<1>6. CASE StackAbort(a)
  <2>1. Aborts({a}, ar, sess)  BY <1>6 DEF StackAbort
  <2> QED  BY <2>1, AbortSelf
<1> QED  BY <1>1, <1>2, <1>3, <1>4, <1>5, <1>6 DEF ArStep

\* hence after every step,
LEMMA StepInv == ASSUME IInv, Orderly, [Next]_vars PROVE IInv'
<1>1. CASE Request  BY <1>1, RequestInv
<1>2. CASE \E s \in Sessions : SessionStep(s)  BY <1>2, SessionInv
<1>3. CASE \E a \in ARs : ArStep(a)  BY <1>3, ArInv
<1>4. CASE AbortAll
  <2>1. Aborts(Used, ar, sess) /\ Used \in SUBSET ARs  BY <1>4 DEF AbortAll, Used
  <2> QED  BY <2>1, AbortSelf
<1>5. CASE UNCHANGED vars
  <2>1. UNCHANGED <<ar, sess, alarms, timers, told>>
    BY <1>5 DEF vars
  <2> QED  BY <2>1, SessionStepInv DEF IInv, TypeOK
<1> QED  BY <1>1, <1>2, <1>3, <1>4, <1>5 DEF Next

\* and for ever.
LEMMA Invariance == ASSUME Orderly PROVE Spec => []IInv
<1>1. Init => IInv  BY InitInv
<1>2. IInv /\ [Next]_vars => IInv'  BY StepInv
<1> QED  BY <1>1, <1>2, PTL DEF Spec

\* What the inductive invariant implies.
LEMMA CrossRefs == ASSUME IInv PROVE SessionCrossRef
<1>1. ASSUME NEW a \in Used
      PROVE  /\ ar[a].p_sess # 0 /\ sess[ar[a].p_sess].in_use
             /\ ~ sess[ar[a].p_sess].from_me /\ sess[ar[a].p_sess].p_ar = a
  BY IndexSets DEF IInv, Owned, Used
<1>2. \A s \in Sessions : sess[s].in_use /\ sess[s].p_ar # 0 => ar[sess[s].p_ar].in_use
  BY DEF IInv, Outgoing, Incoming
<1> QED  BY <1>1, <1>2 DEF SessionCrossRef

\* The same for the CControl sessions.
LEMMA SingleCControl == ASSUME IInv PROVE OneCControl
<1>1. \A s \in Sessions : sess[s].in_use /\ sess[s].from_me => ar[sess[s].p_ar].cmdev = "W_ARDYCNF"
  BY DEF IInv, Outgoing
<1>2. ASSUME NEW a \in ARs, ar[a].cmdev = "W_ARDYCNF"
      PROVE  \E s \in Sessions :
               {t \in Sessions : sess[t].in_use /\ sess[t].from_me /\ sess[t].p_ar = a} = {s}
  <2>1. PICK s \in Sessions : sess[s].in_use /\ sess[s].from_me /\ sess[s].p_ar = a
    BY <1>2 DEF IInv, Confirming
  <2>2. {t \in Sessions : sess[t].in_use /\ sess[t].from_me /\ sess[t].p_ar = a} = {s}
    BY <2>1 DEF IInv, Unique
  <2> QED  BY <2>2
<1> QED  BY <1>1, <1>2 DEF OneCControl

\* The same for what is said of each slot.
LEMMA SlotFacts ==
  ASSUME IInv PROVE SetupSupervised /\ PollAlive /\ Agreement /\ FreeIsClear
<1>1. \A a \in ARs : SlotOK(ar[a], told[a], cmsmTimer[a], polls[a])
  BY DEF IInv, SlotsOK
<1>2. SetupSupervised
  <2>1. ASSUME NEW a \in Used, ar[a].cmdev # "DATA" PROVE ar[a].cmsm = "RUN" /\ cmsmTimer[a]
    BY <1>1, <2>1 DEF SlotOK, Used
  <2> QED  BY <2>1 DEF SetupSupervised
<1>3. PollAlive
  <2>1. ASSUME NEW a \in ARs, ar[a].cmio = "WDATA" PROVE ar[a].reschedule /\ polls[a] > 0
    BY <1>1, <2>1 DEF SlotOK, NoAr
  <2> QED  BY <2>1 DEF PollAlive
<1>4. Agreement
  <2>1. ASSUME NEW a \in Used PROVE ar[a].cmsu = "STARTUP" /\ InStep(ar[a], told[a])
    BY <1>1 DEF SlotOK, Used
  <2> QED  BY <2>1 DEF Agreement
<1>5. FreeIsClear
  <2>1. ASSUME NEW a \in FreeArs PROVE ar[a] = NoAr /\ told[a] = "none" /\ ~ cmsmTimer[a]
    BY <1>1 DEF SlotOK, FreeArs, Used
  <2> QED  BY <2>1 DEF FreeIsClear
<1> QED  BY <1>2, <1>3, <1>4, <1>5

\* The variables keep their types for any number of ARs and sessions.
THEOREM TypeCorrect == ASSUME Orderly PROVE Spec => []TypeOK
<1>1. IInv => TypeOK  BY DEF IInv
<1> QED  BY <1>1, Invariance, PTL

\* No release, abort or refusal leaves a pointer between an AR and a session
\* of which one is gone.
THEOREM PointersAgree == ASSUME Orderly PROVE Spec => []SessionCrossRef
<1>1. IInv => SessionCrossRef  BY CrossRefs
<1> QED  BY <1>1, Invariance, PTL

\* An AR has one CControl session while it waits, and none otherwise.
THEOREM CControlUnique == ASSUME Orderly PROVE Spec => []OneCControl
<1>1. IInv => OneCControl  BY SingleCControl
<1> QED  BY <1>1, Invariance, PTL

\* Every AR on its way to DATA has its start-up timer armed.
THEOREM Supervised == ASSUME Orderly PROVE Spec => []SetupSupervised
<1>1. IInv => SetupSupervised  BY SlotFacts
<1> QED  BY <1>1, Invariance, PTL

\* While CMIO waits for data, its poll is armed.
THEOREM Polled == ASSUME Orderly PROVE Spec => []PollAlive
<1>1. IInv => PollAlive  BY SlotFacts
<1> QED  BY <1>1, Invariance, PTL

\* The machines that follow the events of CMDEV agree with it.
THEOREM MachinesAgree == ASSUME Orderly PROVE Spec => []Agreement
<1>1. IInv => Agreement  BY SlotFacts
<1> QED  BY <1>1, Invariance, PTL

\* A free slot holds nothing of the AR that used it.
THEOREM SlotsCleared == ASSUME Orderly PROVE Spec => []FreeIsClear
<1>1. IInv => FreeIsClear  BY SlotFacts
<1> QED  BY <1>1, Invariance, PTL

-----------------------------------------------------------------------------
(* The events of an AR, as the application sees them.                      *)

\* One AREP is told an event that may follow the last.
LEMMA TellStep ==
  ASSUME NEW a \in ARs, NEW ev \in Events, told' = [told EXCEPT ![a] = ev],
         \/ ev = "STARTUP" /\ told[a] = "none"
         \/ ev = "PRMEND" /\ told[a] = "STARTUP"
         \/ ev = "APPLRDY" /\ told[a] \in {"PRMEND", "APPLRDY"}
         \/ ev = "DATA" /\ told[a] = "APPLRDY"
  PROVE  Api!Next
<1>1. Api!Startup(a) \/ Api!PrmEnd(a) \/ Api!ApplRdy(a) \/ Api!Data(a)
  BY DEF Api!Startup, Api!PrmEnd, Api!ApplRdy, Api!Data, Api!Tell
<1> QED  BY <1>1 DEF Api!Next

\* An abort is an abort of the interface.
LEMMA AbortTells ==
  ASSUME TypeOK, NEW S \in SUBSET ARs, NEW rs, NEW ss, Aborts(S, rs, ss)
  PROVE  Api!Next
<1>1. told' = [a \in ARs |-> IF a \in S THEN "none" ELSE told[a]]
  BY DEF Aborts, Clear, TypeOK
<1> QED  BY <1>1 DEF Api!Next, Api!Abort

\* Requests tell the application of a start and of the end of the parameters.
LEMMA RequestTells == ASSUME IInv, Orderly, Request PROVE Api!Next \/ UNCHANGED told
<1>1. PICK u \in Uuids, act \in Acts, s \in Sessions :
        \/ ConnectDuplicate(u, act, s)
        \/ \E why \in {"apdu", "user", "cpm"} : ConnectRefused(u, act, s, why)
        \/ ConnectRefusedSilently(u, act, s)
        \/ ConnectAccepted(u, act, s)
        \/ Release(u, act, s)
        \/ DControlUnknown(u, act, s)
        \/ DControl(u, act, s)
  BY DEF Request
<1>2. TypeOK /\ \A a \in ARs : SlotOK(ar[a], told[a], cmsmTimer[a], polls[a])
  BY DEF IInv, SlotsOK
<1>3. ArOf(u) \in SUBSET ARs /\ ArOf(u) \in SUBSET Nat  BY IndexSets DEF ArOf, Used
<1>4. CASE ConnectDuplicate(u, act, s)
  <2>1. First(ArOf(u)) \in ARs  BY <1>3, <1>4, FirstIn DEF ConnectDuplicate
  <2>2. Aborts({First(ArOf(u))}, ar, Kill(s))  BY <1>4 DEF ConnectDuplicate
  <2> QED  BY <1>2, <2>1, <2>2, AbortTells
<1>5. CASE \E why \in {"apdu", "user", "cpm"} : ConnectRefused(u, act, s, why)
  BY <1>5 DEF ConnectRefused
<1>6. CASE ConnectRefusedSilently(u, act, s)  BY <1>6 DEF ConnectRefusedSilently
<1>7. CASE ConnectAccepted(u, act, s)
  <2> DEFINE a == First(FreeArs)
  <2>1. told' = [told EXCEPT ![a] = "STARTUP"]  BY <1>7 DEF ConnectAccepted, Event
  <2>2. a \in ARs /\ ~ ar[a].in_use  BY <1>7, FirstFree DEF ConnectAccepted
  <2>3. told[a] = "none"  BY <1>2, <2>2 DEF SlotOK
  <2> HIDE DEF a
  <2> QED  BY <2>1, <2>2, <2>3, TellStep DEF Events
<1>8. CASE Release(u, act, s)
  <2>1. Aborts({a \in ArOf(u) : ar[a].cmdev \in Releasable}, ar, Kill(s))  BY <1>8 DEF Release
  <2>2. {a \in ArOf(u) : ar[a].cmdev \in Releasable} \in SUBSET ARs  BY <1>3
  <2> QED  BY <1>2, <2>1, <2>2, AbortTells
<1>9. CASE DControlUnknown(u, act, s)  BY <1>9 DEF DControlUnknown
<1>10. CASE DControl(u, act, s)
  <2>1. MayUse(u, act) /\ Serves(s, act)  BY <1>10 DEF DControl
  <2>2. PICK a \in ArOf(u) : \/ \E ppmOk \in BOOLEAN : PrmEnd(a, act, s, ppmOk)
                             \/ PrmBegin(a, act, s) \/ DControlFails(a, act, s)
                             \/ DControlIgnored(a, act, s)
    BY <1>10 DEF DControl
  <2>3. a \in ARs /\ ar[a].in_use /\ sess[s].p_ar = a /\ Session(s, act) = sess[s]
    BY <2>1, Conversation
  <2>4. CASE \E ppmOk \in BOOLEAN : PrmEnd(a, act, s, ppmOk)
    <3> DEFINE rs == [ar EXCEPT ![a].cmdev = "W_ARDY"]
    <3>1. PICK ppmOk \in BOOLEAN : PrmEnd(a, act, s, ppmOk)  BY <2>4
    <3>2. /\ ar[a].cmdev = "W_PEIND"
          /\ \/ Event(a, rs[a], "PRMEND", rs, With(s, act))
             \/ Aborts({a}, rs, With(s, act))
      BY <2>3, <3>1, IndexSets DEF PrmEnd
    <3>3. told[a] = "STARTUP"  BY <1>2, <2>3, <3>2 DEF SlotOK, InStep
    <3>4. CASE Event(a, rs[a], "PRMEND", rs, With(s, act))
      <4>1. told' = [told EXCEPT ![a] = "PRMEND"]  BY <3>4 DEF Event
      <4> QED  BY <2>3, <3>3, <4>1, TellStep DEF Events
    <3>5. CASE Aborts({a}, rs, With(s, act))
      BY <1>2, <2>3, <3>5, AbortTells
    <3> QED  BY <3>2, <3>4, <3>5
  <2>5. CASE PrmBegin(a, act, s)  BY <2>5 DEF PrmBegin
  <2>6. CASE DControlFails(a, act, s)
    BY <1>2, <2>3, <2>6, AbortTells DEF DControlFails
  <2>7. CASE DControlIgnored(a, act, s)  BY <2>7 DEF DControlIgnored
  <2> QED  BY <2>2, <2>4, <2>5, <2>6, <2>7
<1> QED  BY <1>1, <1>4, <1>5, <1>6, <1>7, <1>8, <1>9, <1>10

\* The steps of a session tell it of the confirmation.
LEMMA SessionTells == ASSUME IInv, NEW s \in Sessions, SessionStep(s) PROVE Api!Next \/ UNCHANGED told
<1>1. TypeOK /\ \A a \in ARs : SlotOK(ar[a], told[a], cmsmTimer[a], polls[a])
  BY DEF IInv, SlotsOK
<1>2. sess[s].in_use /\ sess[s].from_me => sess[s].p_ar \in ARs /\ ar[sess[s].p_ar].in_use
  BY DEF IInv, Outgoing
<1>3. CASE \E sent \in BOOLEAN : Resend(s, sent)
  <2>1. PICK sent \in BOOLEAN : Resend(s, sent)  BY <1>3
  <2>2. \/ UNCHANGED told
        \/ sess[s].in_use /\ sess[s].from_me /\ Aborts({sess[s].p_ar}, ar, sess)
    BY <2>1 DEF Resend
  <2> QED  BY <1>1, <1>2, <2>2, AbortTells
<1>4. CASE CControlCnf(s)
  <2> DEFINE a == sess[s].p_ar
  <2>1. /\ a \in ARs /\ ar[a].in_use /\ ar[a].cmdev = "W_ARDYCNF"
        /\ UNCHANGED told \/ told' = [told EXCEPT ![a] = "DATA"]
    BY <1>2, <1>4 DEF CControlCnf, Event
  <2>2. told[a] = "APPLRDY"  BY <1>1, <2>1 DEF SlotOK, InStep
  <2> HIDE DEF a
  <2> QED  BY <2>1, <2>2, TellStep DEF Events
<1>5. CASE CControlBad(s)  BY <1>5 DEF CControlBad
<1>6. CASE PeerFault(s)
  <2>1. Aborts({sess[s].p_ar} \ {0}, ar, Kill(s))  BY <1>6 DEF PeerFault
  <2>2. {sess[s].p_ar} \ {0} \in SUBSET ARs  BY <1>1 DEF TypeOK, SessType
  <2> QED  BY <1>1, <2>1, <2>2, AbortTells
<1>7. CASE \E act \in Acts : Lookup(act, s)  BY <1>7 DEF Lookup
<1>8. CASE LookupTimeout(s)  BY <1>8 DEF LookupTimeout
<1> QED  BY <1>3, <1>4, <1>5, <1>6, <1>7, <1>8 DEF SessionStep

\* The steps of an AR tell it that it is ready, and of the data.
LEMMA ArTells == ASSUME IInv, NEW a \in ARs, ArStep(a) PROVE Api!Next \/ UNCHANGED told
<1>1. TypeOK /\ SlotOK(ar[a], told[a], cmsmTimer[a], polls[a])
  BY DEF IInv, SlotsOK
<1>2. ar[a].cmdev # "POWER_ON" => ar[a].in_use  BY <1>1, NoArType DEF SlotOK
<1>3. CASE \E sent \in BOOLEAN : AppReady(a, sent)
  <2>1. ar[a].cmdev = "W_ARDY" /\ told' = [told EXCEPT ![a] = "APPLRDY"]
    BY <1>3 DEF AppReady, Event
  <2>2. told[a] \in {"PRMEND", "APPLRDY"}  BY <1>1, <1>2, <2>1 DEF SlotOK, InStep
  <2> QED  BY <2>1, <2>2, TellStep DEF Events
<1>4. CASE \E drop \in {0, 1} : CmioPoll(a, drop)
  <2>1. UNCHANGED told \/ (ar[a].cmdev = "WDATA" /\ told' = [told EXCEPT ![a] = "DATA"])
    BY <1>4 DEF CmioPoll
  <2>2. ar[a].cmdev = "WDATA" => told[a] = "APPLRDY"  BY <1>1, <1>2 DEF SlotOK, InStep
  <2> QED  BY <2>1, <2>2, TellStep DEF Events
<1>5. CASE CmsmTimeout(a)
  <2>1. Aborts({a}, ar, sess) \/ UNCHANGED told  BY <1>5 DEF CmsmTimeout
  <2> QED  BY <1>1, <2>1, AbortTells
<1>6. CASE CpmData(a)  BY <1>6 DEF CpmData
<1>7. CASE CpmStop(a)
  <2>1. Aborts({a}, ar, sess) \/ UNCHANGED told  BY <1>7 DEF CpmStop
  <2> QED  BY <1>1, <2>1, AbortTells
<1>8. CASE StackAbort(a)
  <2>1. Aborts({a}, ar, sess)  BY <1>8 DEF StackAbort
  <2> QED  BY <1>1, <2>1, AbortTells
<1> QED  BY <1>3, <1>4, <1>5, <1>6, <1>7, <1>8 DEF ArStep

\* Every step is a step of the interface, or tells the application nothing.
LEMMA StepTells == ASSUME IInv, Orderly, [Next]_vars PROVE [Api!Next]_told
<1>1. CASE Request  BY <1>1, RequestTells
<1>2. CASE \E s \in Sessions : SessionStep(s)  BY <1>2, SessionTells
<1>3. CASE \E a \in ARs : ArStep(a)  BY <1>3, ArTells
<1>4. CASE AbortAll
  <2>1. Aborts(Used, ar, sess) /\ Used \in SUBSET ARs /\ TypeOK
    BY <1>4 DEF AbortAll, Used, IInv
  <2> QED  BY <2>1, AbortTells
<1>5. CASE UNCHANGED vars  BY <1>5 DEF vars
<1> QED  BY <1>1, <1>2, <1>3, <1>4, <1>5 DEF Next

\* The stack tells the application the events of every AREP in the order that
\* the interface promises: ArLifecycle implements ArApi.
THEOREM EventsInOrder == ASSUME Orderly PROVE Spec => ApiOrder
<1>1. Init => Api!Init  BY DEF Init, Api!Init
<1>2. IInv /\ [Next]_vars => [Api!Next]_told  BY StepTells
<1> QED  BY <1>1, <1>2, Invariance, PTL DEF Spec, ApiOrder, Api!Spec

\* ARs and sessions go together and leave nothing behind, for any number of both.
THEOREM SessionsGoTogether == ASSUME Orderly PROVE Spec => []SessionsSound
BY PointersAgree, CControlUnique, SlotsCleared, PTL DEF SessionsSound

\* Neither a silent controller nor missing data holds an AR without a timer.
THEOREM AlwaysWoken == ASSUME Orderly PROVE Spec => []NeverStuck
BY Supervised, Polled, PTL DEF NeverStuck

-----------------------------------------------------------------------------
(* The alarm endpoints.                                                    *)

\* A Connect is refused before an endpoint is allocated, or not at all: one that
\* the application or the CPM refuses leaves its endpoint behind.
EarlyRefusals == Refusals \cap {"user", "cpm"} = {}

\* Every AR has one endpoint, which is active, and no endpoint is of an AR that
\* is gone.
Reached ==
  /\ \A a \in ARs : ar[a].in_use =>
       ar[a].ref \in ARs /\ endpoint[ar[a].ref] = [p_ar |-> a, active |-> TRUE]
  /\ \A i \in ARs : endpoint[i].p_ar # 0 =>
       ar[endpoint[i].p_ar].in_use /\ ar[endpoint[i].p_ar].ref = i
  /\ \A i \in ARs : endpoint[i].p_ar = 0 => endpoint[i] = NoEndpoint
  /\ alarmRx = IF Used = {} THEN 0 ELSE 1

\* Where no AR comes or goes, the endpoints stay right.
LEMMA SameEndpoints ==
  ASSUME IInv, Reached, UNCHANGED alarms,
         \A a \in ARs : ar'[a].in_use = ar[a].in_use /\ ar'[a].ref = ar[a].ref
  PROVE  Reached'
<1>1. endpoint' = endpoint /\ alarmRx' = alarmRx  BY DEF alarms
<1>2. Used' = Used  BY DEF Used
<1>3. \A i \in ARs : endpoint[i].p_ar \in ARs \cup {0}  BY DEF IInv, TypeOK
<1> QED  BY <1>1, <1>2, <1>3 DEF Reached

\* No event changes the alarm reference of an AR.
LEMMA RefKept ==
  ASSUME NEW r \in ArType, NEW ev
  PROVE  Indicated(r, ev).ref = r.ref /\ Indicated(r, ev).in_use = r.in_use
BY DEF Indicated, ArType

\* An event leaves the endpoints right.
LEMMA EventEndpoints ==
  ASSUME IInv, Reached, NEW a \in ARs, NEW r \in ArType, NEW ev, NEW rs, NEW ss,
         Event(a, r, ev, rs, ss), UNCHANGED alarms,
         r.in_use = ar[a].in_use, r.ref = ar[a].ref,
         rs \in [ARs -> ArType], \A b \in ARs : b # a => rs[b] = ar[b]
  PROVE  Reached'
<1>1. ar' = [rs EXCEPT ![a] = Indicated(r, ev)]  BY DEF Event
<1>2. ar'[a] = Indicated(r, ev) /\ \A b \in ARs : b # a => ar'[b] = ar[b]  BY <1>1
<1>3. \A b \in ARs : ar'[b].in_use = ar[b].in_use /\ ar'[b].ref = ar[b].ref
  BY <1>2, RefKept
<1> QED  BY <1>3, SameEndpoints

\* Every AR in use has its own endpoint.
LEMMA OwnEndpoint ==
  ASSUME IInv, Reached, NEW a \in Used
  PROVE  /\ a \in ARs /\ ar[a].ref \in ARs /\ endpoint[ar[a].ref].p_ar = a
         /\ EndpointsOf(a) = {ar[a].ref} /\ FirstEndpoint(a) = {ar[a].ref}
<1>1. /\ a \in ARs /\ ar[a].in_use /\ a # 0 /\ ar[a].ref \in ARs
      /\ endpoint[ar[a].ref] = [p_ar |-> a, active |-> TRUE]
  BY IndexSets DEF Used, Reached
<1>2. EndpointsOf(a) = {ar[a].ref}  BY <1>1 DEF EndpointsOf, Reached
<1>3. First({ar[a].ref}) = ar[a].ref
  <2>1. {ar[a].ref} \in SUBSET Nat  BY <1>1, IndexSets
  <2> QED  BY <2>1, FirstIn
<1> QED  BY <1>1, <1>2, <1>3 DEF FirstEndpoint

\* An endpoint is active exactly when it is that of an AR in use.
LEMMA ActiveIff ==
  ASSUME IInv, Reached, NEW i \in ARs
  PROVE  endpoint[i].active <=> \E a \in Used : i = ar[a].ref
<1>1. endpoint[i].p_ar \in ARs \cup {0}  BY DEF IInv, TypeOK
<1>2. ASSUME endpoint[i].active PROVE \E a \in Used : i = ar[a].ref
  <2>1. endpoint[i].p_ar # 0  BY <1>2 DEF Reached, NoEndpoint
  <2> QED  BY <1>1, <2>1 DEF Reached, Used
<1>3. ASSUME NEW a \in Used, i = ar[a].ref PROVE endpoint[i].active
  <2>1. endpoint[i] = [p_ar |-> a, active |-> TRUE]  BY <1>3 DEF Reached, Used
  <2> QED  BY <2>1
<1> QED  BY <1>2, <1>3

\* A closing AR frees its endpoint and no other.
LEMMA FreedAre ==
  ASSUME IInv, Reached, NEW S \in SUBSET ARs
  PROVE  Opened(S) = S \cap Used /\ Freed(S) = {ar[a].ref : a \in S \cap Used}
<1>1. \A a \in ARs : ar[a].cmsu = "STARTUP" <=> ar[a].in_use
  BY DEF IInv, SlotsOK, SlotOK, NoAr
<1>2. Opened(S) = S \cap Used  BY <1>1 DEF Opened, Used
<1>3. \A a \in S \cap Used : FirstEndpoint(a) = {ar[a].ref}  BY OwnEndpoint
<1>4. Freed(S) = UNION {FirstEndpoint(a) : a \in S \cap Used}  BY <1>2 DEF Freed
<1> QED  BY <1>2, <1>3, <1>4

\* There is a last AR in use, where there is one.
LEMMA LastUsed ==
  ASSUME Used # {} PROVE \E m \in Used : \A a \in Used : a <= m
<1> DEFINE U == {k \in ARs : \A a \in Used : a <= k}
           m == First(U)
<1>1. MaxAr \in Nat \ {0}  BY SizeAssumption
<1>2. Used \subseteq ARs  BY DEF Used
<1>3. MaxAr \in U  BY <1>1, <1>2 DEF ARs
<1>4. m \in U
  <2>1. U \in SUBSET Nat  BY IndexSets
  <2> HIDE DEF U
  <2> QED  BY <1>3, <2>1, FirstIn
<1>5. \A k \in U : m <= k
  <2>1. \E i \in U : \A j \in U : i <= j
    <3>1. U \in SUBSET Nat  BY IndexSets
    <3> HIDE DEF U
    <3> QED  BY <1>3, <3>1, LeastIn
  <2> HIDE DEF U
  <2> QED  BY <2>1 DEF First
<1> HIDE DEF m
<1>6. m \in Used
  <2> SUFFICES ASSUME m \notin Used PROVE FALSE  OBVIOUS
  <2>1. \A a \in Used : a \in Nat /\ a <= m /\ a # m  BY <1>2, <1>4, IndexSets
  <2>2. m \in Nat /\ m >= 1 /\ m <= MaxAr  BY <1>1, <1>4 DEF ARs
  <2>3. \A a \in Used : a <= m - 1  BY <2>1, <2>2
  <2>4. \A a \in Used : a >= 1  BY <1>1, <1>2 DEF ARs
  <2>5. m - 1 \in ARs
    <3>1. PICK a \in Used : TRUE  OBVIOUS
    <3>2. a \in Nat /\ a <= m - 1 /\ a >= 1  BY <2>1, <2>3, <2>4
    <3> QED  BY <1>1, <2>2, <3>2 DEF ARs
  <2>6. m - 1 \in U  BY <2>3, <2>5
  <2> QED  BY <1>5, <2>2, <2>6
<1> QED  BY <1>4, <1>6

\* The handler for alarms is removed with the last AR in use.
LEMMA LastOnes ==
  ASSUME IInv, Reached, NEW S \in SUBSET ARs
  PROVE  IF Used # {} /\ Used \subseteq S THEN \E m : Lasts(S) = {m} ELSE Lasts(S) = {}
<1>1. \A a \in Used : a \in Nat  BY IndexSets DEF Used
<1>2. ASSUME NEW a \in S \cap Used
      PROVE  a \in Lasts(S) <=> \A c \in Used : c \in S /\ c <= a
  <2> DEFINE T == {b \in S : b <= a}
  <2>1. a \in Lasts(S) <=> \A i \in ARs : endpoint[i].active => i \in Freed(T)
    BY FreedAre DEF Lasts
  <2>2. Freed(T) = {ar[b].ref : b \in T \cap Used}
    <3>1. T \in SUBSET ARs  OBVIOUS
    <3> HIDE DEF T
    <3> QED  BY <3>1, FreedAre
  <2>3. \A c, b \in Used : ar[c].ref = ar[b].ref => c = b  BY OwnEndpoint
  <2>4. \A c \in Used : ar[c].ref \in Freed(T) <=> c \in T  BY <2>2, <2>3
  <2>5. \A c \in Used : ar[c].ref \in ARs  BY OwnEndpoint
  <2>6. a \in Lasts(S) <=> \A c \in Used : ar[c].ref \in Freed(T)
    BY <2>1, <2>5, ActiveIff
  <2> QED  BY <2>4, <2>6
<1>3. Lasts(S) \subseteq S \cap Used  BY FreedAre DEF Lasts
<1>4. CASE Used # {} /\ Used \subseteq S
  <2>1. PICK m \in Used : \A a \in Used : a <= m  BY <1>4, LastUsed
  <2>2. \A a \in Used : m <= a => a = m  BY <1>1, <2>1
  <2>3. Lasts(S) = {m}  BY <1>2, <1>3, <1>4, <2>1, <2>2
  <2> QED  BY <1>4, <2>3
<1>5. CASE ~ (Used # {} /\ Used \subseteq S)
  <2>1. Lasts(S) = {}  BY <1>2, <1>3, <1>5
  <2> QED  BY <1>5, <2>1
<1> QED  BY <1>4, <1>5

\* An abort leaves no endpoint of the ARs that it releases.
LEMMA AbortEndpoints ==
  ASSUME IInv, Reached, NEW S \in SUBSET ARs, NEW rs, NEW ss,
         rs \in [ARs -> ArType], \A b \in ARs : b \notin S => rs[b] = ar[b],
         Aborts(S, rs, ss)
  PROVE  Reached'
<1>1. /\ ar' = [b \in ARs |-> IF b \in S THEN NoAr ELSE rs[b]]
      /\ endpoint' = [i \in ARs |-> IF i \in Freed(S) THEN NoEndpoint ELSE endpoint[i]]
      /\ alarmRx' = IF alarmRx > Cardinality(Lasts(S)) THEN alarmRx - Cardinality(Lasts(S)) ELSE 0
  BY DEF Aborts, Clear, IInv, TypeOK
<1>2. \A b \in ARs : IF b \in S THEN ar'[b] = NoAr ELSE ar'[b] = ar[b]  BY <1>1
<1>3. Freed(S) = {ar[a].ref : a \in S \cap Used}  BY FreedAre
<1>4. Used' = Used \ S  BY <1>2, NoArType DEF Used
<1>5. \A a \in Used : a \in S <=> ar[a].ref \in Freed(S)  BY <1>3, OwnEndpoint
<1>6. ASSUME NEW a \in ARs, ar'[a].in_use
      PROVE  ar'[a].ref \in ARs /\ endpoint'[ar'[a].ref] = [p_ar |-> a, active |-> TRUE]
  <2>1. a \notin S /\ a \in Used /\ ar'[a] = ar[a]  BY <1>2, <1>6, NoArType DEF Used
  <2>2. ar[a].ref \in ARs /\ endpoint[ar[a].ref] = [p_ar |-> a, active |-> TRUE]
    BY <2>1 DEF Reached, Used
  <2>3. ar[a].ref \notin Freed(S)  BY <1>5, <2>1
  <2> QED  BY <1>1, <2>1, <2>2, <2>3
<1>7. ASSUME NEW i \in ARs, endpoint'[i].p_ar # 0
      PROVE  ar'[endpoint'[i].p_ar].in_use /\ ar'[endpoint'[i].p_ar].ref = i
  <2>1. endpoint'[i] = endpoint[i] /\ i \notin Freed(S)  BY <1>1, <1>7 DEF NoEndpoint
  <2>2. endpoint[i].p_ar \in ARs  BY <1>7, <2>1 DEF IInv, TypeOK
  <2>3. ar[endpoint[i].p_ar].in_use /\ ar[endpoint[i].p_ar].ref = i
    BY <1>7, <2>1 DEF Reached
  <2>4. endpoint[i].p_ar \notin S  BY <1>5, <2>1, <2>2, <2>3 DEF Used
  <2> QED  BY <1>2, <2>1, <2>2, <2>3, <2>4
<1>8. ASSUME NEW i \in ARs, endpoint'[i].p_ar = 0 PROVE endpoint'[i] = NoEndpoint
  BY <1>1, <1>8 DEF Reached
<1>9. alarmRx' = IF Used' = {} THEN 0 ELSE 1
  <2>1. alarmRx = IF Used = {} THEN 0 ELSE 1  BY DEF Reached
  <2>2. CASE Used # {} /\ Used \subseteq S
    <3>1. Cardinality(Lasts(S)) = 1  BY <2>2, LastOnes, FS_Singleton
    <3> QED  BY <1>1, <1>4, <2>1, <2>2, <3>1
  <2>3. CASE ~ (Used # {} /\ Used \subseteq S)
    <3>1. Cardinality(Lasts(S)) = 0  BY <2>3, LastOnes, FS_EmptySet
    <3>2. Used' = {} <=> Used = {}  BY <1>4, <2>3
    <3> QED  BY <1>1, <2>1, <3>1, <3>2
  <2> QED  BY <2>2, <2>3
<1> QED  BY <1>6, <1>7, <1>8, <1>9 DEF Reached

\* As many endpoints as ARs: where a slot is free, an endpoint is.
LEMMA EndpointLeft ==
  ASSUME IInv, Reached, FreeArs # {}
  PROVE  FreeEndpoints # {}
<1> SUFFICES ASSUME FreeEndpoints = {} PROVE FALSE  OBVIOUS
<1> DEFINE f == [i \in ARs |-> endpoint[i].p_ar]
<1>1. IsFiniteSet(ARs)  BY SizeAssumption, FS_Interval DEF ARs
<1>2. Used \in SUBSET ARs /\ Used # ARs  BY DEF Used, FreeArs
<1>3. f \in [ARs -> Used]
  <2>1. ASSUME NEW i \in ARs PROVE endpoint[i].p_ar \in Used
    <3>1. endpoint[i].p_ar # 0  BY DEF FreeEndpoints, EndpointsOf
    <3>2. endpoint[i].p_ar \in ARs  BY <3>1 DEF IInv, TypeOK
    <3> QED  BY <3>1, <3>2 DEF Reached, Used
  <2> QED  BY <2>1
<1>4. \A i, j \in ARs : f[i] = f[j] => i = j
  <2> SUFFICES ASSUME NEW i \in ARs, NEW j \in ARs, endpoint[i].p_ar = endpoint[j].p_ar
               PROVE  i = j
    OBVIOUS
  <2>1. endpoint[i].p_ar # 0 /\ endpoint[j].p_ar # 0  BY DEF FreeEndpoints, EndpointsOf
  <2> QED  BY <2>1 DEF Reached
<1>5. IsFiniteSet(Used) /\ Cardinality(Used) <= Cardinality(ARs)
      /\ (Cardinality(ARs) = Cardinality(Used) => ARs = Used)
  BY <1>1, <1>2, FS_Subset
<1>6. Cardinality(Used) \in Nat /\ Cardinality(ARs) \in Nat
  BY <1>1, <1>5, FS_CardinalityType
<1>7. Cardinality(Used) < Cardinality(ARs)  BY <1>2, <1>5, <1>6
<1> HIDE DEF f
<1> QED  BY <1>1, <1>3, <1>4, <1>5, <1>7, FS_PigeonHole

\* A new AR gets an endpoint of its own.
LEMMA NewEndpoint ==
  ASSUME IInv, Reached, NEW u \in Uuids, NEW act, NEW s \in Sessions, ConnectAccepted(u, act, s)
  PROVE  Reached'
<1> DEFINE a == First(FreeArs)
           i == First(FreeEndpoints)
           r == NewAr(u, s, i)
           e == [endpoint EXCEPT ![i] = [p_ar |-> a, active |-> FALSE]]
<1>1. FreeArs # {}  BY DEF ConnectAccepted
<1>2. a \in ARs /\ ~ ar[a].in_use  BY <1>1, FirstFree
<1>3. FreeEndpoints # {}  BY <1>1, EndpointLeft
<1>4. i \in FreeEndpoints
  <2>1. FreeEndpoints \in SUBSET Nat  BY IndexSets DEF FreeEndpoints, EndpointsOf
  <2> QED  BY <1>3, <2>1, FirstIn
<1>5. i \in ARs /\ endpoint[i].p_ar = 0  BY <1>4 DEF FreeEndpoints, EndpointsOf
<1>6. ar' = [ar EXCEPT ![a] = Indicated(r, "STARTUP")]
  BY <1>3 DEF ConnectAccepted, Event
<1>7. endpoint' = Activated(a) /\ alarmRx' = RxAfterActivate  BY DEF ConnectAccepted
<1>8. r \in ArType /\ r.in_use /\ r.ref = i
  <2>1. r \in ArType /\ r.in_use  BY <1>5, NewArType
  <2> HIDE DEF i
  <2>2. r.ref = i  BY DEF NewAr, NoAr
  <2> QED  BY <2>1, <2>2
<1> HIDE DEF a, i, r
<1>9. Allocate(a) = e  BY <1>3 DEF Allocate, i
<1>10. endpoint \in [ARs -> [p_ar : ARs \cup {0}, active : BOOLEAN]]  BY DEF IInv, TypeOK
<1>11. e[i] = [p_ar |-> a, active |-> FALSE] /\ \A j \in ARs : j # i => e[j] = endpoint[j]
  BY <1>5, <1>10
<1>12. {j \in ARs : e[j].p_ar = a} = {i}
  <2>1. \A j \in ARs : endpoint[j].p_ar # a
    BY <1>2, IndexSets DEF Reached
  <2> QED  BY <1>5, <1>11, <2>1
<1>13. First({i}) = i
  <2>1. {i} \in SUBSET Nat  BY <1>5, IndexSets
  <2> QED  BY <2>1, FirstIn
<1>14. endpoint' = [e EXCEPT ![i].active = TRUE]
  <2> HIDE DEF e
  <2>1. {j \in ARs : Allocate(a)[j].p_ar = a} = {i}  BY <1>9, <1>12
  <2> QED  BY <1>7, <1>9, <1>13, <2>1 DEF Activated
<1>15. endpoint'[i] = [p_ar |-> a, active |-> TRUE]
       /\ \A j \in ARs : j # i => endpoint'[j] = endpoint[j]
  BY <1>5, <1>10, <1>14
<1> HIDE DEF e
<1>16. ar'[a].in_use /\ ar'[a].ref = i /\ \A b \in ARs : b # a => ar'[b] = ar[b]
  <2>1. ar'[a] = Indicated(r, "STARTUP") /\ \A b \in ARs : b # a => ar'[b] = ar[b]
    BY <1>2, <1>6 DEF IInv, TypeOK
  <2> QED  BY <1>8, <2>1, RefKept
<1>17. alarmRx' = 1 /\ Used' # {}
  <2>1. (\E j \in ARs : endpoint[j].active) <=> Used # {}
    <3>1. \A b \in Used : ar[b].ref \in ARs  BY OwnEndpoint
    <3> QED  BY <3>1, ActiveIff
  <2>2. alarmRx = IF Used = {} THEN 0 ELSE 1  BY DEF Reached
  <2>3. a \in Used'  BY <1>2, <1>16 DEF Used
  <2> QED  BY <1>7, <2>1, <2>2, <2>3 DEF RxAfterActivate
<1>18. ASSUME NEW b \in ARs, ar'[b].in_use
       PROVE  ar'[b].ref \in ARs /\ endpoint'[ar'[b].ref] = [p_ar |-> b, active |-> TRUE]
  <2>1. CASE b = a  BY <1>5, <1>15, <1>16, <2>1
  <2>2. CASE b # a
    <3>1. ar'[b] = ar[b] /\ ar[b].ref \in ARs
          /\ endpoint[ar[b].ref] = [p_ar |-> b, active |-> TRUE]
      BY <1>16, <1>18, <2>2 DEF Reached
    <3>2. ar[b].ref # i  BY <1>5, <3>1, IndexSets
    <3> QED  BY <1>15, <3>1, <3>2
  <2> QED  BY <2>1, <2>2
<1>19. ASSUME NEW j \in ARs, endpoint'[j].p_ar # 0
       PROVE  ar'[endpoint'[j].p_ar].in_use /\ ar'[endpoint'[j].p_ar].ref = j
  <2>1. CASE j = i  BY <1>15, <1>16, <2>1
  <2>2. CASE j # i
    <3>1. endpoint'[j] = endpoint[j]  BY <1>15, <2>2
    <3>2. endpoint[j].p_ar \in ARs  BY <1>10, <1>19, <3>1
    <3>3. ar[endpoint[j].p_ar].in_use /\ ar[endpoint[j].p_ar].ref = j
      BY <1>19, <3>1 DEF Reached
    <3> QED  BY <1>2, <1>16, <3>1, <3>2, <3>3
  <2> QED  BY <2>1, <2>2
<1>20. ASSUME NEW j \in ARs, endpoint'[j].p_ar = 0 PROVE endpoint'[j] = NoEndpoint
  <2>1. j # i  BY <1>2, <1>15, <1>20, IndexSets
  <2> QED  BY <1>15, <1>20, <2>1 DEF Reached
<1> QED  BY <1>17, <1>18, <1>19, <1>20 DEF Reached

\* What a request, a session or an AR does leaves the endpoints right: requests,
LEMMA RequestReached == ASSUME IInv, Reached, Orderly, EarlyRefusals, Request PROVE Reached'
<1>1. PICK u \in Uuids, act \in Acts, s \in Sessions :
        \/ ConnectDuplicate(u, act, s)
        \/ \E why \in {"apdu", "user", "cpm"} : ConnectRefused(u, act, s, why)
        \/ ConnectRefusedSilently(u, act, s)
        \/ ConnectAccepted(u, act, s)
        \/ Release(u, act, s)
        \/ DControlUnknown(u, act, s)
        \/ DControl(u, act, s)
  BY DEF Request
<1>2. ar \in [ARs -> ArType]  BY DEF IInv, TypeOK
<1>3. ArOf(u) \in SUBSET ARs /\ ArOf(u) \in SUBSET Nat  BY IndexSets DEF ArOf, Used
<1>4. CASE ConnectDuplicate(u, act, s)
  <2>1. First(ArOf(u)) \in ARs  BY <1>3, <1>4, FirstIn DEF ConnectDuplicate
  <2>2. Aborts({First(ArOf(u))}, ar, Kill(s))  BY <1>4 DEF ConnectDuplicate
  <2> QED  BY <1>2, <2>1, <2>2, AbortEndpoints
<1>5. CASE \E why \in {"apdu", "user", "cpm"} : ConnectRefused(u, act, s, why)
  <2>1. UNCHANGED <<ar, endpoint, alarmRx>>
    BY <1>5 DEF ConnectRefused, EarlyRefusals
  <2> QED  BY <2>1, SameEndpoints DEF alarms
<1>6. CASE ConnectRefusedSilently(u, act, s)
  BY <1>6 DEF ConnectRefusedSilently, Orderly
<1>7. CASE ConnectAccepted(u, act, s)  BY <1>7, NewEndpoint
<1>8. CASE Release(u, act, s)
  <2>1. Aborts({a \in ArOf(u) : ar[a].cmdev \in Releasable}, ar, Kill(s))  BY <1>8 DEF Release
  <2>2. {a \in ArOf(u) : ar[a].cmdev \in Releasable} \in SUBSET ARs  BY <1>3
  <2> QED  BY <1>2, <2>1, <2>2, AbortEndpoints
<1>9. CASE DControlUnknown(u, act, s)
  BY <1>9, SameEndpoints DEF DControlUnknown
<1>10. CASE DControl(u, act, s)
  <2>1. MayUse(u, act) /\ Serves(s, act)  BY <1>10 DEF DControl
  <2>2. PICK a \in ArOf(u) : \/ \E ppmOk \in BOOLEAN : PrmEnd(a, act, s, ppmOk)
                             \/ PrmBegin(a, act, s) \/ DControlFails(a, act, s)
                             \/ DControlIgnored(a, act, s)
    BY <1>10 DEF DControl
  <2>3. a \in ARs /\ ar[a].in_use /\ sess[s].p_ar = a /\ Session(s, act) = sess[s]
    BY <2>1, Conversation
  <2>4. CASE \E ppmOk \in BOOLEAN : PrmEnd(a, act, s, ppmOk)
    <3> DEFINE rs == [ar EXCEPT ![a].cmdev = "W_ARDY"]
    <3>1. PICK ppmOk \in BOOLEAN : PrmEnd(a, act, s, ppmOk)  BY <2>4
    <3>2. \/ Event(a, rs[a], "PRMEND", rs, With(s, act)) /\ UNCHANGED alarms
          \/ Aborts({a}, rs, With(s, act))
      BY <2>3, <3>1, IndexSets DEF PrmEnd
    <3>3. /\ rs \in [ARs -> ArType] /\ \A b \in ARs : b # a => rs[b] = ar[b]
          /\ rs[a].in_use = ar[a].in_use /\ rs[a].ref = ar[a].ref
      <4>1. rs = [ar EXCEPT ![a] = [ar[a] EXCEPT !.cmdev = "W_ARDY"]]  OBVIOUS
      <4>2. [ar[a] EXCEPT !.cmdev = "W_ARDY"] \in ArType
        BY <1>2, <2>3, FieldTypes DEF Releasable
      <4>3. ar[a] \in ArType  BY <1>2, <2>3
      <4>4. [ar[a] EXCEPT !.cmdev = "W_ARDY"].in_use = ar[a].in_use
            /\ [ar[a] EXCEPT !.cmdev = "W_ARDY"].ref = ar[a].ref
        BY <4>3 DEF ArType
      <4> QED  BY <1>2, <2>3, <4>1, <4>2, <4>4
    <3> HIDE DEF rs
    <3>4. CASE Event(a, rs[a], "PRMEND", rs, With(s, act)) /\ UNCHANGED alarms
      <4>1. rs[a] \in ArType  BY <2>3, <3>3
      <4> QED  BY <2>3, <3>3, <3>4, <4>1, EventEndpoints
    <3>5. CASE Aborts({a}, rs, With(s, act))
      BY <2>3, <3>3, <3>5, AbortEndpoints
    <3> QED  BY <3>2, <3>4, <3>5
  <2>5. CASE PrmBegin(a, act, s)
    <3>1. ar' = [ar EXCEPT ![a].cmpbe = "WFRSP", ![a].alarm_enable = FALSE] /\ UNCHANGED alarms
      BY <2>5 DEF PrmBegin
    <3>2. \A b \in ARs : ar'[b].in_use = ar[b].in_use /\ ar'[b].ref = ar[b].ref
      BY <1>2, <2>3, <3>1 DEF ArType
    <3> QED  BY <3>1, <3>2, SameEndpoints
  <2>6. CASE DControlFails(a, act, s)
    BY <1>2, <2>3, <2>6, AbortEndpoints DEF DControlFails
  <2>7. CASE DControlIgnored(a, act, s)
    BY <2>7, SameEndpoints DEF DControlIgnored
  <2> QED  BY <2>2, <2>4, <2>5, <2>6, <2>7
<1> QED  BY <1>1, <1>4, <1>5, <1>6, <1>7, <1>8, <1>9, <1>10

\* the steps of a session,
LEMMA SessionReached ==
  ASSUME IInv, Reached, NEW s \in Sessions, SessionStep(s) PROVE Reached'
<1>1. ar \in [ARs -> ArType]  BY DEF IInv, TypeOK
<1>2. sess[s].in_use /\ sess[s].from_me => sess[s].p_ar \in ARs /\ ar[sess[s].p_ar].in_use
  BY DEF IInv, Outgoing
<1>3. CASE \E sent \in BOOLEAN : Resend(s, sent)
  <2>1. PICK sent \in BOOLEAN : Resend(s, sent)  BY <1>3
  <2>2. \/ UNCHANGED <<ar, alarms>>
        \/ sess[s].in_use /\ sess[s].from_me /\ Aborts({sess[s].p_ar}, ar, sess)
    BY <2>1 DEF Resend
  <2>3. CASE UNCHANGED <<ar, alarms>>  BY <2>3, SameEndpoints
  <2> QED  BY <1>1, <1>2, <2>2, <2>3, AbortEndpoints
<1>4. CASE CControlCnf(s)
  <2> DEFINE a == sess[s].p_ar
             r == [ar[a] EXCEPT !.alarm_enable = TRUE,
                                !.cmdev = IF ar[a].ready_4_data THEN "DATA" ELSE "WDATA"]
  <2>1. /\ a \in ARs /\ UNCHANGED alarms
        /\ Event(a, r, "DATA", ar, Kill(s)) \/ ar' = [ar EXCEPT ![a] = r]
    BY <1>2, <1>4 DEF CControlCnf
  <2>2. ar[a] \in ArType  BY <1>1, <2>1
  <2>3. r \in ArType /\ r.in_use = ar[a].in_use /\ r.ref = ar[a].ref
    <3> DEFINE c == IF ar[a].ready_4_data THEN "DATA" ELSE "WDATA"
               q == [ar[a] EXCEPT !.alarm_enable = TRUE]
    <3>1. c \in {"POWER_ON", "W_CIND"} \cup Releasable  BY DEF Releasable
    <3>2. r = [q EXCEPT !.cmdev = c]  OBVIOUS
    <3>3. r.in_use = ar[a].in_use /\ r.ref = ar[a].ref  BY <2>2 DEF ArType
    <3>4. q \in ArType  BY <2>2, FieldTypes
    <3> HIDE DEF c, q, r, a
    <3> QED  BY <3>1, <3>2, <3>3, <3>4, FieldTypes
  <2> HIDE DEF r, a
  <2>4. CASE Event(a, r, "DATA", ar, Kill(s))  BY <1>1, <2>1, <2>3, <2>4, EventEndpoints
  <2>5. CASE ar' = [ar EXCEPT ![a] = r]
    <3>1. \A b \in ARs : ar'[b].in_use = ar[b].in_use /\ ar'[b].ref = ar[b].ref
      BY <1>1, <2>1, <2>3, <2>5
    <3> QED  BY <2>1, <3>1, SameEndpoints
  <2> QED  BY <2>1, <2>4, <2>5
<1>5. CASE CControlBad(s)  BY <1>5, SameEndpoints DEF CControlBad
<1>6. CASE PeerFault(s)
  <2>1. Aborts({sess[s].p_ar} \ {0}, ar, Kill(s))  BY <1>6 DEF PeerFault
  <2>2. {sess[s].p_ar} \ {0} \in SUBSET ARs  BY DEF IInv, TypeOK, SessType
  <2> QED  BY <1>1, <2>1, <2>2, AbortEndpoints
<1>7. CASE \E act \in Acts : Lookup(act, s)  BY <1>7, SameEndpoints DEF Lookup
<1>8. CASE LookupTimeout(s)  BY <1>8, SameEndpoints DEF LookupTimeout
<1> QED  BY <1>3, <1>4, <1>5, <1>6, <1>7, <1>8 DEF SessionStep

\* and the steps of an AR.
LEMMA ArReached == ASSUME IInv, Reached, NEW a \in ARs, ArStep(a) PROVE Reached'
<1>1. ar \in [ARs -> ArType] /\ ar[a] \in ArType  BY DEF IInv, TypeOK
<1>2. ASSUME \A b \in ARs \ {a} : ar'[b] = ar[b], UNCHANGED alarms,
             ar'[a].in_use = ar[a].in_use, ar'[a].ref = ar[a].ref
      PROVE  Reached'
  BY <1>2, SameEndpoints
<1>3. CASE \E sent \in BOOLEAN : AppReady(a, sent)
  <2> DEFINE r == [ar[a] EXCEPT !.cmdev = IF FreeSess = {} THEN "W_ARDY" ELSE "W_ARDYCNF"]
  <2>1. UNCHANGED alarms /\ ar' = [ar EXCEPT ![a] = Indicated(r, "APPLRDY")]
    BY <1>3 DEF AppReady, Event
  <2>2. r \in ArType  BY <1>1, FieldTypes DEF Releasable
  <2>3. r.in_use = ar[a].in_use /\ r.ref = ar[a].ref  BY <1>1 DEF ArType
  <2> HIDE DEF r
  <2>4. ar'[a].in_use = ar[a].in_use /\ ar'[a].ref = ar[a].ref
    BY <1>1, <2>1, <2>2, <2>3, RefKept
  <2>5. \A b \in ARs \ {a} : ar'[b] = ar[b]  BY <1>1, <2>1
  <2> QED  BY <1>2, <2>1, <2>4, <2>5
<1>4. CASE \E drop \in {0, 1} : CmioPoll(a, drop)
  <2> DEFINE ready == [ar[a] EXCEPT !.ready_4_data = ar[a].cmio_start]
  <2>1. /\ UNCHANGED alarms
        /\ \/ ar' = [ar EXCEPT ![a].reschedule = FALSE]
           \/ ar' = [ar EXCEPT ![a] = [Indicated(ready, "DATA") EXCEPT !.cmdev = "DATA"]]
           \/ ar' = [ar EXCEPT ![a] = ready]
           \/ ar' = [ar EXCEPT ![a] = ar[a]]
    BY <1>4 DEF CmioPoll
  <2>2. \A b \in ARs \ {a} : ar'[b] = ar[b]  BY <1>1, <2>1
  <2>3. ar[a].cmio_start \in BOOLEAN  BY <1>1 DEF ArType
  <2>4. ready \in ArType  BY <1>1, <2>3, FieldTypes
  <2>5. ready.in_use = ar[a].in_use /\ ready.ref = ar[a].ref  BY <1>1 DEF ArType
  <2> HIDE DEF ready
  <2>6. Indicated(ready, "DATA") \in ArType  BY <2>4, IndicatedType DEF Events
  <2>7. /\ [Indicated(ready, "DATA") EXCEPT !.cmdev = "DATA"].in_use = ar[a].in_use
        /\ [Indicated(ready, "DATA") EXCEPT !.cmdev = "DATA"].ref = ar[a].ref
    BY <2>4, <2>5, <2>6, RefKept DEF ArType
  <2>8. CASE ar' = [ar EXCEPT ![a].reschedule = FALSE]
    <3>1. ar'[a].in_use = ar[a].in_use /\ ar'[a].ref = ar[a].ref
      BY <1>1, <2>8 DEF ArType
    <3> QED  BY <1>2, <2>1, <2>2, <3>1
  <2>9. CASE ar' = [ar EXCEPT ![a] = [Indicated(ready, "DATA") EXCEPT !.cmdev = "DATA"]]
    BY <1>1, <1>2, <2>1, <2>2, <2>7, <2>9
  <2>10. CASE ar' = [ar EXCEPT ![a] = ready] \/ ar' = [ar EXCEPT ![a] = ar[a]]
    BY <1>1, <1>2, <2>1, <2>2, <2>5, <2>10
  <2> QED  BY <2>1, <2>8, <2>9, <2>10
<1>5. CASE CmsmTimeout(a)
  <2>1. Aborts({a}, ar, sess) \/ UNCHANGED <<ar, alarms>>  BY <1>5 DEF CmsmTimeout
  <2> QED  BY <1>1, <2>1, AbortEndpoints, SameEndpoints
<1>6. CASE CpmData(a)
  <2> DEFINE d == ar[a].cmio_start \/ ar[a].cmio = "WDATA"
  <2>1. UNCHANGED alarms /\ ar' = [ar EXCEPT ![a] = [ar[a] EXCEPT !.cpm = "RUN", !.cmio_start = d]]
    BY <1>1, <1>6 DEF CpmData
  <2>2. [ar[a] EXCEPT !.cpm = "RUN", !.cmio_start = d].in_use = ar[a].in_use
        /\ [ar[a] EXCEPT !.cpm = "RUN", !.cmio_start = d].ref = ar[a].ref
    BY <1>1 DEF ArType
  <2> QED  BY <1>1, <1>2, <2>1, <2>2
<1>7. CASE CpmStop(a)
  <2> DEFINE d == ar[a].cmio_start /\ ar[a].cmio # "WDATA"
             q == [ar[a] EXCEPT !.cpm = "W_START", !.cmio_start = d]
  <2>1. Aborts({a}, ar, sess) \/ (UNCHANGED alarms /\ ar' = [ar EXCEPT ![a] = q])
    BY <1>1, <1>7 DEF CpmStop
  <2>2. q.in_use = ar[a].in_use /\ q.ref = ar[a].ref  BY <1>1 DEF ArType
  <2> HIDE DEF q
  <2>3. CASE UNCHANGED alarms /\ ar' = [ar EXCEPT ![a] = q]
    BY <1>1, <1>2, <2>2, <2>3
  <2> QED  BY <1>1, <2>1, <2>3, AbortEndpoints
<1>8. CASE StackAbort(a)
  <2>1. Aborts({a}, ar, sess)  BY <1>8 DEF StackAbort
  <2> QED  BY <1>1, <2>1, AbortEndpoints
<1> QED  BY <1>3, <1>4, <1>5, <1>6, <1>7, <1>8 DEF ArStep

\* Every step leaves the endpoints right.
LEMMA StepReached ==
  ASSUME IInv, Reached, Orderly, EarlyRefusals, [Next]_vars PROVE Reached'
<1>1. CASE Request  BY <1>1, RequestReached
<1>2. CASE \E s \in Sessions : SessionStep(s)  BY <1>2, SessionReached
<1>3. CASE \E a \in ARs : ArStep(a)  BY <1>3, ArReached
<1>4. CASE AbortAll
  <2>1. Aborts(Used, ar, sess) /\ Used \in SUBSET ARs /\ ar \in [ARs -> ArType]
    BY <1>4 DEF AbortAll, Used, IInv, TypeOK
  <2> QED  BY <2>1, AbortEndpoints
<1>5. CASE UNCHANGED vars  BY <1>5, SameEndpoints DEF vars
<1> QED  BY <1>1, <1>2, <1>3, <1>4, <1>5 DEF Next

\* The alarm reference that an AR gave its controller leads to it, and the handler
\* for alarm frames is there exactly once, however ARs come and go, unless a
\* Connect is refused after its endpoint was allocated.
THEOREM AlarmsArrive == ASSUME Orderly, EarlyRefusals PROVE Spec => []AlarmsReachAr
<1>1. Init => Reached
  <2> SUFFICES ASSUME Init PROVE Reached  OBVIOUS
  <2>1. \A a \in ARs : ~ ar[a].in_use  BY NoArType DEF Init
  <2>2. \A i \in ARs : endpoint[i] = NoEndpoint /\ endpoint[i].p_ar = 0
    BY DEF Init, NoEndpoint
  <2>3. Used = {} /\ alarmRx = 0  BY <2>1 DEF Used, Init
  <2> QED  BY <2>1, <2>2, <2>3 DEF Reached
<1>2. IInv /\ Reached /\ [Next]_vars => Reached'  BY StepReached
<1>3. IInv /\ Reached => AlarmsReachAr
  <2> SUFFICES ASSUME Reached PROVE AlarmsReachAr  OBVIOUS
  <2>1. ASSUME NEW a \in Used
        PROVE  ar[a].ref # 0 /\ endpoint[ar[a].ref] = [p_ar |-> a, active |-> TRUE]
    BY IndexSets DEF Reached, Used
  <2> QED  BY <2>1 DEF AlarmsReachAr, Reached
<1> QED  BY <1>1, <1>2, <1>3, Invariance, PTL DEF Spec
=============================================================================
