-------------------------------- MODULE Ppm --------------------------------
(***************************************************************************)
(* The provider of an AR's input data: pf_ppm.c and its driver,            *)
(* pf_ppm_driver_sw.c.  An AR has one IOCR of type INPUT (PNET_MAX_CR is 2 *)
(* and each AR needs an OUTPUT too), so a PPM is named by its AR.          *)
(*                                                                         *)
(* The application's thread writes data and status into buffer_data under  *)
(* ppm_buf_lock; the timer of the main thread copies them into the frame   *)
(* under the same lock.  Times are in half ticks of the stack.             *)
(***************************************************************************)
EXTENDS Integers, FiniteSets

CONSTANTS
  Ars,        \* the ARs, one PPM each
  Interval,   \* [Ars -> control_interval], in half ticks
  Step,       \* send_clock_factor * reduction_ratio: of the cycle counter
  CycleMod,   \* size of the cycle counter's range: 2^16
  ClockMod,   \* size of the clock's range: 2^32 us
  MaxDelay,   \* PF_SCHEDULER_MAX_DELAY_US
  MaxLate,    \* bound: ticks that pass at once when the main thread is late
  MaxWrites   \* bound: calls of pnet_input_set_data_and_iops()

Nobody == "nobody"

\* No cycle is shorter than a tick (min_device_interval) or as long as the
\* longest delay, 100 s, and the range of the clock holds every distance that
\* is compared.
ASSUME PpmAssumption ==
  /\ IsFiniteSet(Ars) /\ Nobody \notin Ars
  /\ Interval \in [Ars -> Nat] /\ \A a \in Ars : Interval[a] \in 2 .. MaxDelay - 1
  /\ {Step, CycleMod, ClockMod, MaxDelay, MaxLate, MaxWrites} \subseteq Nat \ {0}
  /\ 2 * Step < CycleMod
  /\ ClockMod > MaxDelay + 2 * (MaxLate + 1)

VARIABLES
  now,       \* ticks
  ppm,       \* per AR: the PPM
  buffer,    \* per AR: buffer_data, the writes its data and its IOPS are of
  frame,     \* per AR: what was sent last
  writer,    \* the application inside of the lock: the AR, or Nobody
  writes,    \* its calls
  instances, \* ppm_instance_cnt
  lock,      \* ppm_buf_lock is there
  refused    \* history: ARs with a frame that the Ethernet driver refused

ppmVars == <<now, ppm, buffer, frame, writer, writes, instances, lock, refused>>

\* The status that says: primary, valid, no problem.
FirstStatus == {"STATE", "DATA_VALID", "NO_PROBLEM"}
NoPpm == [state |-> "W_START", created |-> FALSE, running |-> FALSE, armed |-> FALSE,
          due |-> 0, next |-> 0, cycle |-> 0, status |-> {}, first |-> FALSE,
          began |-> 0, sent |-> 0, ran |-> 0]
NoFrame == [data |-> 0, iops |-> 0, cycle |-> 0, status |-> {}]

PpmInit ==
  /\ now = 0 /\ ppm = [a \in Ars |-> NoPpm]
  /\ buffer = [a \in Ars |-> [data |-> 0, iops |-> 0]]
  /\ frame = [a \in Ars |-> NoFrame]
  /\ writer = Nobody /\ writes = 0 /\ instances = 0 /\ lock = FALSE /\ refused = {}

Clock == (2 * now) % ClockMod   \* os_get_current_time_us()

\* pf_scheduler_sanitize_delay(), in ticks: at least one, to the nearest; a
\* deadline that was missed looks like a huge delay.
TicksTo(wanted) ==
  LET delay == IF wanted > MaxDelay THEN 0 ELSE wanted
  IN IF delay > 3 THEN (delay + 1) \div 2 ELSE 1

\* Mutant: the counter is what it was: rounded down to a whole number of steps.
NextCycleRounded(cycle) == ((cycle \div Step) * Step) % CycleMod

\* pf_ppm_calculate_next_cyclecounter()
NextCycle(cycle) == ((cycle \div Step + 1) * Step) % CycleMod

\* pf_ppm_finish_buffer(): the frame is filled in.  The lock is free: its
\* holder does not wait inside of it.
Finished(a) == [data |-> buffer[a].data, iops |-> buffer[a].iops,
                cycle |-> NextCycle(ppm[a].cycle), status |-> ppm[a].status]

-----------------------------------------------------------------------------
(* What CMSU calls.                                                        *)

\* pf_ppm_create(): the lock is made for the first of all.
Create(a) ==
  /\ ~ppm[a].created
  /\ instances' = instances + 1 /\ lock' = (lock \/ instances = 0)
  /\ ppm' = [ppm EXCEPT ![a] = [NoPpm EXCEPT !.created = TRUE, !.status = FirstStatus]]
  /\ buffer' = [buffer EXCEPT ![a] = [data |-> 0, iops |-> 0]]
  /\ frame' = [frame EXCEPT ![a] = NoFrame]
  /\ refused' = refused \ {a}
  /\ UNCHANGED <<now, writer, writes>>

\* Mutant: a timer that could not be armed is not reported.
ClosedButLock(a) ==
  /\ ppm' = [ppm EXCEPT ![a] = NoPpm]
  /\ instances' = instances - 1 /\ lock' = lock

\* pf_ppm_close_req(), for an AR that is aborted or released.
Closed(a) ==
  /\ ppm' = [ppm EXCEPT ![a] = NoPpm]
  /\ instances' = instances - 1 /\ lock' = (lock /\ instances # 1)

\* The application does not call while one of its connections ends.
Close(a) ==
  /\ ppm[a].created /\ writer = Nobody
  /\ Closed(a)
  /\ UNCHANGED <<now, buffer, frame, writer, writes, refused>>

\* pf_ppm_activate_req(), at the end of the parameters.  When the scheduler
\* has no timer for it, the AR is aborted.
Activate(a) ==
  /\ ppm[a].created /\ ppm[a].state = "W_START" /\ writer # a
  /\ ppm' = [ppm EXCEPT ![a].state = "RUN", ![a].running = TRUE,
                        ![a].next = (Clock + Interval[a]) % ClockMod,
                        ![a].cycle = NextCycle(@),
                        ![a].armed = TRUE, ![a].due = now + TicksTo(Interval[a]),
                        ![a].began = 2 * now, ![a].ran = now]
  /\ UNCHANGED <<now, buffer, frame, writer, writes, instances, lock, refused>>
ActivateFails(a) ==
  /\ ppm[a].created /\ ppm[a].state = "W_START" /\ writer = Nobody
  /\ Closed(a)
  /\ UNCHANGED <<now, buffer, frame, writer, writes, refused>>

-----------------------------------------------------------------------------
(* The timer: pf_ppm_drv_sw_send().                                        *)

Expired(a) == ppm[a].armed /\ ppm[a].due <= now
\* The main thread runs what has expired before it waits for another tick.
Tick(n) ==
  /\ \A a \in Ars : ~Expired(a)
  /\ n \in 1 .. MaxLate /\ now' = now + n
  /\ UNCHANGED <<ppm, buffer, frame, writer, writes, instances, lock, refused>>

MayCopy(a) == writer # a
\* Mutant: each deadline is counted from the moment the last frame was sent at.
NextExecFromNow(a) == (Clock + Interval[a]) % ClockMod

\* The deadlines are counted from the first one.
NextExec(a) == (ppm[a].next + Interval[a]) % ClockMod
Send(a) ==
  /\ Expired(a) /\ ppm[a].running /\ MayCopy(a)
  /\ frame' = [frame EXCEPT ![a] = Finished(a)]
  /\ LET next == NextExec(a)
     IN ppm' = [ppm EXCEPT ![a].cycle = NextCycle(@), ![a].next = next, ![a].first = TRUE,
                           ![a].due = now + TicksTo((next - Clock) % ClockMod),
                           ![a].sent = @ + 1, ![a].ran = now]
  /\ UNCHANGED <<now, buffer, writer, writes, instances, lock, refused>>

\* The driver refuses the frame: nothing more is done, and nothing said.
SendRefused(a) ==
  /\ Expired(a) /\ ppm[a].running /\ MayCopy(a)
  /\ ppm' = [ppm EXCEPT ![a].armed = FALSE, ![a].cycle = NextCycle(@)]
  /\ refused' = refused \cup {a}
  /\ UNCHANGED <<now, buffer, frame, writer, writes, instances, lock>>

\* The frame is sent, but there is no timer for the next: the AR is aborted.
SendLast(a) ==
  /\ Expired(a) /\ ppm[a].running /\ writer = Nobody
  /\ frame' = [frame EXCEPT ![a] = Finished(a)]
  /\ Closed(a)
  /\ UNCHANGED <<now, buffer, writer, writes, refused>>

-----------------------------------------------------------------------------
(* The application.                                                        *)

\* pf_ppm_set_data_and_iops(): under the lock, first the data, then the IOPS;
\* also before the first frame.  Wrong lengths are refused.
SetData(a) ==
  /\ writer = Nobody /\ writes < MaxWrites /\ ppm[a].created
  /\ writes' = writes + 1 /\ writer' = a
  /\ buffer' = [buffer EXCEPT ![a].data = writes + 1]
  /\ UNCHANGED <<now, ppm, frame, instances, lock, refused>>
SetIops ==
  /\ writer # Nobody
  /\ buffer' = [buffer EXCEPT ![writer].iops = buffer[writer].data]
  /\ writer' = Nobody
  /\ UNCHANGED <<now, ppm, frame, writes, instances, lock, refused>>

\* pf_ppm_set_data_status_provider() and _redundancy() of pnet_api.h, for all.
SetStatus(bit, on) ==
  /\ ppm' = [a \in Ars |-> IF ~ppm[a].created THEN ppm[a]
                           ELSE [ppm[a] EXCEPT !.status = IF on THEN @ \cup {bit} ELSE @ \ {bit}]]
  /\ UNCHANGED <<now, buffer, frame, writer, writes, instances, lock, refused>>

\* pf_ppm_set_problem_indicator(): 0 is a problem.
WithProblem(p, problem) ==
  [p EXCEPT !.status = IF problem THEN @ \ {"NO_PROBLEM"} ELSE @ \cup {"NO_PROBLEM"}]

PpmNext ==
  \/ \E a \in Ars : \/ Create(a) \/ Close(a) \/ Activate(a) \/ ActivateFails(a)
                    \/ Send(a) \/ SendRefused(a) \/ SendLast(a) \/ SetData(a)
  \/ \E n \in 1 .. MaxLate : Tick(n)
  \/ SetIops
  \/ \E bit \in {"PROVIDER", "REDUNDANCY"}, on \in BOOLEAN : SetStatus(bit, on)

-----------------------------------------------------------------------------
(* Properties.                                                             *)

\* Each frame is sent half a tick around its place in the cycle that began
\* with the activation, and after the main thread was late one frame each
\* tick until that is so again: neither the rounding of a delay nor a missed
\* deadline, a difference below zero in the clock's range, adds up.
OnSchedule ==
  \A a \in Ars : ppm[a].armed =>
    LET deadline == ppm[a].began + (ppm[a].sent + 1) * Interval[a]
    IN /\ 2 * ppm[a].due >= deadline - 1
       /\ 2 * ppm[a].due <= deadline + 1 \/ ppm[a].due = ppm[a].ran + 1

\* A frame has data and a status of one call of the application, whatever the
\* moment it is sent at.
FrameWhole == \A a \in Ars : frame[a].data = frame[a].iops

\* A consumer that compares the counters takes each new frame of a connection
\* as newer than the one before it (pf_cpm_check_cycle(), of the other side).
Newer(new, old) ==
  (new - old) % CycleMod \in 1 .. CycleMod - CycleMod \div 16
CountersAdvance ==
  [][\A a \in Ars : ppm'[a].sent = ppm[a].sent + 1 /\ frame[a] # NoFrame
       => Newer(frame'[a].cycle, frame[a].cycle)]_ppmVars

\* What is sent is whole and newer than what was sent before (pf_ppm_finish_buffer).
FramesRight == []FrameWhole /\ CountersAdvance

\* A provider that runs is silent only after the driver refused a frame, and
\* the lock is there as long as there is a provider.
SilentOnlyWhenRefused ==
  /\ \A a \in Ars : ppm[a].running /\ ~ppm[a].armed => a \in refused
  /\ lock = (\E a \in Ars : ppm[a].created)
  /\ instances = Cardinality({a \in Ars : ppm[a].created})
=============================================================================
