-------------------------------- MODULE Cpm --------------------------------
(***************************************************************************)
(* The consumer of cyclic data of one output IOCR: pf_cpm.c and            *)
(* pf_cpm_driver_sw.c, with the part of CMIO that listens to it and the    *)
(* AR around it.                                                           *)
(*                                                                         *)
(* Two threads share the pf_cpm_t.  The Ethernet thread runs the frame     *)
(* handler pf_cpm_c_data_ind(); the main thread runs the control interval  *)
(* (a scheduler callback that counts dht), opens and closes the AR and     *)
(* reads the data.  Only the swap of the two buffers is under a mutex:     *)
(* every other access is a step of its own here.                           *)
(*                                                                         *)
(* A frame is the number of its transmission; it carries that number       *)
(* modulo Modulus as its cycle counter.  A received frame is a buffer,     *)
(* named by the same number; 0 is the NULL pointer.                        *)
(***************************************************************************)
EXTENDS Integers

CONSTANTS
  Hold,       \* data_hold_factor
  Modulus,    \* range of the cycle counter: 2^16
  Window,     \* largest step ahead that is accepted: 61440
  Reorder,    \* a frame is overtaken by at most so many others
  MaxFrames,  \* bound: frames the controller sends
  RaceSets    \* which accesses of the main thread may fall in a frame handler

Races == {"count", "stop", "close"}

ASSUME CounterAssumption ==
  /\ Hold \in Nat \ {0} /\ Modulus \in Nat /\ Window \in Nat \ {0}
  /\ Reorder \in Nat /\ Reorder + Window < Modulus
  /\ MaxFrames \in Nat
ASSUME RaceAssumption == RaceSets \subseteq SUBSET Races

VARIABLES
  races,   \* the races of this platform, fixed at the start
  cpm,     \* the pf_cpm_t: state, dht, ci_running, cycle, the buffers, new_buf
  armed,   \* the control interval timer is in the scheduler
  mapped,  \* the frame id is in eth_id_map
  ar,      \* the AR: start-up mode, CMIO's state, cmio_start and ready_4_data
  eth,     \* the frame handler: its place, frame, verdict and p_buf
  main,    \* the main thread's callback: its place and the dht it has read
  live,    \* buffers allocated and not yet freed
  sent,    \* the frames sent so far
  newest,  \* history: the last frame taken by put_buf in this connection
  quiet,   \* history: control intervals begun since dht was last reset
  read     \* history: the frame the application read last, and its p_new_flag

vars == <<races, cpm, armed, mapped, ar, eth, main, live, sent, newest, quiet,
          read>>

Never    == -1                     \* cpm.cycle before the first frame
Frames   == 1 .. MaxFrames
Buffers  == 0 .. MaxFrames
Cleared  == [state |-> "W_START", dht |-> 0, running |-> FALSE, cycle |-> 0,
             cpmBuf |-> 0, appBuf |-> 0, newBuf |-> FALSE]
NoAr     == [legacy |-> FALSE, cmio |-> "IDLE", start |-> FALSE, ready |-> FALSE]
EthIdle  == eth.pc = "idle"
MainIdle == main.pc = "idle"
Held(b)  == IF b = 0 THEN 0 ELSE 1

Init ==
  /\ races \in RaceSets
  /\ cpm = Cleared /\ armed = FALSE /\ mapped = FALSE /\ ar = NoAr
  /\ eth = [pc |-> "idle", frame |-> 0, ok |-> FALSE, buf |-> 0]
  /\ main = [pc |-> "idle", dht |-> 0]
  /\ live = 0 /\ sent = 0 /\ newest = 0 /\ quiet = 0
  /\ read = [frame |-> 0, new |-> FALSE]

\* May the main thread do r now?  And may a frame be handled while it is there?
Alone(r) == r \in races \/ EthIdle
StepsOf == [count |-> {"count"}, stop  |-> {"stop", "halt"},
            close |-> {"close", "unmap", "free", "clear"}]
FramesPass == \A r \in Races : main.pc \in StepsOf[r] => r \in races

-----------------------------------------------------------------------------
(* The network and the Ethernet thread.                                     *)

Send == /\ sent < MaxFrames /\ sent' = sent + 1
        /\ UNCHANGED <<races, cpm, armed, mapped, ar, eth, main, live, newest,
                       quiet, read>>

\* A frame that was sent arrives: in order or late, once, twice or never.  ok is
\* false for one of another length, source or transfer status, or without valid
\* data.
Receive ==
  /\ EthIdle /\ mapped /\ FramesPass
  /\ \E n \in Frames, ok \in BOOLEAN :
       /\ n <= sent /\ n + Reorder >= sent
       /\ eth' = [pc |-> "check", frame |-> n, ok |-> ok, buf |-> n]
  /\ live' = live + 1
  /\ UNCHANGED <<races, cpm, armed, mapped, ar, main, sent, newest, quiet, read>>

CycleOk(prev, n) == (n - prev) % Modulus \in 1 .. Window

\* The state, the frame and its counter decide.
Check ==
  /\ eth.pc = "check"
  /\ eth' = [eth EXCEPT !.pc =
       IF cpm.state = "W_START" \/ ~ eth.ok \/ ~ CycleOk(cpm.cycle, eth.frame)
         THEN "free"
         ELSE IF cpm.state = "FRUN" THEN "start" ELSE "put"]
  /\ UNCHANGED <<races, cpm, armed, mapped, ar, main, live, sent, newest, quiet,
                 read>>

\* What CMIO makes of cpm_state_ind and new_data_ind.
Hears(value) == [ar EXCEPT !.start = IF ar.cmio = "WDATA" THEN value ELSE @]

\* The first frame: CPM is starting.
Start == /\ eth.pc = "start"
         /\ ar' = Hears(TRUE)
         /\ eth' = [eth EXCEPT !.pc = "put"]
         /\ UNCHANGED <<races, cpm, armed, mapped, main, live, sent, newest,
                        quiet, read>>

\* Mutant: new_buf is not set again while the application has not read.
SwappedQuietly(b) == [cpm EXCEPT !.cpmBuf = b, !.newBuf = cpm.cpmBuf = 0]
Swapped(b) == [cpm EXCEPT !.cpmBuf = b, !.newBuf = TRUE]

\* pf_cpm_put_buf(): the older buffer comes back in p_buf.
PutBuf == /\ eth.pc = "put"
          /\ cpm' = Swapped(eth.buf)
          /\ eth' = [eth EXCEPT !.pc = "tell", !.buf = cpm.cpmBuf]
          /\ newest' = eth.frame
          /\ UNCHANGED <<races, armed, mapped, ar, main, live, sent, quiet, read>>

Tell == /\ eth.pc = "tell"
        /\ ar' = Hears(TRUE)
        /\ eth' = [eth EXCEPT !.pc = "reload"]
        /\ UNCHANGED <<races, cpm, armed, mapped, main, live, sent, newest,
                       quiet, read>>

\* Mutant: only the first frame resets dht.
ReloadedOnce(n) ==
  [cpm EXCEPT !.dht = IF cpm.state = "FRUN" THEN 0 ELSE @, !.cycle = n % Modulus]
Reloaded(n) == [cpm EXCEPT !.dht = 0, !.cycle = n % Modulus]

\* dht, and the counter that only this thread uses while the CPM is active.
Reload == /\ eth.pc = "reload"
          /\ cpm' = Reloaded(eth.frame)
          /\ quiet' = 0
          /\ eth' = [eth EXCEPT !.pc = "run"]
          /\ UNCHANGED <<races, armed, mapped, ar, main, live, sent, newest, read>>

Run == /\ eth.pc = "run"
       /\ cpm' = [cpm EXCEPT !.state = "RUN"]
       /\ eth' = [eth EXCEPT !.pc = "free"]
       /\ UNCHANGED <<races, armed, mapped, ar, main, live, sent, newest, quiet,
                      read>>

FreeBuf == /\ eth.pc = "free"
           /\ live' = live - Held(eth.buf)
           /\ eth' = [pc |-> "idle", frame |-> 0, ok |-> FALSE, buf |-> 0]
           /\ UNCHANGED <<races, cpm, armed, mapped, ar, main, sent, newest,
                          quiet, read>>

Handler == Check \/ Start \/ PutBuf \/ Tell \/ Reload \/ Run \/ FreeBuf

-----------------------------------------------------------------------------
(* The AR opens: pf_cpm_create() and pf_cpm_activate_req().                 *)

\* The frame id is mapped first, then the timer is armed, then the state is set.
Activate ==
  /\ MainIdle /\ ar.cmio = "IDLE"
  /\ \E mode \in BOOLEAN : ar' = [NoAr EXCEPT !.legacy = mode, !.cmio = "CREATED"]
  /\ cpm' = [Cleared EXCEPT !.cycle = Never]
  /\ mapped' = TRUE
  /\ main' = [main EXCEPT !.pc = "arm"]
  /\ newest' = 0 /\ quiet' = 0 /\ read' = [frame |-> 0, new |-> FALSE]
  /\ UNCHANGED <<races, armed, eth, live, sent>>

Arm == /\ main.pc = "arm"
       /\ armed' = TRUE
       /\ cpm' = [cpm EXCEPT !.running = TRUE]
       /\ main' = [main EXCEPT !.pc = "frun"]
       /\ UNCHANGED <<races, mapped, ar, eth, live, sent, newest, quiet, read>>

\* CPM waits for its first frame, and CMDEV goes on with the start-up.
Frun == /\ main.pc = "frun"
        /\ cpm' = [cpm EXCEPT !.state = "FRUN"]
        /\ ar' = [ar EXCEPT !.cmio = "STARTUP"]
        /\ main' = [main EXCEPT !.pc = "idle"]
        /\ UNCHANGED <<races, armed, mapped, eth, live, sent, newest, quiet, read>>

\* PrmEnd, a poll of CMIO, and the confirmation that ends the start-up.
PrmEnd == /\ MainIdle /\ ar.cmio = "STARTUP"
          /\ ar' = [ar EXCEPT !.cmio = "WDATA"]
          /\ UNCHANGED <<races, cpm, armed, mapped, eth, main, live, sent, newest,
                         quiet, read>>

Polled == ar.start

Poll == /\ MainIdle /\ ar.cmio = "WDATA"
        /\ ar' = [ar EXCEPT !.ready = Polled]
        /\ UNCHANGED <<races, cpm, armed, mapped, eth, main, live, sent, newest,
                       quiet, read>>

Data == /\ MainIdle /\ ar.cmio = "WDATA" /\ ar.ready
        /\ ar' = [ar EXCEPT !.cmio = "DATA"]
        /\ UNCHANGED <<races, cpm, armed, mapped, eth, main, live, sent, newest,
                       quiet, read>>

-----------------------------------------------------------------------------
(* The control interval.                                                    *)

\* Without a frame since the activation nothing is counted: the timer reloads.
Expired == MainIdle /\ armed

HoldExpired == cpm.dht >= Hold

\* The callback has read dht and is about to write it back one larger.
ExpireCount ==
  /\ Expired /\ cpm.running /\ cpm.state = "RUN" /\ ~ HoldExpired
  /\ Alone("count")
  /\ armed' = FALSE
  /\ main' = [pc |-> "count", dht |-> cpm.dht]
  /\ quiet' = quiet + 1
  /\ UNCHANGED <<races, cpm, mapped, ar, eth, live, sent, newest, read>>

\* Mutant: a refused timer is only logged.
RearmOrNot(then) == armed' \in BOOLEAN /\ main' = [pc |-> then, dht |-> 0]
\* The callback of a CPM that waits, or that dht++ has just served, arms itself
\* again; when the scheduler refuses, the AR is aborted.
Rearm(then) == \/ armed' = TRUE /\ main' = [pc |-> then, dht |-> 0]
               \/ armed' = FALSE /\ Alone("close")
                  /\ main' = [pc |-> "close", dht |-> 0]

Count ==
  /\ main.pc = "count"
  /\ cpm' = [cpm EXCEPT !.dht = main.dht + 1]
  /\ Rearm("idle")
  /\ UNCHANGED <<races, mapped, ar, eth, live, sent, newest, quiet, read>>

ExpireWait ==
  /\ Expired /\ cpm.running /\ cpm.state # "RUN"
  /\ Rearm("idle")
  /\ UNCHANGED <<races, cpm, mapped, ar, eth, live, sent, newest, quiet, read>>

\* dht has expired.
ExpireStop ==
  /\ Expired /\ cpm.running /\ cpm.state = "RUN" /\ HoldExpired
  /\ Alone("stop")
  /\ armed' = FALSE
  /\ main' = [pc |-> "stop", dht |-> 0]
  /\ quiet' = quiet + 1
  /\ UNCHANGED <<races, cpm, mapped, ar, eth, live, sent, newest, read>>

\* CMIO aborts the AR in DATA, and in the start-up of the legacy mode.
Aborts == ar.cmio = "DATA" \/ (ar.cmio = "STARTUP" /\ ar.legacy)

Stop ==
  /\ main.pc = "stop"
  /\ cpm' = [cpm EXCEPT !.dht = 0, !.running = FALSE]
  /\ ar' = Hears(FALSE)
  /\ IF Aborts THEN Alone("close") /\ main' = [main EXCEPT !.pc = "close"]
               ELSE main' = [main EXCEPT !.pc = "halt"]
  /\ UNCHANGED <<races, armed, mapped, eth, live, sent, newest, quiet, read>>

Halt == /\ main.pc = "halt"
        /\ cpm' = [cpm EXCEPT !.state = "W_START"]
        /\ main' = [main EXCEPT !.pc = "idle"]
        /\ UNCHANGED <<races, armed, mapped, ar, eth, live, sent, newest, quiet,
                       read>>

-----------------------------------------------------------------------------
(* The AR closes: pf_cpm_close_req(), then the record is cleared.           *)

\* A release, a fault or an abort from elsewhere.
Abort == /\ MainIdle /\ ar.cmio \in {"STARTUP", "WDATA", "DATA"} /\ Alone("close")
         /\ main' = [main EXCEPT !.pc = "close"]
         /\ UNCHANGED <<races, cpm, armed, mapped, ar, eth, live, sent, newest,
                        quiet, read>>

Close == /\ main.pc = "close"
         /\ cpm' = [cpm EXCEPT !.state = "W_START"]
         /\ main' = [main EXCEPT !.pc = "unmap"]
         /\ UNCHANGED <<races, armed, mapped, ar, eth, live, sent, newest, quiet,
                        read>>

Unmap == /\ main.pc = "unmap"
         /\ cpm' = [cpm EXCEPT !.running = FALSE]
         /\ armed' = FALSE /\ mapped' = FALSE
         /\ main' = [main EXCEPT !.pc = "free"]
         /\ UNCHANGED <<races, ar, eth, live, sent, newest, quiet, read>>

\* Mutant: only the buffer the application holds is given back.
ReturnedApp == Held(cpm.appBuf)
Returned == Held(cpm.cpmBuf) + Held(cpm.appBuf)

FreeBufs == /\ main.pc = "free"
            /\ live' = live - Returned
            /\ main' = [main EXCEPT !.pc = "clear"]
            /\ UNCHANGED <<races, cpm, armed, mapped, ar, eth, sent, newest,
                           quiet, read>>

\* pf_ar_release().  A callback that was on its way to W_START gets there too.
Clear == /\ main.pc = "clear"
         /\ cpm' = Cleared /\ ar' = NoAr
         /\ main' = [main EXCEPT !.pc = "idle"]
         /\ UNCHANGED <<races, armed, mapped, eth, live, sent, newest, quiet, read>>

Callback == \/ ExpireCount \/ ExpireWait \/ ExpireStop \/ Count \/ Stop \/ Halt
            \/ Close \/ Unmap \/ FreeBufs \/ Clear

-----------------------------------------------------------------------------
(* The application reads.                                                   *)

\* pf_cpm_get_buf(): the newest buffer becomes the application's.
Fetched == IF cpm.newBuf
             THEN [cpm EXCEPT !.appBuf = cpm.cpmBuf, !.cpmBuf = cpm.appBuf,
                              !.newBuf = FALSE]
             ELSE cpm

\* pnet_output_get_data_and_iops().
ReadOutput ==
  /\ MainIdle /\ cpm.state \in {"FRUN", "RUN"}
  /\ cpm' = Fetched
  /\ read' = [frame |-> cpm'.appBuf, new |-> cpm.newBuf]
  /\ UNCHANGED <<races, armed, mapped, ar, eth, main, live, sent, newest, quiet>>

\* pnet_input_get_iocs() moves the same buffers and drops the flag.
ReadIocs ==
  /\ MainIdle /\ cpm.state \in {"FRUN", "RUN"}
  /\ cpm' = Fetched
  /\ read' = [read EXCEPT !.frame = cpm'.appBuf]
  /\ UNCHANGED <<races, armed, mapped, ar, eth, main, live, sent, newest, quiet>>

Next == \/ Send \/ Receive \/ Handler
        \/ Activate \/ Arm \/ Frun \/ PrmEnd \/ Poll \/ Data
        \/ Callback \/ Abort \/ ReadOutput \/ ReadIocs

\* Both threads get on with what they have begun, and the scheduler calls.
Fairness == WF_vars(Handler) /\ WF_vars(Callback)

Spec == Init /\ [][Next]_vars /\ Fairness

-----------------------------------------------------------------------------
(* Properties.                                                              *)

CpmType  == [state : {"W_START", "FRUN", "RUN"}, dht : 0 .. Hold,
             running : BOOLEAN, cycle : {Never} \cup 0 .. Modulus - 1,
             cpmBuf : Buffers, appBuf : Buffers, newBuf : BOOLEAN]
ArType   == [legacy : BOOLEAN, start : BOOLEAN, ready : BOOLEAN,
             cmio : {"IDLE", "CREATED", "STARTUP", "WDATA", "DATA"}]
EthType  == [pc : {"idle", "check", "start", "put", "tell", "reload", "run",
                   "free"},
             frame : Buffers, ok : BOOLEAN, buf : Buffers]
MainType == [pc : {"idle", "arm", "frun", "count", "stop", "halt", "close",
                   "unmap", "free", "clear"}, dht : 0 .. Hold - 1]
ReadType == [frame : Buffers, new : BOOLEAN]

\* Every variable stays within its type.
TypeOK ==
  /\ races \in SUBSET Races /\ cpm \in CpmType
  /\ armed \in BOOLEAN /\ mapped \in BOOLEAN
  /\ ar \in ArType /\ eth \in EthType /\ main \in MainType
  /\ live \in Nat /\ sent \in Buffers /\ newest \in Buffers
  /\ quiet \in 0 .. Hold + 1 /\ read \in ReadType

\* Between the allocation and the free every frame buffer has exactly one owner:
\* the handler, the CPM or the application (pf_types.h, p_buffer_app and
\* p_buffer_cpm).  None leaks, none is freed twice, whichever thread swaps.
BuffersOwned ==
  main.pc # "clear" =>
    live = Held(cpm.cpmBuf) + Held(cpm.appBuf) + Held(eth.buf)

\* The 16-bit counter keeps the frames of a connection in order: a duplicate or
\* a frame that was overtaken never replaces newer data, also when the counter
\* wraps and frames are lost (pf_cpm_check_cycle).
InOrder == [][newest' # newest => newest' = 0 \/ newest' > newest]_vars

\* The application reads the newest frame that the handler has taken, and
\* p_new_flag is true exactly when that is another frame than it had before,
\* however the swaps of the two threads interleave (pf_cpm_get_buf).
NewestRead ==
  [][ReadOutput => /\ read'.frame = newest
                   /\ read'.new <=> newest # read.frame]_vars

\* The data hold time is neither cut short nor exceeded: the CPM stops at the
\* interval after Hold full ones without a frame, provided that dht++ of the
\* callback does not fall into a frame handler.
HoldRespected ==
  [][main'.pc = "stop" /\ main.pc # "stop" /\ "count" \notin races
       => quiet' = Hold + 1]_vars

\* A CPM in RUN has its control interval armed, so that a controller that goes
\* silent is noticed.
RunIsWatched == MainIdle /\ cpm.state = "RUN" => armed /\ cpm.running /\ mapped

\* Timer, frame map and AR go together over any number of connections: nothing
\* of a closed AR stays registered, and where the stop of the watchdog does not
\* fall into a frame handler, RUN is watched.
Supervised ==
  /\ MainIdle /\ ar.cmio = "IDLE" => ~ armed /\ ~ mapped
  /\ "stop" \notin races => RunIsWatched

\* The AR is in DATA only when a frame of this connection has been taken, or is
\* about to be stored by the handler that told CMIO.
DataHasArrived == ar.cmio = "DATA" => newest # 0 \/ eth.pc = "put"

\* When frames stop arriving for good the CPM leaves RUN (and in DATA the AR is
\* aborted), provided that the stop does not fall into a frame handler.
WatchdogStops ==
  "stop" \notin races /\ <>[]EthIdle => <>[](cpm.state # "RUN")

\* What the application has of a connection is real, in order and the newest
\* (pf_cpm_driver_sw.c, pf_cpm.c, between the two threads).
DataTrue == []DataHasArrived /\ InOrder /\ NewestRead

\* The watchdog of the connection runs its time, and runs out (pf_cpm_control_interval_expired).
Watched == HoldRespected /\ WatchdogStops
=============================================================================
