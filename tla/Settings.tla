------------------------------ MODULE Settings ------------------------------
(* What the device keeps about itself: device/pf_cmina.c (station name and   *)
(* IP suite), the location in I&M1 (device/pf_fspm.c) and in SNMP            *)
(* (common/pf_snmp.c), the thread that saves them (common/pf_bg_worker.c)    *)
(* and the files it saves them in (common/pf_file.c).                        *)
(*                                                                           *)
(* Four threads meet here.  DCP Set frames come in the Ethernet thread, one  *)
(* block after the other; Connects, record writes and pnet_factory_reset()   *)
(* in the main thread; SNMP in an agent's; and the background thread saves   *)
(* what the others leave in memory, while they may change it again.  Power   *)
(* may fail at any time.  A value that a validity check refuses has no       *)
(* effect but the end of Hello (SetInvalid); the checks are in Addresses.    *)
EXTENDS Integers, FiniteSets

CONSTANTS Names,       \* station names; "" is none
          Ips,         \* IP suites; 0 is none
          Heads,       \* the first 22 characters of a location; "" is blank
          Default,     \* name and IP suite in the application's configuration
          Dhcp,        \* if_cfg.ip_cfg.dhcp_enable
          SendHello,   \* pnet_cfg_t.send_hello
          HelloRetry,  \* PF_CMINA_FS_HELLO_RETRY
          Modes,       \* reset modes a controller may ask for
          MaxOps       \* bound on what comes from outside

ASSUME SettingsAssumption ==
  /\ "" \in Names /\ 0 \in Ips /\ "" \in Heads
  /\ Default \in [name : Names, ip : Ips] /\ {Dhcp, SendHello} \subseteq BOOLEAN
  /\ HelloRetry \in Nat /\ Modes \subseteq Nat /\ MaxOps \in Nat

VARIABLES dev,    \* the memory that the threads share
          file,   \* the files
          bg,     \* the background thread
          frame,  \* a Set frame is being carried out by the Ethernet thread
          inputs  \* how much has come from outside

vars == <<dev, file, bg, frame, inputs>>

Ase == [name : Names, ip : Ips]
Im1 == [fun : Heads, loc : Heads]
Location == [head : Heads, long : BOOLEAN]   \* longer than I&M1 has room for
Short(h) == [head |-> h, long |-> FALSE]

Jobs == {"clearIp", "clearLoc", "saveAse", "saveIm", "saveLoc"}
\* The events the background thread waits for.
Mask == Jobs \ {"clearLoc"}

\* A file is {content}; one that is missing or whose writing was cut short cannot
\* be loaded and is {}.
Lost == {}
Content(f) == CHOOSE c \in f : TRUE
-----------------------------------------------------------------------------
(* pf_cmina_set_default_cfg().  Power-on takes the file, or else the         *)
(* application's configuration.                                              *)

Loaded(f) == IF f["ip"] # Lost THEN Content(f["ip"]) ELSE Default

SnmpReset(d) == [d EXCEPT !.sys = Short(""), !.events = @ \cup {"saveLoc"},
                          !.by = "reset"]

ApplicationReset(d) ==
  [SnmpReset(d) EXCEPT !.im = [fun |-> "", loc |-> ""], !.unsaved = FALSE,
                       !.events = @ \cup {"saveIm"}]

CommunicationReset(d) ==
  [SnmpReset(d) EXCEPT !.nonvol = [name |-> "", ip |-> 0], !.osIp = 0,
                       !.cleared = TRUE,
                      !.events = @ \cup {"clearIp"}]

SetDefault(d, f, mode) ==
  LET a == IF mode = 0 THEN [d EXCEPT !.nonvol = Loaded(f)] ELSE d
      b == IF mode = 1 \/ mode >= 3 THEN ApplicationReset(a) ELSE a
      c == IF mode = 2 \/ mode >= 3 THEN CommunicationReset(b) ELSE b
  IN [c EXCEPT !.events = @ \cup {"saveAse"}, !.cur = c.nonvol]

Complete(ase) == ase.name # "" /\ ase.ip # 0

\* pf_cmina_dcp_set_commit(): the operating system is given the address.
Committed(d) == IF d.commit THEN [d EXCEPT !.commit = FALSE, !.osIp = d.cur.ip] ELSE d

\* The memory after power-on: pf_fspm_init(), pf_cmina_init(), pf_snmp_data_init().
Started(f) ==
  LET im == IF f["im"] # Lost THEN Content(f["im"]) ELSE [fun |-> "", loc |-> ""]
      d  == SetDefault([state |-> "SETUP", cur |-> Default, nonvol |-> Default,
              commit |-> FALSE, osIp |-> 0, hello |-> 0, armed |-> FALSE, ars |-> {},
              im |-> im, sys |-> IF f["loc"] # Lost THEN Content(f["loc"]) ELSE Short(im.loc),
              events |-> {}, unsaved |-> FALSE, cleared |-> FALSE,
              by |-> "file", ok |-> TRUE], f, 0)
      first == Complete(d.cur) /\ SendHello
  IN Committed([d EXCEPT
       !.state = IF d.cur.name = "" THEN "SET_NAME"
                 ELSE IF d.cur.ip = 0 THEN "SET_IP" ELSE "W_CONNECT",
       !.commit = Complete(d.cur) \/ ~Dhcp,
       !.hello = IF first THEN HelloRetry ELSE 0, !.armed = first])

\* pf_fspm_init() saves what it has loaded at once.
Saved(f) == [f EXCEPT !["im"] = {Started(f).im}]
Asleep == [at |-> "wait", flags |-> {}, job |-> "none", data |-> Lost]
NoFiles == [n \in {"ip", "im", "loc"} |-> Lost]

SettingsInit ==
  /\ dev = Started(NoFiles)
  /\ file = Saved(NoFiles)
  /\ bg = Asleep /\ frame = FALSE /\ inputs = 0

Outside == inputs < MaxOps /\ inputs' = inputs + 1
-----------------------------------------------------------------------------
(* The Ethernet thread: pf_dcp_get_set() and pf_cmina_dcp_set_ind().         *)

FrameBegin == ~frame /\ frame' = TRUE /\ UNCHANGED <<dev, file, bg, inputs>>

FrameEnd ==
  /\ frame /\ frame' = FALSE
  /\ dev' = Committed(dev)
  /\ UNCHANGED <<file, bg, inputs>>

\* What a change means, by state.  An IP suite that comes while there is an AR
\* is refused, but has been stored already.
Settle(d) == IF d.state # "W_CONNECT" /\ Complete(d.cur)
             THEN [d EXCEPT !.state = "W_CONNECT"] ELSE d

Decided(d, name, ip, reset) ==
  IF d.state # "W_CONNECT"
  THEN IF ~(name \/ ip) THEN d
       ELSE IF Complete(d.cur) THEN [d EXCEPT !.commit = TRUE, !.state = "W_CONNECT"]
       ELSE [d EXCEPT !.state = IF d.cur.name = "" THEN "SET_NAME" ELSE "SET_IP"]
  ELSE IF ~(name \/ ip \/ reset) THEN d
  ELSE IF d.cur.name = "" \/ reset THEN [d EXCEPT !.ars = {}]
  ELSE IF name \/ d.cur.ip = 0
  THEN [d EXCEPT !.ars = {}, !.commit = @ \/ d.ars = {}, !.state = "SET_IP"]
  ELSE IF d.ars = {} THEN [d EXCEPT !.commit = TRUE] ELSE [d EXCEPT !.ok = FALSE]

\* Every Set ends the Hello at boot; every valid one asks for a save.
Touched(d) == [d EXCEPT !.armed = FALSE, !.ok = TRUE, !.events = @ \cup {"saveAse"}]

WithIp(d, ip, temp) ==
  Settle(Decided([Touched(d) EXCEPT !.cur.ip = ip, !.nonvol.ip = IF temp THEN 0 ELSE ip],
                 FALSE, d.cur.ip # ip, FALSE))

\* Mutant: the ARs are kept when the name changes.
WithNameKept(d, name, temp) ==
  Settle([Touched(d) EXCEPT !.cur.name = name, !.nonvol.name = IF temp THEN "" ELSE name])

WithName(d, name, temp) ==
  Settle(Decided([Touched(d) EXCEPT !.cur.name = name,
                                    !.nonvol.name = IF temp THEN "" ELSE name],
                 d.cur.name # name, FALSE, FALSE))

WithReset(d, f, mode) ==
  SetDefault(Settle(Decided(Touched(d), FALSE, FALSE, TRUE)), f, mode)

Block(d) == frame /\ Outside /\ dev' = d /\ UNCHANGED <<file, bg, frame>>

SetIp(ip, temp) == Block(WithIp(dev, ip, temp))
SetName(name, temp) == Block(WithName(dev, name, temp))
SetReset(mode) == Block(WithReset(dev, file, mode))
SetInvalid == Block([dev EXCEPT !.armed = FALSE, !.ok = FALSE])

Ethernet ==
  \/ FrameBegin \/ FrameEnd \/ SetInvalid
  \/ \E temp \in BOOLEAN : \/ \E ip \in Ips : SetIp(ip, temp)
                           \/ \E name \in Names : SetName(name, temp)
  \/ \E mode \in Modes : SetReset(mode)
-----------------------------------------------------------------------------
(* The main thread.                                                          *)

ByMain(d) == dev' = d /\ UNCHANGED <<file, bg, frame>>

\* A Connect needs an address only.  The AR remembers under which name and address
\* it came and whether these were settled: no Set frame is being carried out and
\* the device waits for a Connect.
ConnectArrives ==
  /\ Outside /\ dev.osIp # 0 /\ dev.ars = {}
  /\ ByMain([dev EXCEPT !.ars = {[name |-> dev.cur.name, ip |-> dev.osIp,
                                  settled |-> ~frame /\ dev.state = "W_CONNECT"]}])

Release == Outside /\ dev.ars # {} /\ ByMain([dev EXCEPT !.ars = {}])

\* pnet_factory_reset()
FactoryReset ==
  Outside /\ ByMain(Committed(SetDefault([dev EXCEPT !.ars = {}], file, 99)))

\* pf_cmina_send_hello()
HelloTimer ==
  /\ dev.armed
  /\ ByMain(IF dev.state = "W_CONNECT" /\ dev.hello > 0
            THEN [dev EXCEPT !.hello = @ - 1]
            ELSE [dev EXCEPT !.armed = FALSE, !.hello = 0])
  /\ UNCHANGED inputs

\* A write of I&M1 that an AR asks for: accepted, or with a record that is cut
\* in or after its first field or that is too long, which is stored and refused.
WriteIm1(im) ==
  /\ Outside /\ dev.ars # {}
  /\ \/ ByMain([dev EXCEPT !.im = im, !.sys = Short(im.loc), !.unsaved = FALSE,
                           !.events = @ \cup {"clearLoc", "saveIm"}, !.by = "im"])
     \/ \E kept \in {im, [dev.im EXCEPT !.fun = im.fun], dev.im} :
          ByMain([dev EXCEPT !.im = kept, !.unsaved = @ \/ kept # dev.im])

\* pf_snmp_set_system_location(), in the thread of an SNMP agent
SetLocation(l) ==
  /\ Outside
  /\ ByMain([dev EXCEPT !.sys = l, !.im.loc = l.head, !.unsaved = FALSE,
                        !.events = @ \cup {"saveLoc", "saveIm"}, !.by = "snmp"])

MainAndAgent ==
  \/ ConnectArrives \/ Release \/ FactoryReset \/ HelloTimer
  \/ \E im \in Im1 : WriteIm1(im)
  \/ \E l \in Location : SetLocation(l)
-----------------------------------------------------------------------------
(* The background thread.  Its jobs are done in a fixed order; the event of  *)
(* a job is cleared before the job is done.                                  *)

Order == [j \in Jobs |-> CASE j = "clearIp" -> 1 [] j = "clearLoc" -> 2
                           [] j = "saveAse" -> 3 [] j = "saveIm" -> 4 [] j = "saveLoc" -> 5]
NameOf == [j \in Jobs |-> CASE j \in {"clearIp", "saveAse"} -> "ip"
                            [] j = "saveIm" -> "im" [] j \in {"clearLoc", "saveLoc"} -> "loc"]
InMemory(j) == CASE j = "saveAse" -> dev.nonvol [] j = "saveIm" -> dev.im
                 [] j = "saveLoc" -> dev.sys

Wake ==
  /\ bg.at = "wait" /\ dev.events \cap Mask # {}
  /\ bg' = [bg EXCEPT !.at = "next", !.flags = dev.events \cap Mask]
  /\ UNCHANGED <<dev, file, frame, inputs>>

Rest ==
  /\ bg.at = "next" /\ bg.flags = {}
  /\ bg' = Asleep
  /\ UNCHANGED <<dev, file, frame, inputs>>

\* The events that remain when job j is taken up, and when it is done.
EventsAtStart(j) == dev.events \ {j}
\* Mutant: the event is cleared after the file is written, not before.
EventsAtEndCleared(j) == dev.events \ {j}

EventsAtEnd(j) == dev.events

TakeJob(j) ==
  /\ bg.at = "next" /\ j \in bg.flags /\ \A k \in bg.flags : Order[j] <= Order[k]
  /\ dev' = [dev EXCEPT !.events = EventsAtStart(j)]
  /\ bg' = [bg EXCEPT !.at = j, !.flags = @ \ {j}]
  /\ UNCHANGED <<file, frame, inputs>>

\* pf_file_clear()
Clear(j) ==
  /\ bg.at = j /\ j \in {"clearIp", "clearLoc"}
  /\ file' = [file EXCEPT ![NameOf[j]] = Lost]
  /\ dev' = [dev EXCEPT !.events = EventsAtEnd(j)]
  /\ bg' = [bg EXCEPT !.at = "next"]
  /\ UNCHANGED <<frame, inputs>>

\* pf_file_save_if_modified(): I&M and location are copied under a mutex; the
\* ASE is read where it is, its name and its address one after the other.
Compare(j) ==
  /\ bg.at = j /\ j \in {"saveAse", "saveIm", "saveLoc"}
  /\ IF file[NameOf[j]] = {InMemory(j)}
     THEN bg' = [bg EXCEPT !.at = "done", !.job = j] /\ UNCHANGED file
     ELSE /\ bg' = [bg EXCEPT !.at = "write", !.job = j, !.data = {InMemory(j)}]
          /\ file' = [file EXCEPT ![NameOf[j]] = Lost]
  /\ UNCHANGED <<dev, frame, inputs>>

Write ==
  /\ bg.at = "write"
  /\ LET first == Content(bg.data)
         data == IF bg.job = "saveAse" THEN [first EXCEPT !.ip = dev.nonvol.ip] ELSE first
     IN file' = [file EXCEPT ![NameOf[bg.job]] = {data}]
  /\ bg' = [bg EXCEPT !.at = "done", !.data = Lost]
  /\ UNCHANGED <<dev, frame, inputs>>

JobDone ==
  /\ bg.at = "done"
  /\ dev' = [dev EXCEPT !.events = EventsAtEnd(bg.job)]
  /\ bg' = [bg EXCEPT !.at = "next", !.job = "none"]
  /\ UNCHANGED <<file, frame, inputs>>

Worker ==
  \/ Wake \/ Rest \/ Write \/ JobDone
  \/ \E j \in Jobs : TakeJob(j) \/ Clear(j) \/ Compare(j)

Quiet == bg.at = "wait" /\ dev.events \cap Mask = {}
-----------------------------------------------------------------------------
\* Power fails and comes back.
Restart ==
  /\ Outside
  /\ dev' = Started(file) /\ file' = Saved(file)
  /\ bg' = Asleep /\ frame' = FALSE

SettingsNext == Ethernet \/ MainAndAgent \/ Worker \/ Restart

SettingsSpec == SettingsInit /\ [][SettingsNext]_vars
-----------------------------------------------------------------------------
TypeOK ==
  /\ dev.state \in {"SET_NAME", "SET_IP", "W_CONNECT"}
  /\ dev.cur \in Ase /\ dev.nonvol \in Ase /\ dev.osIp \in Ips
  /\ {dev.commit, dev.armed, dev.unsaved, dev.cleared, dev.ok} \subseteq BOOLEAN
  /\ dev.hello \in 0 .. HelloRetry /\ Cardinality(dev.ars) <= 1
  /\ dev.im \in Im1 /\ dev.sys \in Location /\ dev.events \subseteq Jobs
  /\ dev.by \in {"file", "im", "snmp", "reset"}
  /\ file["ip"] \in {Lost} \cup {{a} : a \in Ase}
  /\ bg.flags \subseteq Jobs /\ frame \in BOOLEAN /\ inputs \in 0 .. MaxOps

\* What is permanent survives a power failure that comes when the background
\* thread has nothing left to do: the name and the address, the I&M data unless
\* a refused write has changed them, and the location unless it was last written
\* by I&M1.  For this every change must leave an event behind, however the
\* thread's reading, comparing and clearing interleave with it.  A reset may leave
\* no file of the name and the address at all, see ResetIsStored.
PermanentSurvives ==
  [][Restart /\ Quiet =>
       /\ (dev.cleared /\ file["ip"] = Lost) \/ dev'.nonvol = dev.nonvol
       /\ dev.unsaved \/ dev'.im = dev.im
       /\ dev.by = "im" \/ dev'.sys = dev.sys]_vars

\* An AR that was made under a settled name never outlives the name or the address
\* it was made under, whatever blocks a frame carries and whichever reset comes.
\* One that is made in the middle of a Set frame may, and one that is made after
\* the address was taken away: the operating system keeps that address when there
\* was an AR, and a change of name in SET_IP aborts nothing.
ArsUnderTheirName ==
  \A ar \in dev.ars : ar.settled => ar.name = dev.cur.name /\ ar.ip = dev.osIp

\* When the background thread has nothing left to do the file holds the settings
\* that pf_types.h:2977 says it does.  "Run jobs that clear files first"
\* (pf_bg_worker.c:181) is to see to it after a reset.
ResetIsStored == Quiet => file["ip"] = {dev.nonvol}
=============================================================================
