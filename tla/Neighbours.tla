------------------------------ MODULE Neighbours ------------------------------
(* The neighbours of the device's ports: common/pf_lldp.c keeps what a peer     *)
(* says of itself for as long as it may be believed and sends the like of it,   *)
(* device/pf_pdport.c compares it with the peer that the controller expects and *)
(* reports a diagnosis, device/pf_port.c goes round the ports.                  *)
(*                                                                              *)
(* Every port has an Ethernet thread, which handles its LLDP and its DCP        *)
(* frames; the main thread (0) handles timers, Connects and written records and *)
(* runs the checks; the background thread reads the state of the links.  A step *)
(* is what a thread does between two places where another one can be seen.      *)
(* The timers of all ports have the same name, so that the scheduler takes a    *)
(* port's stale handle for that of any port, see Removed.  Delays are left out. *)
(* Saving the settings follows Settings; a start finds any of them in the files.*)
EXTENDS Naturals, FiniteSets, FiniteSetsExt

CONSTANTS NbrPorts,   \* physical ports
          Infos,      \* what peers send: station and port name, each known or not, long ttl?
          Wanted,     \* peers that the controller expects
          Begins,     \* <<a, b>>: name a is the beginning of name b
          MaxTimers,  \* entries of the scheduler that LLDP finds free, of each kind
          MaxDcp,     \* bound on DCP frames
          MaxRecords  \* bound on Connects and written records

ASSUME NeighboursAssumption ==
  /\ {NbrPorts, MaxTimers} \subseteq Nat \ {0} /\ {MaxDcp, MaxRecords} \subseteq Nat
  /\ MaxTimers > NbrPorts
  /\ \A i \in Infos : /\ i.long \in BOOLEAN
                      /\ \A n \in i.port : i.port = {n}
                      /\ \A n \in i.station : i.station = {n}

VARIABLES rx,      \* timers that end the belief in a peer
          tx,      \* timers of the next LLDP frame
          peer,    \* peer_info of each port, {} when none is received
          cfg,     \* pdport of each port: wanted peer, boundary, lldp_peer_info_updated
          diag,    \* diagnoses of each port
          link,    \* eth_status.running and previous_is_link_up of each port
          monitor, \* link_monitor_iterator
          thread,  \* what each thread does
          crossed, \* on which ports two threads met, and at what
          ops      \* DCP frames, and Connects and records so far

nbrVars == <<rx, tx, peer, cfg, diag, link, monitor, thread, crossed, ops>>

Ports == 1 .. NbrPorts
Main == 0
Threads == {Main} \cup Ports
Entries == 1 .. MaxTimers
Diagnoses == {"no peer", "port name", "station name"}
Idle == [at |-> "idle", port |-> 1, todo |-> {}, info |-> {}, restart |-> FALSE]
At(t, ats, p) == thread[t].at \in ats /\ thread[t].port = p
-----------------------------------------------------------------------------
(* The scheduler, as far as it can be told from here.                        *)

\* Mutant: the handle is reset, the entry stays.
RemovedForgets(pool, p) == [pool EXCEPT !.handle[p] = 0]

\* pf_scheduler_remove_if_running(): the entry that the handle tells of, whichever
\* port armed it since; nothing when it has expired.
Removed(pool, p) ==
  LET i == pool.handle[p]
  IN IF i # 0 /\ pool.entry[i] # {}
     THEN [entry |-> [pool.entry EXCEPT ![i] = {}], handle |-> [pool.handle EXCEPT ![p] = 0]]
     ELSE pool

\* pf_scheduler_add()
Added(pool, p) ==
  LET free == {i \in Entries : pool.entry[i] = {}}
  IN IF free = {} THEN {[pool EXCEPT !.handle[p] = 0]}
     ELSE {[entry |-> [pool.entry EXCEPT ![i] = {p}], handle |-> [pool.handle EXCEPT ![p] = i]] :
             i \in free}

Armed(pool, p) == {i \in Entries : pool.entry[i] = {p}}

\* pf_scheduler_tick(): the entry is free before the callback runs.
Expired(pool, i) == [pool EXCEPT !.entry[i] = {}]
-----------------------------------------------------------------------------
(* Threads that meet: what the code keeps apart by no mutex.                 *)

\* The main thread takes the peer away while a frame of the peer is handled.
MeetAtPeer(th, p) ==
  /\ th[Main].at \in {"expired", "invalidate"} /\ th[Main].port = p
  /\ th[p].at = "got"

\* Two threads start or stop the transmission.
MeetAtSending(th, p) ==
  Cardinality({t \in Threads : th[t].at \in {"disable", "enable", "add", "send"}
                               /\ th[t].port = p}) > 1

\* The port is reset while the main thread checks its peer.
MeetAtCheck(th, p) ==
  /\ th[Main].at \in {"no peer", "port name", "station name"} /\ th[Main].port = p
  /\ \E t \in Ports : th[t].at = "undiag" /\ th[t].port = p

\* Thread t goes to this state.
Goes(t, state) ==
  /\ thread' = [thread EXCEPT ![t] = state]
  /\ crossed' = [p \in Ports |-> crossed[p]
                   \cup {m \in {"peer"} : MeetAtPeer(thread', p)}
                   \cup {m \in {"sending"} : MeetAtSending(thread', p)}
                   \cup {m \in {"check"} : MeetAtCheck(thread', p)}]

\* The thread goes on at its port, or with the ports that it has still to visit.
GoesTo(t, at) == Goes(t, [thread[t] EXCEPT !.at = at])
Visits(t, at, ports) == Goes(t, [thread[t] EXCEPT !.at = at, !.port = Min(ports), !.todo = ports \ {Min(ports)}])
NextPort(t, at) == IF thread[t].todo = {} THEN Goes(t, Idle) ELSE Visits(t, at, thread[t].todo)
-----------------------------------------------------------------------------
(* What the main thread and the Ethernet threads have in common.             *)

Forbidden(p) == cfg[p].boundary = "silent"

\* pf_pdport_lldp_restart_transmission(): the boundary of each port.
RestartSending(t) ==
  /\ thread[t].at = "restart"
  /\ UNCHANGED <<rx, tx, peer, cfg, diag, link, monitor, ops>>
  /\ GoesTo(t, IF Forbidden(thread[t].port) THEN "disable" ELSE "enable")

\* pf_lldp_send_disable()
SendDisable(t) ==
  /\ thread[t].at = "disable"
  /\ tx' = Removed(tx, thread[t].port)
  /\ UNCHANGED <<rx, peer, cfg, diag, link, monitor, ops>>
  /\ NextPort(t, "restart")

\* Mutant: the timer that runs is not removed.
SendEnableTwice(t) ==
  /\ thread[t].at = "enable"
  /\ tx' = tx
  /\ UNCHANGED <<rx, peer, cfg, diag, link, monitor, ops>>
  /\ GoesTo(t, "add")

\* pf_lldp_send_enable(): pf_scheduler_restart(), and a frame is sent.
SendEnable(t) ==
  /\ thread[t].at = "enable"
  /\ tx' = Removed(tx, thread[t].port)
  /\ UNCHANGED <<rx, peer, cfg, diag, link, monitor, ops>>
  /\ GoesTo(t, "add")

SendAdd(t) ==
  /\ thread[t].at = "add"
  /\ tx' \in Added(tx, thread[t].port)
  /\ UNCHANGED <<rx, peer, cfg, diag, link, monitor, ops>>
  /\ NextPort(t, "restart")

\* pf_pdport_reset_all(): nothing is wanted of the port; what has been reported goes.
Blank == [wanted |-> {}, boundary |-> "none", updated |-> FALSE]

ResetPort(t) ==
  /\ thread[t].at = "reset"
  /\ cfg' = [cfg EXCEPT ![thread[t].port] = Blank]
  /\ UNCHANGED <<rx, tx, peer, diag, link, monitor, ops>>
  /\ GoesTo(t, "undiag")

ResetDiag(t) ==
  /\ thread[t].at = "undiag"
  /\ diag' = [diag EXCEPT ![thread[t].port] = {}]
  /\ UNCHANGED <<rx, tx, peer, cfg, link, monitor, ops>>
  /\ IF thread[t].todo = {} /\ thread[t].restart THEN Visits(t, "restart", Ports)
     ELSE NextPort(t, "reset")

Common(t) == RestartSending(t) \/ SendDisable(t) \/ SendEnable(t) \/ SendAdd(t)
             \/ ResetPort(t) \/ ResetDiag(t)
-----------------------------------------------------------------------------
(* The Ethernet thread of port p.                                            *)

\* pf_lldp_update_peer() begins with pf_lldp_restart_peer_timeout(): the belief in a
\* peer with a long time to live does not end.
LldpFrame(p, info) ==
  /\ thread[p].at = "idle"
  /\ rx' \in IF info.long THEN {Removed(rx, p)} ELSE Added(Removed(rx, p), p)
  /\ UNCHANGED <<tx, peer, cfg, diag, link, monitor, ops>>
  /\ Goes(p, [Idle EXCEPT !.at = "got", !.port = p, !.info = {info}])

\* The same frame again changes nothing.
StorePeer(p) ==
  /\ thread[p].at = "got"
  /\ UNCHANGED <<rx, tx, cfg, diag, link, monitor, ops>>
  /\ IF peer[p] = thread[p].info THEN peer' = peer /\ Goes(p, Idle)
     ELSE peer' = [peer EXCEPT ![p] = thread[p].info] /\ GoesTo(p, "indicate")

\* Mutant: the change of the peer is not indicated.
IndicatedNever(p) == cfg

\* pf_pdport_peer_indication()
Indicated(p) == [cfg EXCEPT ![p].updated = TRUE]

IndicatePeer(p) ==
  /\ thread[p].at = "indicate"
  /\ cfg' = Indicated(p)
  /\ UNCHANGED <<rx, tx, peer, diag, link, monitor, ops>>
  /\ Goes(p, Idle)

\* A Get or a Set, which ends with the restart of the transmission; the Set of a
\* reset to factory settings resets the ports first.
DcpFrame(p, reset) ==
  /\ thread[p].at = "idle" /\ ops.dcp < MaxDcp
  /\ ops' = [ops EXCEPT !.dcp = @ + 1]
  /\ UNCHANGED <<rx, tx, peer, cfg, diag, link, monitor>>
  /\ Goes(p, [Idle EXCEPT !.at = IF reset THEN "reset" ELSE "restart",
                          !.todo = Ports \ {1}, !.restart = TRUE])
-----------------------------------------------------------------------------
(* The main thread.                                                          *)

MainFree == thread[Main].at = "idle"
MainDoes(at, p) == Goes(Main, [Idle EXCEPT !.at = at, !.port = p])

\* pf_lldp_receive_timeout()
PeerTimeout(p, i) ==
  /\ MainFree /\ rx.entry[i] = {p}
  /\ rx' = Expired(rx, i)
  /\ UNCHANGED <<tx, peer, cfg, diag, link, monitor, ops>>
  /\ MainDoes("expired", p)

ResetHandle ==
  /\ thread[Main].at = "expired"
  /\ rx' = [rx EXCEPT !.handle[thread[Main].port] = 0]
  /\ UNCHANGED <<tx, peer, cfg, diag, link, monitor, ops>>
  /\ GoesTo(Main, "invalidate")

\* pf_lldp_invalidate_peer_info(); only the main thread looks at the indication.
InvalidatePeer ==
  LET p == thread[Main].port
  IN /\ thread[Main].at = "invalidate"
     /\ peer' = [peer EXCEPT ![p] = {}]
     /\ cfg' = Indicated(p)
     /\ UNCHANGED <<rx, tx, diag, link, monitor, ops>>
     /\ Goes(Main, Idle)

\* pf_lldp_trigger_sending(): a frame is sent before the timer is added again.
SendTimeout(p, i) ==
  /\ MainFree /\ tx.entry[i] = {p}
  /\ tx' = Expired(tx, i)
  /\ UNCHANGED <<rx, peer, cfg, diag, link, monitor, ops>>
  /\ MainDoes("send", p)

SendAgain ==
  /\ thread[Main].at = "send"
  /\ tx' \in Added(tx, thread[Main].port)
  /\ UNCHANGED <<rx, peer, cfg, diag, link, monitor, ops>>
  /\ Goes(Main, Idle)

\* pf_lldp_trigger_linkmonitor(): one port at a time, as it was seen last.
LinkMonitor ==
  LET p == monitor
      lost == link[p].previous /\ ~link[p].running
  IN /\ MainFree
     /\ monitor' = IF p = NbrPorts THEN 1 ELSE p + 1
     /\ link' = [link EXCEPT ![p].previous = link[p].running]
     /\ rx' = IF lost THEN Removed(rx, p) ELSE rx
     /\ UNCHANGED <<tx, peer, cfg, diag, ops>>
     /\ IF lost THEN MainDoes("invalidate", p) ELSE UNCHANGED <<thread, crossed>>

\* pf_pdport_periodic(): the indication is taken back before the peer is looked at.
Periodic(p) ==
  /\ MainFree /\ cfg[p].updated
  /\ cfg' = [cfg EXCEPT ![p].updated = FALSE]
  /\ UNCHANGED <<rx, tx, peer, diag, link, monitor, ops>>
  /\ IF cfg[p].wanted # {} THEN MainDoes("no peer", p) ELSE UNCHANGED <<thread, crossed>>

\* The text compared is as long as the peer's station name, and as the port name
\* that is wanted; after a reset in between nothing is wanted.
StationMatches(p, name) == \E w \in cfg[p].wanted : name = w.station \/ <<name, w.station>> \in Begins
PortMatches(p, name) == \A w \in cfg[p].wanted : name = w.port \/ <<w.port, name>> \in Begins

Reported(p, d, is) == diag' = [diag EXCEPT ![p] = IF is THEN @ \cup {d} ELSE @ \ {d}]

\* pf_pdport_check_no_peer_detected()
CheckNoPeer ==
  LET p == thread[Main].port
  IN /\ thread[Main].at = "no peer"
     /\ Reported(p, "no peer", peer[p] = {})
     /\ UNCHANGED <<rx, tx, peer, cfg, link, monitor, ops>>
     /\ GoesTo(Main, "port name")

\* pf_pdport_check_peer_port_name(): it does nothing when the name is not known.
CheckPortName ==
  LET p == thread[Main].port
      known == UNION {i.port : i \in peer[p]}
  IN /\ thread[Main].at = "port name"
     /\ IF known = {} THEN diag' = diag
        ELSE Reported(p, "port name", \E name \in known : ~PortMatches(p, name))
     /\ UNCHANGED <<rx, tx, peer, cfg, link, monitor, ops>>
     /\ GoesTo(Main, "station name")

\* pf_pdport_check_peer_station_name()
CheckStationName ==
  LET p == thread[Main].port
      known == UNION {i.station : i \in peer[p]}
  IN /\ thread[Main].at = "station name"
     /\ IF known = {} THEN diag' = diag
        ELSE Reported(p, "station name", \E name \in known : ~StationMatches(p, name))
     /\ UNCHANGED <<rx, tx, peer, cfg, link, monitor, ops>>
     /\ Goes(Main, Idle)

Record == MainFree /\ ops.records < MaxRecords /\ ops' = [ops EXCEPT !.records = @ + 1]

\* pf_pdport_write_data_check(): the check runs at once.
WriteCheck(p, w) ==
  /\ Record
  /\ cfg' = [cfg EXCEPT ![p].wanted = {w}]
  /\ UNCHANGED <<rx, tx, peer, diag, link, monitor>>
  /\ MainDoes("no peer", p)

\* pf_pdport_write_data_adj()
WriteBoundary(p, silent) ==
  /\ Record
  /\ cfg' = [cfg EXCEPT ![p].boundary = IF silent THEN "silent" ELSE "send"]
  /\ UNCHANGED <<rx, tx, peer, diag, link, monitor>>
  /\ MainDoes(IF silent THEN "disable" ELSE "enable", p)

\* pf_pdport_write_interface_adj()
WriteInterface ==
  /\ Record
  /\ UNCHANGED <<rx, tx, peer, cfg, diag, link, monitor>>
  /\ Goes(Main, [Idle EXCEPT !.at = "restart", !.todo = Ports \ {1}])

\* pf_cmdev_rm_connect_ind(): every Connect resets the ports, so that what
\* pf_pdport_ar_connect_ind() looks for is gone; one that is accepted restarts the
\* transmission.
Connect(accepted) ==
  /\ Record
  /\ UNCHANGED <<rx, tx, peer, cfg, diag, link, monitor>>
  /\ Goes(Main, [Idle EXCEPT !.at = "reset", !.todo = Ports \ {1}, !.restart = accepted])
-----------------------------------------------------------------------------
\* pf_pdport_update_eth_status() in the background thread.
LinkChanges(p) ==
  /\ link' = [link EXCEPT ![p].running = ~@]
  /\ UNCHANGED <<rx, tx, peer, cfg, diag, monitor, thread, crossed, ops>>

\* pf_lldp_init(), pf_pdport_load(): a check that is loaded waits for the timer's
\* next turn.
ArmedOn(ports) == [entry  |-> [i \in Entries |-> ports \cap {i}],
                   handle |-> [p \in Ports |-> IF p \in ports THEN p ELSE 0]]

Init ==
  /\ cfg \in [Ports -> [wanted : {{}} \cup {{w} : w \in Wanted},
                        boundary : {"none", "send", "silent"}, updated : {FALSE}]]
  /\ rx = ArmedOn({p \in Ports : cfg[p].wanted # {}})
  /\ tx = ArmedOn({p \in Ports : ~Forbidden(p)})
  /\ peer = [p \in Ports |-> {}]
  /\ diag = [p \in Ports |-> {}]
  /\ link = [p \in Ports |-> [running |-> FALSE, previous |-> FALSE]]
  /\ monitor = 1
  /\ thread = [t \in Threads |-> Idle]
  /\ crossed = [p \in Ports |-> {}]
  /\ ops = [dcp |-> 0, records |-> 0]

EthernetThread(p) ==
  \/ Common(p) \/ StorePeer(p) \/ IndicatePeer(p)
  \/ \E info \in Infos : LldpFrame(p, info)
  \/ \E reset \in BOOLEAN : DcpFrame(p, reset)

MainThread ==
  \/ Common(Main) \/ ResetHandle \/ InvalidatePeer \/ SendAgain \/ LinkMonitor
  \/ CheckNoPeer \/ CheckPortName \/ CheckStationName
  \/ \E p \in Ports : \/ Periodic(p)
                      \/ \E i \in Entries : PeerTimeout(p, i) \/ SendTimeout(p, i)
                      \/ \E w \in Wanted : WriteCheck(p, w)
                      \/ \E silent \in BOOLEAN : WriteBoundary(p, silent)
  \/ WriteInterface \/ \E accepted \in BOOLEAN : Connect(accepted)

Next == MainThread \/ \E p \in Ports : EthernetThread(p) \/ LinkChanges(p)

Spec == Init /\ [][Next]_nbrVars
-----------------------------------------------------------------------------
\* Nothing is under way that will look at the peer of port p.
Settled(p) ==
  /\ ~cfg[p].updated /\ thread[p].at \notin {"got", "indicate"}
  /\ ~At(Main, {"no peer", "port name", "station name", "expired", "invalidate"}, p)
  /\ peer[p] = {} => Armed(rx, p) = {}

\* When nothing is under way, what is reported of a port is what is wrong with its
\* peer: none is there, or one of another name; and nothing is reported of a port
\* whose peer is not checked.  A reset of the port during the check is left out.
DiagnosisFollowsPeer ==
  \A p \in Ports : Settled(p) /\ "check" \notin crossed[p] =>
    IF cfg[p].wanted = {} THEN diag[p] = {} \/ \E t \in Threads : At(t, {"undiag"}, p)
    ELSE /\ "no peer" \in diag[p] <=> peer[p] = {}
         /\ \A i \in peer[p] :
              /\ \A n \in i.port : "port name" \in diag[p] <=> ~PortMatches(p, n)
              /\ \A n \in i.station : "station name" \in diag[p] <=> ~StationMatches(p, n)

\* A peer is believed no longer than it asked for: one timer runs, which the handle
\* tells of, or what it did is under way.  Left out is what happens once a frame was
\* handled while the main thread took the peer away: the handle that is reset then
\* is that of another timer, which takes up an entry that all ports share.
PeerExpires ==
  (\A p \in Ports : "peer" \notin crossed[p]) => \A p \in Ports :
    /\ Cardinality(Armed(rx, p)) <= 1
    /\ \A i \in Armed(rx, p) : rx.handle[p] = i
    /\ \A i \in peer[p] : \/ i.long \/ Armed(rx, p) # {} \/ thread[p].at = "got"
                          \/ At(Main, {"expired", "invalidate"}, p)

\* The port whose boundary forbids it is silent, and the one whose boundary allows it
\* sends with one timer.
SendsSo(p) ==
  (\A t \in Threads : ~At(t, {"disable", "enable", "add", "send"}, p)) =>
    /\ Forbidden(p) => Armed(tx, p) = {}
    /\ cfg[p].boundary = "send" => Cardinality(Armed(tx, p)) = 1

\* Records, resets, DCP frames and the timer itself start and stop the transmission;
\* what they leave is what the boundary says, as long as no two threads do so at once
\* for any of the ports: what two leave behind may take up the entries of all.
SendsAsTold == (\A p \in Ports : "sending" \notin crossed[p]) => \A p \in Ports : SendsSo(p)
=============================================================================
