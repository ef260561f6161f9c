--------------------------------- MODULE Dcp ---------------------------------
(* common/pf_dcp.c on top of the settings: which controller may use Get and   *)
(* Set (SAM), who is meant by an Identify, and the one answer to it that may  *)
(* wait for its time.                                                         *)
(*                                                                            *)
(* The handlers run in the Ethernet thread, the timers that they add in the   *)
(* main thread.  The scheduler drops its mutex before it calls back, and a    *)
(* callback tells the handle of it only then, see Scheduler; of this a timer  *)
(* keeps here how many entries are armed and whether the handle says that one *)
(* is.  A timer may expire at any time: the delays are left out.  A Get is a  *)
(* frame without blocks.                                                      *)
EXTENDS Settings, Sequences

CONSTANTS Macs,      \* controllers
          Aliases,   \* aliases asked for
          Ours,      \* the aliases that pf_lldp_is_alias_matching() finds to be ours
          MaxBlocks, \* bound on the blocks of an Identify request
          MaxBefore  \* bound on what has come from outside before one

ASSUME DcpAssumption == Ours \subseteq Aliases /\ {MaxBlocks, MaxBefore} \subseteq Nat

VARIABLES sam,   \* dcp_sam, its timer, and the frame that is being handled
          ident, \* the Identify that is being handled, and the answer that waits
          main   \* the callback that the main thread is in

stationVars == <<vars, sam, ident, main>>

Nil == {}

\* The filters of an Identify request: names, aliases, everyone (of a legal length
\* or not), a value of ours or of another device, an option that is unknown or
\* cannot be asked for, and a block that the frame has not room for.
Filter == [opt : {"name"}, val : Names] \cup [opt : {"alias"}, val : Aliases]
          \cup [opt : {"value"}, val : {"ours", "other"}]
          \cup [opt : {"all", "allOdd", "unknown", "cut"}, val : {""}]
Requests == UNION {[1 .. n -> Filter] : n \in 0 .. MaxBlocks}
-----------------------------------------------------------------------------
(* pf_dcp_identify_req(): the loop over the blocks.                          *)

Unread == [ret |-> 0, first |-> TRUE, match |-> TRUE, filter |-> FALSE, cut |-> FALSE]
GoesOn(m) == m.ret = 0 /\ (m.first \/ (m.filter /\ m.match)) /\ ~m.cut

NameBlock(m, b) == IF b.val = dev.cur.name THEN [m EXCEPT !.filter = @ \/ m.first]
                   ELSE [m EXCEPT !.match = FALSE]
\* Mutant: any alias of ours is answered, whatever filter came before it.
AliasBlockAny(m, b) == [m EXCEPT !.filter = b.val \in Ours]

AliasBlock(m, b) == IF b.val \in Ours THEN [m EXCEPT !.filter = @ \/ m.first]
                    ELSE [m EXCEPT !.match = FALSE]
ValueBlock(m, b) == IF ~m.filter THEN [m EXCEPT !.ret = -1]
                    ELSE [m EXCEPT !.match = b.val = "ours"]
AllBlock(m, b) == IF m.first THEN [m EXCEPT !.filter = FALSE] ELSE [m EXCEPT !.ret = -1]

ReadBlock(m, b) ==
  IF ~GoesOn(m) THEN m
  ELSE IF b.opt = "cut" THEN [m EXCEPT !.cut = TRUE]
  ELSE [CASE b.opt = "name"  -> NameBlock(m, b)
          [] b.opt = "alias" -> AliasBlock(m, b)
          [] b.opt = "value" -> ValueBlock(m, b)
          [] b.opt = "all"   -> AllBlock(m, b)
          [] OTHER           -> [m EXCEPT !.ret = -1] EXCEPT !.first = FALSE]

Read(req) == LET m[i \in 0 .. Len(req)] ==
                   IF i = 0 THEN Unread ELSE ReadBlock(m[i - 1], req[i])
             IN m[Len(req)]
Answered(req) == Read(req).ret = 0 /\ Read(req).match
-----------------------------------------------------------------------------
(* The Ethernet thread.                                                      *)

\* When Identify requests come and SAM may expire.
Early == inputs <= MaxBefore

\* pf_dcp_get_set(): another controller's frame is dropped.
GetSetBegin(mac) ==
  /\ ident.at = "idle" /\ sam.mac \in {Nil, {mac}}
  /\ FrameBegin
  /\ sam' = [sam EXCEPT !.from = {mac}]
  /\ UNCHANGED <<ident, main>>

GetSetBlock ==
  /\ \/ SetInvalid
     \/ \E temp \in BOOLEAN : \/ \E ip \in Ips : SetIp(ip, temp)
                              \/ \E name \in Names : SetName(name, temp)
     \/ \E mode \in Modes : SetReset(mode)
  /\ UNCHANGED <<sam, ident, main>>

\* pf_dcp_restart_sam_timeout(): it removes the timer that the handle knows of.  An
\* entry that has expired is not found.
Restarted(s) == [s EXCEPT !.mac = s.from, !.from = Nil, !.known = TRUE,
                          !.armed = IF s.known /\ s.armed > 0 THEN @ ELSE @ + 1]

\* The answer is sent; after it the new address is given to the system.
GetSetEnd ==
  /\ FrameEnd /\ sam' = Restarted(sam)
  /\ UNCHANGED <<ident, main>>

\* Mutant: the next Identify is taken while an answer waits.
BusyNever == FALSE

\* pf_dcp_identify_req(): one request at a time may wait to be answered.
Busy == ident.waiting

Identify ==
  /\ Early /\ ~frame /\ ident.at = "idle"
  /\ \E req \in Requests :
       ident' = IF Busy THEN ident ELSE [ident EXCEPT !.at = "match", !.req = req]
  /\ UNCHANGED <<vars, sam, main>>

IdentifyMatch ==
  /\ ident.at = "match"
  /\ ident' = [ident EXCEPT !.at = IF Answered(ident.req) THEN "add" ELSE "idle",
                            !.req = <<>>,
                            !.buffers = IF Answered(ident.req) THEN @ + 1 ELSE @]
  /\ UNCHANGED <<vars, sam, main>>

\* The scheduler takes the answer, or has no room for it.
IdentifyAdd ==
  /\ ident.at = "add"
  /\ \/ ident' = [ident EXCEPT !.at = "mark", !.pending = @ + 1]
     \/ ident' = [ident EXCEPT !.at = "idle", !.buffers = @ - 1]
  /\ UNCHANGED <<vars, sam, main>>

IdentifyMark ==
  /\ ident.at = "mark"
  /\ ident' = [ident EXCEPT !.at = "idle", !.waiting = TRUE]
  /\ UNCHANGED <<vars, sam, main>>
-----------------------------------------------------------------------------
(* The main thread.                                                          *)

SamExpires ==
  /\ Early /\ main = "idle" /\ sam.armed > 0
  /\ main' = "sam" /\ sam' = [sam EXCEPT !.armed = @ - 1]
  /\ UNCHANGED <<vars, ident>>

\* pf_dcp_clear_sam()
SamCleared ==
  /\ main = "sam"
  /\ main' = "samReset" /\ sam' = [sam EXCEPT !.mac = Nil]
  /\ UNCHANGED <<vars, ident>>

SamReset ==
  /\ main = "samReset"
  /\ main' = "idle" /\ sam' = [sam EXCEPT !.known = FALSE]
  /\ UNCHANGED <<vars, ident>>

\* pf_dcp_responder()
AnswerExpires ==
  /\ main = "idle" /\ ident.pending > 0
  /\ main' = "send" /\ ident' = [ident EXCEPT !.pending = @ - 1]
  /\ UNCHANGED <<vars, sam>>

AnswerSent ==
  /\ main = "send"
  /\ main' = "sent" /\ ident' = [ident EXCEPT !.buffers = @ - 1]
  /\ UNCHANGED <<vars, sam>>

AnswerDone ==
  /\ main = "sent"
  /\ main' = "idle" /\ ident' = [ident EXCEPT !.waiting = FALSE]
  /\ UNCHANGED <<vars, sam>>

MainIdle == main = "idle" /\ MainAndAgent /\ UNCHANGED <<sam, ident, main>>
-----------------------------------------------------------------------------
\* pf_dcp_init()
NoSam == [mac |-> Nil, armed |-> 0, known |-> FALSE, from |-> Nil]
NoIdent == [at |-> "idle", req |-> <<>>, pending |-> 0, buffers |-> 0, waiting |-> FALSE]

StationInit == SettingsInit /\ sam = NoSam /\ ident = NoIdent /\ main = "idle"

PowerFails == Restart /\ sam' = NoSam /\ ident' = NoIdent /\ main' = "idle"

StationNext ==
  \/ \E mac \in Macs : GetSetBegin(mac)
  \/ GetSetBlock \/ GetSetEnd
  \/ Identify \/ IdentifyMatch \/ IdentifyAdd \/ IdentifyMark
  \/ SamExpires \/ SamCleared \/ SamReset
  \/ AnswerExpires \/ AnswerSent \/ AnswerDone \/ MainIdle
  \/ (Worker /\ UNCHANGED <<sam, ident, main>>) \/ PowerFails

StationSpec == StationInit /\ [][StationNext]_stationVars
-----------------------------------------------------------------------------
\* A request means this device when it begins with everyone, or with a name or an
\* alias of ours that all that follows agrees with.  A block that is cut ends the
\* request; one that has none is answered as well.
Meant(req) ==
  LET cuts  == {i \in DOMAIN req : req[i].opt = "cut"}
      n     == IF cuts = {} THEN Len(req) ELSE (CHOOSE i \in cuts : \A j \in cuts : i <= j) - 1
      Agrees(b) == \/ b.opt = "name" /\ b.val = dev.cur.name
                   \/ b.opt = "alias" /\ b.val \in Ours
                   \/ b.opt = "value" /\ b.val = "ours"
  IN \/ n = 0
     \/ req[1].opt = "all"
     \/ req[1].opt \in {"name", "alias"} /\ \A i \in 1 .. n : Agrees(req[i])

\* An Identify is answered exactly when it means this device, whatever filters it
\* combines in whatever order: pf_dcp_identify_req() decides it with four flags in
\* a loop.
IdentifyExact ==
  [][ident.at = "match" /\ ident'.at # "match" /\ main' = main /\ frame' = frame
       => (ident'.at = "add" <=> Meant(ident.req)) \/ ident' = NoIdent]_stationVars

\* There is one answer at most, which is sent and given back before another one is
\* made: the timer's handle has room for one.
OneAnswer == ident.buffers <= 1 /\ ident.pending <= ident.buffers

\* "A response to DCP IDENTIFY is waiting to be sent" (pf_types.h:2952).
WaitsForAnswer == ident.waiting => ident.buffers > 0 \/ main = "sent"
=============================================================================
