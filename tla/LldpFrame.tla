----------------------------- MODULE LldpFrame -----------------------------
(* What a device says of itself in an LLDP frame, and how common/pf_lldp.c   *)
(* reads a frame of any neighbour, element by element.                       *)
(*                                                                           *)
(* A text is the sequence of its labels, the parts between its dots.  An     *)
(* element (TLV) has the length its header says, the size it has, and what   *)
(* it says.  A reader that is out of step reads anything: it is followed to  *)
(* there.                                                                    *)
EXTENDS Integers, SequencesExt

CONSTANTS
  LabelLen,  \* the length of each label
  Devices,   \* what sends frames: [mode, name, port], the name <<>> if none is set
  Foreign    \* frames of other neighbours

VARIABLES
  from,   \* the device that sent the frame, {} for another neighbour
  frame,  \* the elements still to be read
  info,   \* lldp_peer_info: what is known of the neighbour
  result  \* "reading", "read", "refused", or "out of step"

lldpVars == <<from, frame, info, result>>

TextLen(text) == FoldLeft(LAMBDA n, l : n + 1 + LabelLen[l], 0, text) - 1
\* snprintf() into room for n characters: the text, or as much of it.
Printed(text, n) == IF TextLen(text) > n THEN [text |-> text, upTo |-> n] ELSE [text |-> text]
\* pf_lldp_mac_address_to_string(), and the address itself.
MacText == <<"mac">>
MacBytes == <<"mac bytes">>
-----------------------------------------------------------------------------
(* The frame of a device.                                                    *)

Name == 240  \* PNET_STATION_NAME_MAX_SIZE - 1

\* pf_lldp_get_chassis_id()
ChassisId(d) ==
  CASE d.name = <<>> \/ TextLen(d.name) > Name -> [subtype |-> "MAC", text |-> MacBytes]
    [] d.name # <<>> /\ TextLen(d.name) <= Name /\ d.mode = "LEGACY" -> [subtype |-> "LOCAL", text |-> d.name]
    [] OTHER -> [subtype |-> "LOCAL", text |-> <<"description">>]

\* pf_lldp_get_port_id()
PortId(d) ==
  [subtype |-> "LOCAL",
   text |-> IF d.mode = "LEGACY" THEN <<d.port>>
            ELSE <<d.port>> \o (IF d.name = <<>> THEN MacText ELSE d.name)]

\* pf_lldp_add_tlv_header(): the length is a uint8_t.
Put(kind, len, size, says) == <<[kind |-> kind, len |-> len % 256, size |-> size, says |-> says]>>
PutId(kind, id) == Put(kind, 1 + TextLen(id.text), 1 + TextLen(id.text), id)

\* pf_lldp_construct_frame()
Constructed(d) ==
  PutId("chassis", ChassisId(d)) \o PutId("port", PortId(d)) \o Put("ttl", 2, 2, 20)
  \o Put("status", 5 + 3, 3 + 1 + 2 + 2, 0) \o Put("mac", 1 + 6 + 3, 3 + 1 + 6, MacBytes)
  \o Put("phy", 6 + 3, 3 + 1 + 1 + 2 + 2, 0)
  \o Put("management", 12, 1 + 1 + 4 + 1 + 4 + 1, [len |-> 4, subtype |-> 1, oid |-> 0])
  \o Put("end", 0, 0, 0)
-----------------------------------------------------------------------------
(* Each element: what the reader takes of it, and the bytes it goes on.  An  *)
(* element that is refused ends the reading.                                 *)

Known == [chassis |-> {}, port |-> {}, ttl |-> 0, description |-> {}, management |-> {},
          delay |-> {}, status |-> {}, mac |-> {}, phy |-> {}]

Ignored(t) == [refused |-> FALSE, goesOn |-> t.len, info |-> info]
Refused == [refused |-> TRUE, goesOn |-> 0, info |-> info]
Taken(n, new) == [refused |-> FALSE, goesOn |-> n, info |-> new]

\* Mutant: an id that is too long is left where it is.
ReadIdStays(t, max) ==
  IF t.len = 0 THEN Ignored(t)
  ELSE IF t.len - 1 > max THEN Taken(0, info)
  ELSE Taken(t.len, [info EXCEPT ![t.kind] = {t.says}])

\* pf_lldp_get_chassis_id_from_packet(), pf_lldp_get_port_id_from_packet()
ReadId(t, max) ==
  IF t.len = 0 \/ t.len - 1 > max THEN Ignored(t)
  ELSE Taken(t.len, [info EXCEPT ![t.kind] = {t.says}])

\* pf_lldp_get_port_description_from_packet()
ReadDescription(t) ==
  IF t.len > 255 THEN Ignored(t) ELSE Taken(t.len, [info EXCEPT !.description = {t.says}])

\* pf_lldp_get_ttl_from_packet()
ReadTtl(t) == IF t.len # 2 THEN Refused ELSE Taken(2, [info EXCEPT !.ttl = t.says])

\* pf_lldp_get_management_address_from_packet() goes by the lengths inside of the
\* element; only an IPv4 address is kept.
ReadManagement(t) ==
  IF t.says.len \notin 1 .. 31 THEN Ignored(t)
  ELSE Taken(1 + 1 + t.says.len + 1 + 4 + 1 + t.says.oid,
             IF t.says.subtype = 1 /\ t.says.len = 4
             THEN [info EXCEPT !.management = {t.says}] ELSE info)

\* The organizationally specific elements, which have a fixed length.
FixedLen == [delay |-> 24, status |-> 8, mac |-> 10, phy |-> 9]
ReadFixed(t) ==
  IF t.len # FixedLen[t.kind] THEN Refused
  ELSE Taken(t.len, [info EXCEPT ![t.kind] = {t.says}])

Read(t) ==
  CASE t.kind = "chassis"     -> ReadId(t, Name)
    [] t.kind = "port"        -> ReadId(t, Name + 15)
    [] t.kind = "ttl"         -> ReadTtl(t)
    [] t.kind = "description" -> ReadDescription(t)
    [] t.kind = "management"  -> ReadManagement(t)
    [] t.kind \in DOMAIN FixedLen -> ReadFixed(t)
    [] OTHER -> Ignored(t)

-----------------------------------------------------------------------------
(* What is known of a neighbour: its names, {} when one is not known.        *)

NotEmpty(text) == IF TextLen(text) > 0 THEN {text} ELSE {}

\* pf_lldp_get_peer_station_name(): what follows the first dot of the port id, or else
\* the chassis id.
StationName(i) ==
  LET named == {id.text : id \in {p \in i.port : Len(p.text) > 1}}
      chassis == {IF c.subtype = "MAC" THEN MacText ELSE c.text : c \in i.chassis}
  IN {Printed(t, Name) : t \in UNION {NotEmpty(u) : u \in
                           IF named # {} THEN {Tail(n) : n \in named} ELSE chassis}}

\* pf_lldp_get_peer_port_name(): the port id up to its first dot.
PortName(i) == {Printed(t, 14) : t \in UNION {NotEmpty(<<Head(p.text)>>) : p \in i.port}}

\* pf_lldp_generate_alias_name()
Alias(i) ==
  LET text(ids) == IF ids = {} THEN <<"">> ELSE (CHOOSE id \in ids : TRUE).text
      port == text(i.port)
      alias == IF Len(port) > 1 THEN port ELSE port \o text(i.chassis)
  IN {t \in {alias} : TextLen(t) < Name + 16}
-----------------------------------------------------------------------------
Init ==
  /\ \/ \E d \in Devices : from = {d} /\ frame = Constructed(d)
     \/ from = {} /\ frame \in Foreign
  /\ info = Known /\ result = "reading"

Size(elements) == FoldLeft(LAMBDA n, t : n + 2 + t.size, 0, elements)

\* pf_lldp_parse_packet(): one element; reading may not go on behind the frame.
ReadElement ==
  /\ result = "reading" /\ frame # <<>> /\ Head(frame).kind # "end"
  /\ LET t == Head(frame)
         r == Read(t)
     IN CASE r.refused \/ 2 + r.goesOn > Size(frame) ->
               result' = "refused" /\ UNCHANGED <<frame, info>>
          [] ~r.refused /\ r.goesOn = t.size ->
               frame' = Tail(frame) /\ info' = r.info /\ UNCHANGED result
          [] OTHER -> result' = "out of step" /\ info' = r.info /\ UNCHANGED frame
  /\ UNCHANGED from

ReadEnd ==
  /\ result = "reading" /\ frame # <<>> /\ Head(frame).kind = "end"
  /\ result' = "read"
  /\ UNCHANGED <<from, frame, info>>

\* The frame ends without the element that should end it.
NoEnd ==
  /\ result = "reading" /\ frame = <<>>
  /\ result' = "refused"
  /\ UNCHANGED <<from, frame, info>>

Next == ReadElement \/ ReadEnd \/ NoEnd

Spec == Init /\ [][Next]_lldpVars
-----------------------------------------------------------------------------
\* What one device says is what another one understands: whichever of its modes the
\* sender is in, its neighbour learns the station name by which DCP and the controller
\* know it (the MAC address in place of none), the port's name, and the alias made of
\* both, and believes it no longer than a minute (LLDP_PEER_MAX_TTL_IN_SECS).  The alias
\* of a device in legacy mode without a name is left out: it has the bytes of its MAC.
UnderstoodByPeers ==
  \A d \in from :
    LET name == IF d.name = <<>> THEN MacText ELSE d.name
    IN /\ result \in {"reading", "read"}
       /\ result = "read" =>
            /\ StationName(info) = {[text |-> name]}
            /\ PortName(info) = {[text |-> <<d.port>>]}
            /\ d.mode = "STANDARD" \/ d.name # <<>> => Alias(info) = {<<d.port>> \o name}
            /\ info.ttl \in 1 .. 60 /\ info.management # {} /\ info.mac = {MacBytes}

\* Whether an element is as long as it says, inside and outside.
Honest(t) ==
  /\ t.len = t.size
  /\ t.kind = "management" /\ t.says.len \in 1 .. 31 => t.len = 8 + t.says.len + t.says.oid

\* A neighbour's frame whose elements are as long as they say is never read out of step,
\* whatever is unknown, repeated, empty or too long in it; so a station or a port is
\* never named by a part of another element.
NeverOutOfStep == (\A i \in DOMAIN frame : Honest(frame[i])) => result # "out of step"

PeersUnderstood == UnderstoodByPeers /\ NeverOutOfStep
=============================================================================
