----------------------------- MODULE Addresses -----------------------------
(* Which station names and which IP suites pf_cmina.c accepts from a DCP Set: *)
(* the scan of a name, and the bit tests of an address, mask and gateway.     *)
(*                                                                            *)
(* A name is a sequence of kinds of characters: "letter" (a lower case one),  *)
(* "digit", "-", "." and "other"; port tells whether its first five are       *)
(* "port-", which is left out of rest.  An address has the eight bits of its  *)
(* first octet, which the ranges are about, and RestBits more in place of 24. *)
EXTENDS Integers, Sequences, Bitwise, SequencesExt

CONSTANTS
  Names,      \* [port : BOOLEAN, rest : Seq(Kinds)]
  Suites,     \* [ip, mask, gateway]
  MaxLabel,   \* 63
  NameSize,   \* PNET_STATION_NAME_MAX_SIZE, with the terminator
  RestBits

VARIABLES
  asked_name, \* what a Set brings
  asked_suite

vars == <<asked_name, asked_suite>>

Kinds == {"letter", "digit", "-", ".", "other"}
-----------------------------------------------------------------------------
(* pf_cmina_is_stationname_valid().                                           *)
Chars(name) ==
  IF name.port THEN <<"letter", "letter", "letter", "letter", "-">> \o name.rest ELSE name.rest

\* "port-xyz" and "port-xyz-abcde": by the length, and by there being nothing
\* but digits and hyphens.
PortLike(name) ==
  /\ name.port
  /\ Len(name.rest) \in {3, 9}
  /\ ToSet(name.rest) \subseteq {"digit", "-"}

\* Mutant: a label may have one character more.
ScanLonger(s, c) ==
  [ok |-> /\ s.ok
          /\ c # "other"
          /\ c = "." => s.prev # "-"
          /\ c # "." => s.offset <= MaxLabel
          /\ c = "-" => s.offset > 0,
   prev |-> c,
   offset |-> IF c = "." THEN 0 ELSE s.offset + 1,
   labels |-> s.labels + IF c = "." THEN 1 ELSE 0,
   non_digit |-> s.non_digit + IF c \in {"letter", "-"} THEN 1 ELSE 0]

\* One character of the scan.
Scan(s, c) ==
  [ok |-> /\ s.ok
          /\ c # "other"
          /\ c = "." => s.prev # "-"
          /\ c # "." => s.offset < MaxLabel
          /\ c = "-" => s.offset > 0,
   prev |-> c,
   offset |-> IF c = "." THEN 0 ELSE s.offset + 1,
   labels |-> s.labels + IF c = "." THEN 1 ELSE 0,
   non_digit |-> s.non_digit + IF c \in {"letter", "-"} THEN 1 ELSE 0]

Scanned(chars) ==
  FoldLeft(Scan, [ok |-> TRUE, prev |-> "letter", offset |-> 0, labels |-> 1, non_digit |-> 0], chars)

StationNameValid(name) ==
  LET chars == Chars(name)
      end == Scanned(chars)
  IN  \/ chars = <<>>
      \/ /\ Head(chars) # "-" /\ Len(chars) < NameSize
         /\ ~PortLike(name)
         /\ end.ok
         /\ ~(end.labels = 4 /\ end.non_digit = 0)
         /\ end.prev # "-"
-----------------------------------------------------------------------------
(* The checks of an IP suite.                                                 *)
Width == 8 + RestBits
All == 2 ^ Width - 1
Address(first, rest) == first * 2 ^ RestBits + rest
Complement(x) == All - x

NetmaskValid(mask) == (mask & (Complement(mask) \div 2)) = 0

\* pf_cmina_is_ipaddress_valid(): 0.x, 127.x, and from 224.x on are not for a
\* device, nor are the first and the last address of a net.
IpAddressValid(mask, ip) ==
  LET host == ip & Complement(mask)
      last == 2 ^ RestBits - 1
  IN  \/ mask = 0 /\ ip = 0
      \/ /\ NetmaskValid(mask)
         /\ host \notin {0, Complement(mask)}
         /\ ip > Address(0, last)
         /\ ip \notin Address(127, 0) .. Address(127, last)
         /\ ip < Address(224, 0)

GatewayValid(ip, mask, gateway) == gateway = 0 \/ (ip & mask) = (gateway & mask)

\* Also pf_cmina_is_full_ipsuite_valid(), which does not look at the DNS addresses.
IpSuiteValid(s) ==
  /\ NetmaskValid(s.mask)
  /\ IpAddressValid(s.mask, s.ip)
  /\ GatewayValid(s.ip, s.mask, s.gateway)
-----------------------------------------------------------------------------
Init == asked_name \in Names /\ asked_suite \in Suites

Next == UNCHANGED vars

Spec == Init /\ [][Next]_vars
-----------------------------------------------------------------------------
(* What the comment above pf_cmina_is_stationname_valid() asks of a name      *)
(* (pf_cmina.c:1508), by its labels.                                          *)

\* The labels, as the positions of their characters.
LabelsOf(chars) ==
  LET dots == {0, Len(chars) + 1} \cup {k \in 1 .. Len(chars) : chars[k] = "."}
      next(k) == CHOOSE d \in dots : d > k /\ \A e \in dots : e > k => d <= e
  IN  {k + 1 .. next(k) - 1 : k \in dots \ {Len(chars) + 1}}

EmptyLabel(chars) ==
  LET dot(k) == k \in {0, Len(chars) + 1} \/ chars[k] = "."
  IN  chars # <<>> /\ \E k \in 0 .. Len(chars) : dot(k) /\ dot(k + 1)

RightLabel(chars, l) ==
  /\ \A k \in l : chars[k] \in {"letter", "digit", "-"}
  /\ \A k \in l : k - 1 \notin l => chars[k] # "-"
  /\ \A k \in l : k + 1 \notin l => chars[k] # "-"
  /\ \A k \in l : k + MaxLabel \notin l

IsDotted(chars) ==
  /\ ToSet(chars) \subseteq {"digit", "."}
  /\ Len(SelectSeq(chars, LAMBDA c : c = ".")) = 3

Dotted999(chars) ==
  IsDotted(chars) /\ ~EmptyLabel(chars) /\ \A l \in LabelsOf(chars) : \A k \in l : k + 3 \notin l

\* "port-xyz" or "port-xyz-abcde" as the first label.
PortLabel(name) ==
  LET d3 == <<"digit", "digit", "digit">>
      d5 == d3 \o <<"digit", "digit">>
      starts(s) == \/ name.rest = s
                   \/ Len(name.rest) > Len(s) /\ SubSeq(name.rest, 1, Len(s) + 1) = Append(s, ".")
  IN  name.port /\ (starts(d3) \/ starts(d3 \o <<"-">> \o d5))

Ruled(name) ==
  LET chars == Chars(name)
  IN  /\ Len(chars) <= NameSize - 1
      /\ ~EmptyLabel(chars)
      /\ \A l \in LabelsOf(chars) : RightLabel(chars, l)
      /\ ~PortLabel(name) /\ ~Dotted999(chars)

\* A name is accepted if the rules allow it, and only then, but for these: a
\* label may be empty; a first label like a port's is accepted when others
\* follow; other mixtures of digits and hyphens after "port-" are refused, and
\* so are four labels of digits however many (pf_cmina.c:1529, one scan).
NameAsRuled ==
  LET name == asked_name
      chars == Chars(name)
      lenient == EmptyLabel(chars) \/ (PortLabel(name) /\ ~PortLike(name))
      strict == PortLike(name) \/ IsDotted(chars)
  IN  /\ StationNameValid(name) /\ ~lenient => Ruled(name)
      /\ Ruled(name) /\ ~strict => StationNameValid(name)
      /\ StationNameValid(name) => \A l \in LabelsOf(chars) : RightLabel(chars, l)

\* An accepted mask is a prefix, the address one of a host in its net, and the
\* gateway in the same net, all told by division instead of by bits; whatever
\* is such a suite is accepted.  Without an address nothing is asked of the
\* gateway (pf_cmina.c:1650).
SuiteAsRuled ==
  LET s == asked_suite
      size(n) == 2 ^ n
      host(n) == s.ip % size(n)
      first == s.ip \div 2 ^ RestBits
      sound == \E n \in 0 .. Width :
                 /\ s.mask = All + 1 - size(n)
                 /\ host(n) \notin {0, size(n) - 1}
                 /\ first \notin {0, 127} /\ first < 224
                 /\ s.gateway # 0 => s.gateway \div size(n) = s.ip \div size(n)
  IN  IpSuiteValid(s) <=> sound \/ (s.ip = 0 /\ s.mask = 0)
=============================================================================
