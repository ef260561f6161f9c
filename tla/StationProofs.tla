---------------------------- MODULE StationProofs ----------------------------
(* What is proved of the station and of its neighbours, two components that   *)
(* share nothing but this module.                                             *)
(*                                                                            *)
(* Of Settings and Dcp, for any names, addresses, locations and reset modes,   *)
(* any number of controllers and any request: an AR does not outlive the name *)
(* and the address that it was made under, what is permanent survives a power *)
(* failure, one answer at most waits to be sent, and an Identify is answered  *)
(* exactly when it means this device.                                         *)
(*                                                                            *)
(* Of Neighbours, for any number of ports and of frames, records and Connects: *)
(* the diagnosis of a port follows its peer, a peer is believed no longer than *)
(* it asked for and a port sends as its boundary says.                        *)
EXTENDS Dcp, Neighbours, ListLemmas, FiniteSetTheorems

-----------------------------------------------------------------------------
(* Types.                                                                  *)

ArUnder == [name : Names, ip : Ips, settled : BOOLEAN]
Sources == {"file", "im", "snmp", "reset"}
SettingStates == {"SET_NAME", "SET_IP", "W_CONNECT"}
DevType == [state : SettingStates, cur : Ase, nonvol : Ase, commit : BOOLEAN, osIp : Ips, hello : 0 .. HelloRetry,
            armed : BOOLEAN, ars : SUBSET ArUnder, im : Im1, sys : Location,
            events : SUBSET Jobs, unsaved : BOOLEAN, cleared : BOOLEAN,
            by : Sources, ok : BOOLEAN]
\* A file is missing, or has one content.
FileOf(S) == {Lost} \cup {{c} : c \in S}
Files == {"ip", "im", "loc"}
FilesType(f) == /\ f \in [Files -> FileOf(Ase) \cup FileOf(Im1) \cup FileOf(Location)]
                /\ f["ip"] \in FileOf(Ase) /\ f["im"] \in FileOf(Im1)
                /\ f["loc"] \in FileOf(Location)

LEMMA ContentIs == \A c : Content({c}) = c
BY DEF Content

LEMMA Contents == ASSUME NEW S, NEW f \in FileOf(S), f # Lost
                  PROVE  Content(f) \in S /\ f = {Content(f)}
<1>1. PICK c \in S : f = {c}  BY DEF FileOf
<1> QED  BY <1>1, ContentIs

LEMMA Blanks == "" \in Names /\ 0 \in Ips /\ "" \in Heads /\ Default \in Ase
                /\ Short("") \in Location /\ \A h \in Heads : Short(h) \in Location
BY SettingsAssumption DEF Ase, Short, Location

-----------------------------------------------------------------------------
(* A change of the memory.                                                 *)

\* What is changed leaves an event behind.
Asks(d, e) ==
  /\ d.events \subseteq e.events
  /\ e.nonvol # d.nonvol => "saveAse" \in e.events
  /\ e.im # d.im => e.unsaved \/ "saveIm" \in e.events
  /\ d.unsaved /\ ~e.unsaved => "saveIm" \in e.events
  /\ e.sys # d.sys \/ e.by # d.by => e.by = "im" \/ "saveLoc" \in e.events
  /\ e.by = "file" => d.by = "file" /\ ("saveIm" \in e.events => "saveIm" \in d.events)
  /\ "clearIp" \in e.events => "clearIp" \in d.events \/ e.cleared
  /\ d.cleared => e.cleared

\* No AR is settled, or those that are have the name and the address.
Free(d) == \A ar \in d.ars : ~ar.settled
Named(d, busy) ==
  /\ d.commit => busy /\ Free(d)
  /\ d.state # "W_CONNECT" => Free(d)
  /\ \A a, b \in d.ars : a = b
  /\ \A ar \in d.ars : ar.settled => ar.name = d.cur.name /\ ar.ip = d.osIp

LEMMA AsksTwice ==
  ASSUME NEW d, NEW e, NEW f, Asks(d, e), Asks(e, f)
  PROVE  Asks(d, f)
BY DEF Asks

LEMMA SnmpResetIs ==
  ASSUME NEW d \in DevType
  PROVE  LET e == SnmpReset(d) IN
         /\ e \in DevType /\ Asks(d, e) /\ e.ars = d.ars /\ e.commit = d.commit
         /\ e.state = d.state /\ e.nonvol = d.nonvol
BY Blanks DEF SnmpReset, DevType, Asks, Jobs, Sources

LEMMA ApplicationResetIs ==
  ASSUME NEW d \in DevType
  PROVE  LET e == ApplicationReset(d) IN
         /\ e \in DevType /\ Asks(d, e) /\ e.ars = d.ars /\ e.commit = d.commit
         /\ e.state = d.state /\ e.nonvol = d.nonvol
BY Blanks DEF ApplicationReset, SnmpReset, DevType, Asks, Jobs, Sources, Im1

LEMMA CommunicationResetIs ==
  ASSUME NEW d \in DevType
  PROVE  LET e == CommunicationReset(d)
             g == [e EXCEPT !.events = @ \cup {"saveAse"}]
         IN
         /\ e \in DevType /\ Asks(d, g) /\ e.ars = d.ars /\ e.commit = d.commit
         /\ e.state = d.state
BY Blanks DEF CommunicationReset, SnmpReset, DevType, Asks, Jobs, Sources, Ase

LEMMA SetDefaultIs ==
  ASSUME NEW d \in DevType, NEW f, FilesType(f), NEW mode \in Nat
  PROVE  LET e == SetDefault(d, f, mode) IN
         /\ e \in DevType /\ Asks(d, e) /\ e.ars = d.ars /\ e.commit = d.commit
         /\ e.state = d.state /\ e.cur = e.nonvol /\ "saveAse" \in e.events
<1> DEFINE a == IF mode = 0 THEN [d EXCEPT !.nonvol = Loaded(f)] ELSE d
           b == IF mode = 1 \/ mode >= 3 THEN ApplicationReset(a) ELSE a
           c == IF mode = 2 \/ mode >= 3 THEN CommunicationReset(b) ELSE b
           g == [c EXCEPT !.events = @ \cup {"saveAse"}]
           e == [g EXCEPT !.cur = c.nonvol]
           Same(x, y) == y.ars = x.ars /\ y.commit = x.commit /\ y.state = x.state
           Also(x) == [x EXCEPT !.events = @ \cup {"saveAse"}]
<1>1. Loaded(f) \in Ase  BY Contents, Blanks DEF Loaded, FilesType
<1>2. \A x \in DevType : /\ Also(x) \in DevType /\ Same(x, Also(x)) /\ Also(x).nonvol = x.nonvol
                         /\ "saveAse" \in Also(x).events
  BY DEF DevType, Jobs
<1>3. a \in DevType /\ Asks(d, Also(a)) /\ Same(d, a)
  BY <1>1 DEF DevType, Asks, Jobs
<1> HIDE DEF a
<1>4. b \in DevType /\ Asks(a, b) /\ Same(a, b)
  <2>1. CASE mode = 1 \/ mode >= 3  BY <1>3, <2>1, ApplicationResetIs
  <2>2. CASE ~(mode = 1 \/ mode >= 3)  BY <1>3, <2>2 DEF Asks
  <2> QED  BY <2>1, <2>2
<1> HIDE DEF b
<1>5. c \in DevType /\ Asks(b, Also(c)) /\ Same(b, c)
  <2>1. CASE mode = 2 \/ mode >= 3  BY <1>4, <2>1, CommunicationResetIs
  <2>2. CASE ~(mode = 2 \/ mode >= 3)  BY <1>4, <2>2 DEF Asks, DevType, Jobs
  <2> QED  BY <2>1, <2>2
<1> HIDE DEF c
<1>6. e \in DevType /\ Asks(g, e) /\ Same(c, e) /\ e.cur = e.nonvol /\ e.events = g.events
  BY <1>5 DEF DevType, Jobs, Asks
<1>7. Asks(d, e)
  <2>1. /\ a.nonvol # d.nonvol => "saveAse" \in e.events
        /\ "saveAse" \in e.events
    BY <1>2, <1>5, <1>6
  <2>2. Asks(a, g)  BY <1>4, <1>5, AsksTwice
  <2>3. Asks(a, e)  BY <1>6, <2>2, AsksTwice
  <2>4. /\ Also(a).im = a.im /\ Also(a).unsaved = a.unsaved /\ Also(a).sys = a.sys
        /\ Also(a).by = a.by /\ Also(a).cleared = a.cleared /\ Also(a).nonvol = a.nonvol
        /\ Also(a).events = a.events \cup {"saveAse"}
    BY <1>3 DEF DevType
  <2>5. Asks(Also(a), e)
    BY <2>1, <2>3, <2>4 DEF Asks
  <2> HIDE DEF Also, e
  <2> QED  BY <1>3, <2>5, AsksTwice
<1>8. SetDefault(d, f, mode) = [c EXCEPT !.events = @ \cup {"saveAse"}, !.cur = c.nonvol]
  BY DEF SetDefault, a, b, c
<1>9. SetDefault(d, f, mode) = e  BY <1>5, <1>8 DEF DevType
<1>10. "saveAse" \in e.events  BY <1>2, <1>5, <1>6
<1> QED  BY <1>3, <1>4, <1>5, <1>6, <1>7, <1>9, <1>10

LEMMA CommittedIs ==
  ASSUME NEW d \in DevType
  PROVE  LET e == Committed(d) IN
         /\ e \in DevType /\ Asks(d, e) /\ ~e.commit /\ e.ars = d.ars /\ e.state = d.state
         /\ e.cur = d.cur /\ (~d.commit => e = d)
         /\ e.nonvol = d.nonvol /\ e.im = d.im /\ e.sys = d.sys /\ e.events = d.events
         /\ e.by = d.by /\ e.cleared = d.cleared
BY DEF Committed, DevType, Asks, Ase

LEMMA StartedIs ==
  ASSUME NEW f, FilesType(f)
  PROVE  LET e == Started(f) IN
         /\ e \in DevType /\ ~e.commit /\ e.ars = {} /\ e.by = "file" /\ ~e.cleared
         /\ e.events = {"saveAse"} /\ e.nonvol = Loaded(f)
         /\ e.im = (IF f["im"] # Lost THEN Content(f["im"]) ELSE [fun |-> "", loc |-> ""])
         /\ e.sys = (IF f["loc"] # Lost THEN Content(f["loc"]) ELSE Short(e.im.loc))
         /\ FilesType(Saved(f)) /\ Saved(f) = [f EXCEPT !["im"] = {e.im}]
<1> DEFINE im == IF f["im"] # Lost THEN Content(f["im"]) ELSE [fun |-> "", loc |-> ""]
           sys == IF f["loc"] # Lost THEN Content(f["loc"]) ELSE Short(im.loc)
           z == [state |-> "SETUP", cur |-> Default, nonvol |-> Default,
              commit |-> FALSE, osIp |-> 0, hello |-> 0, armed |-> FALSE, ars |-> {},
              im |-> im, sys |-> sys,
              events |-> {}, unsaved |-> FALSE, cleared |-> FALSE,
              by |-> "file", ok |-> TRUE]
           d == [z EXCEPT !.nonvol = Loaded(f), !.events = {"saveAse"}, !.cur = Loaded(f)]
           first == Complete(d.cur) /\ SendHello
           st == IF d.cur.name = "" THEN "SET_NAME"
                 ELSE IF d.cur.ip = 0 THEN "SET_IP" ELSE "W_CONNECT"
           x == [d EXCEPT !.state = st,
                   !.commit = Complete(d.cur) \/ ~Dhcp,
                   !.hello = IF first THEN HelloRetry ELSE 0, !.armed = first]
<1>1. /\ im \in Im1 /\ sys \in Location /\ Loaded(f) \in Ase
  <2>1. im \in Im1
    <3>1. [fun |-> "", loc |-> ""] \in Im1  BY Blanks DEF Im1
    <3> QED  BY <3>1, Contents DEF FilesType
  <2>2. Short(im.loc) \in Location  BY <2>1, Blanks DEF Im1
  <2>3. sys \in Location
    <3> HIDE DEF im
    <3> QED  BY <2>2, Contents DEF FilesType
  <2>4. Loaded(f) \in Ase  BY Contents, Blanks DEF Loaded, FilesType
  <2> QED  BY <2>1, <2>3, <2>4
<1> HIDE DEF im, sys
<1>2. SetDefault(z, f, 0) = d
  <2>1. SetDefault(z, f, 0) =
          [[z EXCEPT !.nonvol = Loaded(f)] EXCEPT !.events = @ \cup {"saveAse"},
                                                  !.cur = [z EXCEPT !.nonvol = Loaded(f)].nonvol]
    BY DEF SetDefault
  <2> QED  BY <2>1
<1>3. Started(f) = Committed(x)
  <2> DEFINE First(y) == Complete(y.cur) /\ SendHello
             Is(y) == [y EXCEPT
                   !.state = IF y.cur.name = "" THEN "SET_NAME"
                             ELSE IF y.cur.ip = 0 THEN "SET_IP" ELSE "W_CONNECT",
                   !.commit = Complete(y.cur) \/ ~Dhcp,
                   !.hello = IF First(y) THEN HelloRetry ELSE 0, !.armed = First(y)]
  <2>1. Started(f) = Committed(Is(SetDefault(z, f, 0)))  BY DEF Started, im, sys
  <2> HIDE DEF z
  <2>2. Started(f) = Committed(Is(d))  BY <1>2, <2>1
  <2> HIDE DEF d
  <2> QED  BY <2>2
<1>9. HelloRetry \in Nat /\ (IF first THEN HelloRetry ELSE 0) \in 0 .. HelloRetry
  <2>1. HelloRetry \in Nat  BY SettingsAssumption
  <2>2. 0 \in 0 .. HelloRetry /\ HelloRetry \in 0 .. HelloRetry  BY <2>1
  <2> HIDE DEF first
  <2> QED  BY <2>1, <2>2
<1>4. /\ x.state \in SettingStates /\ x.cur = Loaded(f) /\ x.nonvol = Loaded(f) /\ x.commit \in BOOLEAN
      /\ x.osIp = 0 /\ x.hello \in 0 .. HelloRetry /\ x.armed \in BOOLEAN /\ x.ars = {} /\ x.im = im
      /\ x.sys = sys /\ x.events = {"saveAse"} /\ x.unsaved = FALSE /\ x.cleared = FALSE
      /\ x.by = "file" /\ x.ok = TRUE
  BY <1>9 DEF Complete, SettingStates
<1>5. x \in DevType
  BY <1>1, <1>9, SettingsAssumption DEF Complete, SettingStates, DevType, Sources, Jobs, Ase
<1> HIDE DEF x
<1>7. LET e == Committed(x) IN
      /\ e \in DevType /\ ~e.commit /\ e.ars = {} /\ e.by = "file" /\ e.cleared = FALSE
      /\ e.events = {"saveAse"} /\ e.nonvol = Loaded(f) /\ e.im = im /\ e.sys = sys
  BY <1>4, <1>5, CommittedIs
<1>8. FilesType(Saved(f)) /\ Saved(f) = [f EXCEPT !["im"] = {im}]
  BY <1>1, <1>3, <1>7 DEF Saved, FilesType, Files, FileOf
<1> HIDE DEF x
<1> QED  BY <1>3, <1>7, <1>8, Zenon DEF im, sys

LEMMA DecidedIs ==
  ASSUME NEW d \in DevType, NEW name \in BOOLEAN, NEW ip \in BOOLEAN, NEW reset \in BOOLEAN
  PROVE  LET e == Decided(d, name, ip, reset) IN
         /\ e \in DevType /\ Asks(d, e) /\ e.ars \subseteq d.ars /\ e.cur = d.cur
         /\ e.osIp = d.osIp /\ e.events = d.events
         /\ e.commit /\ ~d.commit => d.ars = {} \/ d.state # "W_CONNECT"
         /\ d.state = "W_CONNECT" /\ e.state # "W_CONNECT" => e.ars = {}
         /\ d.state # "W_CONNECT" => e.ars = d.ars
         /\ name /\ d.state = "W_CONNECT" => e.ars = {}
         /\ reset /\ d.state = "W_CONNECT" => e.ars = {}
<1> DEFINE e == Decided(d, name, ip, reset)
           Same(x) == /\ x \in DevType /\ x.cur = d.cur /\ x.nonvol = d.nonvol /\ x.osIp = d.osIp
                      /\ x.events = d.events /\ x.im = d.im /\ x.unsaved = d.unsaved
                      /\ x.sys = d.sys /\ x.by = d.by /\ x.cleared = d.cleared
<1>1. \A x : Same(x) => Asks(d, x)  BY DEF Asks
<1>2. CASE d.state # "W_CONNECT"
  <2>1. e = IF ~(name \/ ip) THEN d
            ELSE IF Complete(d.cur) THEN [d EXCEPT !.commit = TRUE, !.state = "W_CONNECT"]
            ELSE [d EXCEPT !.state = IF d.cur.name = "" THEN "SET_NAME" ELSE "SET_IP"]
    BY <1>2 DEF Decided
  <2>2. Same(e) /\ e.ars = d.ars
    <3>1. CASE ~(name \/ ip)  BY <2>1, <3>1
    <3>2. CASE (name \/ ip) /\ Complete(d.cur)
      <4>1. e = [d EXCEPT !.commit = TRUE, !.state = "W_CONNECT"]  BY <2>1, <3>2
      <4> HIDE DEF e
      <4> QED  BY <4>1 DEF DevType, SettingStates
    <3>3. CASE (name \/ ip) /\ ~Complete(d.cur)
      <4>1. e = [d EXCEPT !.state = IF d.cur.name = "" THEN "SET_NAME" ELSE "SET_IP"]
        BY <2>1, <3>3
      <4> HIDE DEF e
      <4> QED  BY <4>1 DEF DevType, SettingStates
    <3> QED  BY <3>1, <3>2, <3>3
  <2> QED  BY <1>1, <1>2, <2>2
<1>3. CASE d.state = "W_CONNECT"
  <2>1. e = IF ~(name \/ ip \/ reset) THEN d
            ELSE IF d.cur.name = "" \/ reset THEN [d EXCEPT !.ars = {}]
            ELSE IF name \/ d.cur.ip = 0
            THEN [d EXCEPT !.ars = {}, !.commit = @ \/ d.ars = {}, !.state = "SET_IP"]
            ELSE IF d.ars = {} THEN [d EXCEPT !.commit = TRUE] ELSE [d EXCEPT !.ok = FALSE]
    BY <1>3 DEF Decided
  <2> HIDE DEF e
  <2>2. CASE ~(name \/ ip \/ reset)  BY <1>1, <1>3, <2>1, <2>2 DEF e
  <2>3. CASE (name \/ ip \/ reset) /\ (d.cur.name = "" \/ reset)
    <3>1. e = [d EXCEPT !.ars = {}]  BY <2>1, <2>3
    <3>2. Same(e) /\ e.ars = {} /\ e.commit = d.commit /\ e.state = d.state  BY <3>1 DEF DevType
    <3> QED  BY <1>1, <1>3, <3>2 DEF e
  <2>4. CASE (name \/ ip) /\ ~(d.cur.name = "" \/ reset) /\ (name \/ d.cur.ip = 0)
    <3>1. e = [d EXCEPT !.ars = {}, !.commit = @ \/ d.ars = {}, !.state = "SET_IP"]
      BY <2>1, <2>4
    <3>2. Same(e) /\ e.ars = {} /\ (e.commit = (d.commit \/ d.ars = {}))
      BY <3>1 DEF DevType, SettingStates
    <3> QED  BY <1>1, <1>3, <3>2 DEF e
  <2>5. CASE (name \/ ip) /\ ~(d.cur.name = "" \/ reset) /\ ~(name \/ d.cur.ip = 0)
    <3>1. CASE d.ars = {}
      <4>1. e = [d EXCEPT !.commit = TRUE]  BY <2>1, <2>5, <3>1
      <4>2. Same(e) /\ e.ars = {} /\ e.state = d.state  BY <3>1, <4>1 DEF DevType
      <4> QED  BY <1>1, <1>3, <2>5, <3>1, <4>2 DEF e
    <3>2. CASE d.ars # {}
      <4>1. e = [d EXCEPT !.ok = FALSE]  BY <2>1, <2>5, <3>2
      <4>2. Same(e) /\ e.ars = d.ars /\ e.state = d.state /\ e.commit = d.commit
        BY <4>1 DEF DevType
      <4> QED  BY <1>1, <1>3, <2>5, <4>2 DEF e
    <3> QED  BY <3>1, <3>2
  <2> QED  BY <2>2, <2>3, <2>4, <2>5
<1> QED  BY <1>2, <1>3

LEMMA SettleIs ==
  ASSUME NEW d \in DevType
  PROVE  LET e == Settle(d) IN
         /\ e \in DevType /\ Asks(d, e) /\ e.ars = d.ars /\ e.cur = d.cur
         /\ e.osIp = d.osIp /\ e.events = d.events /\ e.commit = d.commit
         /\ e.state # "W_CONNECT" => d.state = e.state
BY DEF Settle, DevType, Asks, SettingStates

LEMMA WithIpIs ==
  ASSUME NEW d \in DevType, Named(d, TRUE), NEW ip \in Ips, NEW temp \in BOOLEAN
  PROVE  LET e == WithIp(d, ip, temp) IN e \in DevType /\ Asks(d, e) /\ Named(e, TRUE)
<1> DEFINE a == [Touched(d) EXCEPT !.cur.ip = ip, !.nonvol.ip = IF temp THEN 0 ELSE ip]
           b == Decided(a, FALSE, d.cur.ip # ip, FALSE)
           e == Settle(b)
<1>1. a \in DevType /\ Asks(d, a) /\ a.ars = d.ars /\ a.cur.name = d.cur.name
      /\ a.osIp = d.osIp /\ a.commit = d.commit /\ a.state = d.state
  BY Blanks DEF Touched, DevType, Ase, Asks, Jobs
<1> HIDE DEF a
<1>2. /\ b \in DevType /\ Asks(a, b) /\ b.ars \subseteq a.ars /\ b.cur = a.cur
      /\ b.osIp = a.osIp
      /\ b.commit /\ ~a.commit => a.ars = {} \/ a.state # "W_CONNECT"
      /\ a.state = "W_CONNECT" /\ b.state # "W_CONNECT" => b.ars = {}
  BY <1>1, DecidedIs
<1> HIDE DEF b
<1>3. /\ e \in DevType /\ Asks(b, e) /\ e.ars = b.ars /\ e.cur = b.cur
      /\ e.osIp = b.osIp /\ e.commit = b.commit
      /\ e.state # "W_CONNECT" => b.state = e.state
  BY <1>2, SettleIs
<1>4. WithIp(d, ip, temp) = e  BY DEF WithIp, a, b
<1> HIDE DEF e
<1>5. Asks(d, e)  BY <1>1, <1>2, <1>3, AsksTwice
<1>6. Named(e, TRUE)  BY <1>1, <1>2, <1>3 DEF Named, Free
<1> QED  BY <1>3, <1>4, <1>5, <1>6

LEMMA WithNameIs ==
  ASSUME NEW d \in DevType, Named(d, TRUE), NEW name \in Names, NEW temp \in BOOLEAN
  PROVE  LET e == WithName(d, name, temp) IN e \in DevType /\ Asks(d, e) /\ Named(e, TRUE)
<1> DEFINE a == [Touched(d) EXCEPT !.cur.name = name, !.nonvol.name = IF temp THEN "" ELSE name]
           b == Decided(a, d.cur.name # name, FALSE, FALSE)
           e == Settle(b)
<1>1. a \in DevType /\ Asks(d, a) /\ a.ars = d.ars /\ a.cur.name = name
      /\ a.osIp = d.osIp /\ a.commit = d.commit /\ a.state = d.state
  BY Blanks DEF Touched, DevType, Ase, Asks, Jobs
<1> HIDE DEF a
<1>2. /\ b \in DevType /\ Asks(a, b) /\ b.ars \subseteq a.ars /\ b.cur = a.cur
      /\ b.osIp = a.osIp
      /\ b.commit /\ ~a.commit => a.ars = {} \/ a.state # "W_CONNECT"
      /\ a.state = "W_CONNECT" /\ b.state # "W_CONNECT" => b.ars = {}
      /\ d.cur.name # name /\ a.state = "W_CONNECT" => b.ars = {}
  BY <1>1, DecidedIs
<1> HIDE DEF b
<1>3. /\ e \in DevType /\ Asks(b, e) /\ e.ars = b.ars /\ e.cur = b.cur
      /\ e.osIp = b.osIp /\ e.commit = b.commit
      /\ e.state # "W_CONNECT" => b.state = e.state
  BY <1>2, SettleIs
<1>4. WithName(d, name, temp) = e  BY DEF WithName, a, b
<1> HIDE DEF e
<1>5. Asks(d, e)  BY <1>1, <1>2, <1>3, AsksTwice
<1>6. Named(e, TRUE)  BY <1>1, <1>2, <1>3 DEF Named, Free
<1> QED  BY <1>3, <1>4, <1>5, <1>6

LEMMA WithResetIs ==
  ASSUME NEW d \in DevType, Named(d, TRUE), NEW f, FilesType(f), NEW mode \in Nat
  PROVE  LET e == WithReset(d, f, mode) IN e \in DevType /\ Asks(d, e) /\ Named(e, TRUE)
<1> DEFINE a == Touched(d)
           b == Decided(a, FALSE, FALSE, TRUE)
           c == Settle(b)
           e == SetDefault(c, f, mode)
<1>1. a \in DevType /\ Asks(d, a) /\ a.ars = d.ars /\ a.commit = d.commit /\ a.state = d.state
  BY DEF Touched, DevType, Asks, Jobs
<1> HIDE DEF a
<1>2. b \in DevType /\ Asks(a, b) /\ Free(b) /\ b.ars \subseteq d.ars
  <2>1. /\ b \in DevType /\ Asks(a, b) /\ b.ars \subseteq a.ars
        /\ a.state # "W_CONNECT" => b.ars = a.ars
        /\ a.state = "W_CONNECT" => b.ars = {}
    BY <1>1, DecidedIs, FALSE \in BOOLEAN, TRUE \in BOOLEAN
  <2> HIDE DEF b
  <2> QED  BY <1>1, <2>1 DEF Named, Free
<1> HIDE DEF b
<1>3. c \in DevType /\ Asks(b, c) /\ Free(c) /\ c.ars \subseteq d.ars
  BY <1>2, SettleIs DEF Free
<1> HIDE DEF c
<1>4. e \in DevType /\ Asks(c, e) /\ Free(e) /\ e.ars \subseteq d.ars
  BY <1>3, SetDefaultIs DEF Free
<1>5. WithReset(d, f, mode) = e  BY DEF WithReset, a, b, c
<1> HIDE DEF e
<1>6. Asks(d, e)  BY <1>1, <1>2, <1>3, <1>4, AsksTwice
<1>7. Named(e, TRUE)  BY <1>4 DEF Named, Free
<1> QED  BY <1>4, <1>5, <1>6, <1>7

-----------------------------------------------------------------------------
(* The inductive invariant: what is kept.                                  *)

\* A job that is asked for has yet to look at the memory; one that writes has it.
Saving(j) == j \in dev.events \/ j \in bg.flags \/ bg.at = j
Writing(j) == bg.at = "write" /\ bg.job = j

Savers == {"saveAse", "saveIm", "saveLoc"}
BgType == [at : {"wait", "next", "write", "done"} \cup Mask, flags : SUBSET Mask,
           job : Savers \cup {"none"}, data : {Lost} \cup {{x} : x \in Ase \cup Im1 \cup Location}]
BgSound ==
  /\ bg \in BgType
  /\ bg.at = "wait" => bg.flags = {}
  /\ bg.at \in {"write", "done"} => bg.job \in Savers
  /\ Writing("saveAse") => \E x \in Ase : bg.data = {x}
  /\ Writing("saveIm") => \E x \in Im1 : bg.data = {x}
  /\ Writing("saveLoc") => \E x \in Location : bg.data = {x}

\* The address is read when it is written, the name before.
AseKept ==
  \/ Saving("saveAse")
  \/ Writing("saveAse") /\ \E x \in Ase : bg.data = {x} /\ x.name = dev.nonvol.name
  \/ /\ ~Writing("saveAse")
     /\ file["ip"] = {dev.nonvol} \/ (dev.cleared /\ file["ip"] = Lost)
ClearTold ==
  "clearIp" \in dev.events \/ "clearIp" \in bg.flags \/ bg.at = "clearIp" => dev.cleared

ImKept ==
  \/ dev.unsaved \/ Saving("saveIm")
  \/ Writing("saveIm") /\ bg.data = {dev.im}
  \/ ~Writing("saveIm") /\ file["im"] = {dev.im}

\* Until the location is written it is that of the I&M data at power-on.
AsStarted ==
  /\ dev.by = "file" /\ file["loc"] = Lost
  /\ \E i \in Im1 : file["im"] = {i} /\ dev.sys = Short(i.loc)
  /\ ~Saving("saveIm") /\ ~Writing("saveIm")
LocKept ==
  \/ dev.by = "im" \/ Saving("saveLoc")
  \/ Writing("saveLoc") /\ bg.data = {dev.sys}
  \/ ~Writing("saveLoc") /\ (file["loc"] = {dev.sys} \/ AsStarted)

KeptInv == FilesType(file) /\ BgSound /\ AseKept /\ ClearTold /\ ImKept /\ LocKept
SettingsInv ==
  /\ dev \in DevType /\ frame \in BOOLEAN /\ inputs \in 0 .. MaxOps
  /\ Named(dev, frame) /\ KeptInv

LEMMA AsksKeeps ==
  ASSUME dev \in DevType, dev' \in DevType, KeptInv, Asks(dev, dev'), UNCHANGED <<file, bg>>
  PROVE  KeptInv'
<1>1. FilesType(file)' /\ BgSound'  BY DEF KeptInv, FilesType, BgSound, Writing
<1>2. AseKept' /\ ClearTold'
  BY DEF KeptInv, AseKept, ClearTold, Asks, Saving, Writing
<1>3. ImKept'
  BY DEF KeptInv, ImKept, Asks, Saving, Writing
<1>4. LocKept'
  <2>1. CASE dev'.by = "im" \/ "saveLoc" \in dev'.events  BY <2>1 DEF LocKept, Saving
  <2>2. CASE ~(dev'.by = "im" \/ "saveLoc" \in dev'.events)
    <3>1. dev'.sys = dev.sys /\ dev'.by = dev.by /\ ~(dev.by = "im")
      BY <2>2 DEF Asks
    <3>2. ~("saveLoc" \in dev.events)  BY <2>2 DEF Asks
    <3>3. AsStarted => AsStarted'  BY <3>1 DEF AsStarted, Asks, Saving, Writing
    <3> QED  BY <3>1, <3>2, <3>3 DEF KeptInv, LocKept, Saving, Writing
  <2> QED  BY <2>1, <2>2
<1> QED  BY <1>1, <1>2, <1>3, <1>4 DEF KeptInv

-----------------------------------------------------------------------------
(* The steps of the settings.                                              *)

LEMMA EthernetKeeps ==
  ASSUME SettingsInv,
         \/ FrameBegin \/ FrameEnd \/ SetInvalid
         \/ \E temp \in BOOLEAN : \/ \E ip \in Ips : SetIp(ip, temp)
                                  \/ \E name \in Names : SetName(name, temp)
         \/ \E mode \in Modes : SetReset(mode)
  PROVE  SettingsInv'
<1>1. /\ dev \in DevType /\ frame \in BOOLEAN /\ Named(dev, frame) /\ KeptInv /\ FilesType(file)
      /\ inputs \in 0 .. MaxOps /\ MaxOps \in Nat
  BY SettingsAssumption DEF SettingsInv, KeptInv
<1>2. ASSUME NEW d, d \in DevType, Asks(dev, d), Named(d, TRUE), Block(d)  PROVE SettingsInv'
  <2>1. dev' = d /\ UNCHANGED <<file, bg, frame>> /\ frame = TRUE /\ inputs' \in 0 .. MaxOps
    BY <1>1, <1>2 DEF Block, Outside
  <2>2. KeptInv'  BY <1>1, <1>2, <2>1, AsksKeeps
  <2> QED  BY <1>1, <1>2, <2>1, <2>2 DEF SettingsInv
<1>3. CASE FrameBegin
  <2>1. frame' = TRUE /\ UNCHANGED <<dev, file, bg, inputs>>  BY <1>3 DEF FrameBegin
  <2>2. KeptInv'
    <3>1. Asks(dev, dev')  BY <2>1 DEF Asks
    <3> QED  BY <1>1, <2>1, <3>1, AsksKeeps
  <2>3. Named(dev, TRUE)  BY <1>1 DEF Named
  <2> QED  BY <1>1, <2>1, <2>2, <2>3 DEF SettingsInv
<1>4. CASE FrameEnd
  <2>1. frame = TRUE /\ frame' = FALSE /\ dev' = Committed(dev) /\ UNCHANGED <<file, bg, inputs>>
    BY <1>1, <1>4 DEF FrameEnd
  <2>2. /\ dev' \in DevType /\ Asks(dev, dev') /\ ~dev'.commit /\ dev'.ars = dev.ars
        /\ dev'.state = dev.state /\ dev'.cur = dev.cur /\ (~dev.commit => dev' = dev)
    BY <1>1, <2>1, CommittedIs
  <2>3. Named(dev', FALSE)
    <3>1. CASE dev.commit  BY <1>1, <2>2, <3>1 DEF Named, Free
    <3>2. CASE ~dev.commit  BY <1>1, <2>2, <3>2 DEF Named, Free
    <3> QED  BY <3>1, <3>2
  <2>4. KeptInv'  BY <1>1, <2>1, <2>2, AsksKeeps
  <2> QED  BY <1>1, <2>1, <2>2, <2>3, <2>4 DEF SettingsInv
<1>5. CASE SetInvalid
  <2> DEFINE d == [dev EXCEPT !.armed = FALSE, !.ok = FALSE]
  <2>1. Block(d) /\ frame = TRUE  BY <1>1, <1>5 DEF SetInvalid, Block
  <2>2. d \in DevType /\ Asks(dev, d)  BY <1>1 DEF DevType, Asks
  <2>3. Named(d, TRUE)  BY <1>1, <2>1 DEF Named, Free, DevType
  <2> HIDE DEF d
  <2> QED  BY <1>2, <2>1, <2>2, <2>3
<1>6. ASSUME NEW temp \in BOOLEAN, NEW ip \in Ips, SetIp(ip, temp)  PROVE SettingsInv'
  <2>1. Block(WithIp(dev, ip, temp)) /\ frame = TRUE  BY <1>1, <1>6 DEF SetIp, Block
  <2> QED  BY <1>1, <1>2, <2>1, WithIpIs
<1>7. ASSUME NEW temp \in BOOLEAN, NEW name \in Names, SetName(name, temp)  PROVE SettingsInv'
  <2>1. Block(WithName(dev, name, temp)) /\ frame = TRUE  BY <1>1, <1>7 DEF SetName, Block
  <2> QED  BY <1>1, <1>2, <2>1, WithNameIs
<1>8. ASSUME NEW mode \in Modes, SetReset(mode)  PROVE SettingsInv'
  <2>1. Block(WithReset(dev, file, mode)) /\ frame = TRUE  BY <1>1, <1>8 DEF SetReset, Block
  <2>2. mode \in Nat  BY SettingsAssumption
  <2> QED  BY <1>1, <1>2, <2>1, <2>2, WithResetIs
<1> QED  BY <1>3, <1>4, <1>5, <1>6, <1>7, <1>8

LEMMA MainThreadKeeps ==
  ASSUME SettingsInv, MainAndAgent
  PROVE  SettingsInv'
<1>1. /\ dev \in DevType /\ frame \in BOOLEAN /\ Named(dev, frame) /\ KeptInv /\ FilesType(file)
      /\ inputs \in 0 .. MaxOps /\ MaxOps \in Nat
  BY SettingsAssumption DEF SettingsInv, KeptInv
<1>2. ASSUME NEW d, d \in DevType, Asks(dev, d), Named(d, frame), ByMain(d), inputs' \in 0 .. MaxOps
      PROVE  SettingsInv'
  <2>1. dev' = d /\ UNCHANGED <<file, bg, frame>>  BY <1>2 DEF ByMain
  <2>2. KeptInv'  BY <1>1, <1>2, <2>1, AsksKeeps
  <2> QED  BY <1>1, <1>2, <2>1, <2>2 DEF SettingsInv
<1>3. Outside => inputs' \in 0 .. MaxOps  BY <1>1 DEF Outside
<1>4. CASE ConnectArrives
  <2> DEFINE ar == [name |-> dev.cur.name, ip |-> dev.osIp,
                    settled |-> ~frame /\ dev.state = "W_CONNECT"]
             d == [dev EXCEPT !.ars = {ar}]
  <2>1. ar \in ArUnder  BY <1>1 DEF ArUnder, DevType, Ase
  <2>2. d \in DevType /\ Asks(dev, d)  BY <1>1, <2>1 DEF DevType, Asks
  <2>3. Named(d, frame)
    <3>1. d.ars = {ar} /\ d.commit = dev.commit /\ d.state = dev.state /\ d.cur = dev.cur
          /\ d.osIp = dev.osIp
      BY <1>1 DEF DevType
    <3>2. ar.settled => ~frame /\ dev.state = "W_CONNECT"  OBVIOUS
    <3>3. ar.name = dev.cur.name /\ ar.ip = dev.osIp  OBVIOUS
    <3> HIDE DEF ar, d
    <3> QED  BY <1>1, <3>1, <3>2, <3>3 DEF Named, Free
  <2>4. ByMain(d) /\ inputs' \in 0 .. MaxOps  BY <1>3, <1>4 DEF ConnectArrives
  <2> HIDE DEF d
  <2> QED  BY <1>2, <2>2, <2>3, <2>4
<1>5. CASE Release
  <2> DEFINE d == [dev EXCEPT !.ars = {}]
  <2>1. d \in DevType /\ Asks(dev, d) /\ Named(d, frame)
    BY <1>1 DEF DevType, Asks, Named, Free
  <2>2. ByMain(d) /\ inputs' \in 0 .. MaxOps  BY <1>3, <1>5 DEF Release
  <2> HIDE DEF d
  <2> QED  BY <1>2, <2>1, <2>2
<1>6. CASE FactoryReset
  <2> DEFINE a == [dev EXCEPT !.ars = {}]
             b == SetDefault(a, file, 99)
             d == Committed(b)
  <2>1. a \in DevType /\ Asks(dev, a) /\ a.ars = {}  BY <1>1 DEF DevType, Asks
  <2> HIDE DEF a
  <2>2. b \in DevType /\ Asks(a, b) /\ b.ars = {}  BY <1>1, <2>1, SetDefaultIs
  <2> HIDE DEF b
  <2>3. d \in DevType /\ Asks(b, d) /\ d.ars = {} /\ ~d.commit  BY <2>2, CommittedIs
  <2>4. ByMain(d) /\ inputs' \in 0 .. MaxOps  BY <1>3, <1>6 DEF FactoryReset, a, b
  <2> HIDE DEF d
  <2>5. Asks(dev, d)  BY <2>1, <2>2, <2>3, AsksTwice
  <2>6. Named(d, frame)  BY <2>3 DEF Named, Free
  <2> QED  BY <1>2, <2>3, <2>4, <2>5, <2>6
<1>7. CASE HelloTimer
  <2> DEFINE d == IF dev.state = "W_CONNECT" /\ dev.hello > 0
                  THEN [dev EXCEPT !.hello = @ - 1]
                  ELSE [dev EXCEPT !.armed = FALSE, !.hello = 0]
  <2>0. HelloRetry \in Nat /\ dev.hello \in 0 .. HelloRetry
    BY <1>1, SettingsAssumption DEF DevType
  <2>1. d \in DevType /\ Asks(dev, d) /\ Named(d, frame)
    <3>1. CASE dev.state = "W_CONNECT" /\ dev.hello > 0
      <4>1. d = [dev EXCEPT !.hello = dev.hello - 1] /\ dev.hello - 1 \in 0 .. HelloRetry
        BY <2>0, <3>1
      <4> HIDE DEF d
      <4> QED  BY <1>1, <4>1 DEF DevType, Asks, Named, Free
    <3>2. CASE ~(dev.state = "W_CONNECT" /\ dev.hello > 0)
      <4>1. d = [dev EXCEPT !.armed = FALSE, !.hello = 0] /\ 0 \in 0 .. HelloRetry
        BY <2>0, <3>2
      <4> HIDE DEF d
      <4> QED  BY <1>1, <4>1 DEF DevType, Asks, Named, Free
    <3> QED  BY <3>1, <3>2
  <2>2. ByMain(d) /\ inputs' \in 0 .. MaxOps  BY <1>1, <1>7 DEF HelloTimer
  <2> HIDE DEF d
  <2> QED  BY <1>2, <2>1, <2>2
<1>8. ASSUME NEW im \in Im1, WriteIm1(im)  PROVE SettingsInv'
  <2>0. inputs' \in 0 .. MaxOps  BY <1>3, <1>8 DEF WriteIm1
  <2>1. CASE ByMain([dev EXCEPT !.im = im, !.sys = Short(im.loc), !.unsaved = FALSE,
                              !.events = @ \cup {"clearLoc", "saveIm"}, !.by = "im"])
    <3> DEFINE d == [dev EXCEPT !.im = im, !.sys = Short(im.loc), !.unsaved = FALSE,
                              !.events = @ \cup {"clearLoc", "saveIm"}, !.by = "im"]
    <3>1. Short(im.loc) \in Location  BY Blanks DEF Im1
    <3>2. d \in DevType /\ Asks(dev, d) /\ Named(d, frame)
      BY <1>1, <3>1 DEF DevType, Asks, Named, Free, Jobs, Sources
    <3> HIDE DEF d
    <3> QED  BY <1>2, <2>0, <2>1, <3>2 DEF d
  <2>2. ASSUME NEW kept \in {im, [dev.im EXCEPT !.fun = im.fun], dev.im},
               ByMain([dev EXCEPT !.im = kept, !.unsaved = @ \/ kept # dev.im])
        PROVE  SettingsInv'
    <3> DEFINE d == [dev EXCEPT !.im = kept, !.unsaved = @ \/ kept # dev.im]
    <3>1. kept \in Im1  BY <1>1 DEF DevType, Im1
    <3>2. d \in DevType /\ Asks(dev, d) /\ Named(d, frame)
      BY <1>1, <3>1 DEF DevType, Asks, Named, Free
    <3> HIDE DEF d
    <3> QED  BY <1>2, <2>0, <2>2, <3>2 DEF d
  <2> QED  BY <1>8, <2>1, <2>2 DEF WriteIm1
<1>9. ASSUME NEW l \in Location, SetLocation(l)  PROVE SettingsInv'
  <2> DEFINE d == [dev EXCEPT !.sys = l, !.im.loc = l.head, !.unsaved = FALSE,
                      !.events = @ \cup {"saveLoc", "saveIm"}, !.by = "snmp"]
  <2>1. d \in DevType /\ Asks(dev, d) /\ Named(d, frame)
    BY <1>1 DEF DevType, Asks, Named, Free, Jobs, Sources, Location, Im1
  <2>2. ByMain(d) /\ inputs' \in 0 .. MaxOps  BY <1>3, <1>9 DEF SetLocation
  <2> HIDE DEF d
  <2> QED  BY <1>2, <2>1, <2>2
<1> QED  BY <1>4, <1>5, <1>6, <1>7, <1>8, <1>9 DEF MainAndAgent

\* The background thread changes nothing in the memory but the events.
SameBut(d, e) == /\ e = [d EXCEPT !.events = e.events]
                 /\ e.events \subseteq d.events

LEMMA SameButIs ==
  ASSUME NEW d \in DevType, NEW e, SameBut(d, e)
  PROVE  /\ e \in DevType /\ e.nonvol = d.nonvol /\ e.im = d.im /\ e.sys = d.sys /\ e.by = d.by
         /\ e.unsaved = d.unsaved /\ e.cleared = d.cleared
         /\ \A busy : Named(d, busy) => Named(e, busy)
<1> DEFINE v == e.events
<1>1. v \subseteq Jobs /\ e = [d EXCEPT !.events = v]  BY DEF SameBut, DevType
<1> HIDE DEF v
<1>2. e \in DevType /\ e.nonvol = d.nonvol /\ e.im = d.im /\ e.sys = d.sys /\ e.by = d.by
      /\ e.unsaved = d.unsaved /\ e.cleared = d.cleared /\ e.commit = d.commit
      /\ e.ars = d.ars /\ e.cur = d.cur /\ e.state = d.state /\ e.osIp = d.osIp
  BY <1>1 DEF DevType
<1> QED  BY <1>2 DEF Named, Free

\* A step of the background thread that looks at nothing and writes nothing.
LEMMA OnTheWay ==
  ASSUME dev \in DevType, KeptInv, SameBut(dev, dev'), UNCHANGED file, BgSound', ClearTold',
         \A j \in Savers : (Saving(j)' <=> Saving(j)) /\ (Writing(j)' <=> Writing(j)),
         bg'.data = bg.data
  PROVE  KeptInv'
<1>0. /\ dev'.nonvol = dev.nonvol /\ dev'.im = dev.im /\ dev'.sys = dev.sys
      /\ dev'.by = dev.by /\ dev'.unsaved = dev.unsaved /\ dev'.cleared = dev.cleared
  BY SameButIs
<1>1. "saveAse" \in Savers /\ "saveIm" \in Savers /\ "saveLoc" \in Savers  BY DEF Savers
<1>2. AseKept'  BY <1>0, <1>1 DEF KeptInv, AseKept
<1>3. ImKept'  BY <1>0, <1>1 DEF KeptInv, ImKept
<1>4. AsStarted => AsStarted'  BY <1>0, <1>1 DEF AsStarted
<1>5. LocKept'  BY <1>0, <1>1, <1>4 DEF KeptInv, LocKept
<1>6. FilesType(file)'  BY DEF KeptInv
<1> QED  BY <1>2, <1>3, <1>5, <1>6 DEF KeptInv

LEMMA WorkerKept ==
  ASSUME dev \in DevType, KeptInv, Worker
  PROVE  KeptInv' /\ SameBut(dev, dev')
<1>0. /\ FilesType(file) /\ BgSound /\ bg \in BgType
      /\ \A e : SameBut(dev, e) =>
           /\ e.nonvol = dev.nonvol /\ e.im = dev.im /\ e.sys = dev.sys
           /\ e.by = dev.by /\ e.unsaved = dev.unsaved /\ e.cleared = dev.cleared
  BY SameButIs DEF KeptInv, BgSound
<1>1. SameBut(dev, dev)  BY DEF SameBut, DevType
<1>a. ASSUME NEW j  PROVE j \in Savers => j \in Mask /\ j \notin {"wait", "next", "write", "done"}
  BY DEF Savers, Mask, Jobs
<1>2. CASE Wake
  <2>1. /\ bg.at = "wait" /\ UNCHANGED <<dev, file, frame, inputs>>
        /\ bg' = [bg EXCEPT !.at = "next", !.flags = dev.events \cap Mask]
    BY <1>2 DEF Wake
  <2>2. bg'.at = "next" /\ bg'.flags = dev.events \cap Mask /\ bg'.job = bg.job /\ bg' \in BgType
        /\ bg'.data = bg.data
    BY <1>0, <2>1 DEF BgType
  <2>3. bg.flags = {}  BY <1>0, <2>1 DEF BgSound
  <2>4. BgSound' /\ ClearTold'
    BY <1>0, <2>1, <2>2 DEF BgSound, Writing, KeptInv, ClearTold
  <2>5. \A j \in Savers : (Saving(j)' <=> Saving(j)) /\ (Writing(j)' <=> Writing(j))
    BY <2>1, <2>2, <2>3, <1>a DEF Saving, Writing
  <2> QED  BY <1>1, <2>1, <2>2, <2>4, <2>5, OnTheWay
<1>3. CASE Rest
  <2>1. /\ bg.at = "next" /\ bg.flags = {} /\ UNCHANGED <<dev, file, frame, inputs>>
        /\ bg'.at = "wait" /\ bg'.flags = {} /\ bg'.job = "none" /\ bg'.data = Lost
        /\ bg' \in BgType
    BY <1>3 DEF Rest, Asleep, BgType
  <2>2. BgSound' /\ ClearTold'
    BY <1>0, <2>1 DEF BgSound, Writing, KeptInv, ClearTold
  <2>3. \A j \in Savers : (Saving(j)' <=> Saving(j)) /\ ~Writing(j)' /\ ~Writing(j)
    BY <2>1, <1>a DEF Saving, Writing
  <2>4. AseKept' /\ ImKept' /\ LocKept'
    <3>1. "saveAse" \in Savers /\ "saveIm" \in Savers /\ "saveLoc" \in Savers  BY DEF Savers
    <3> QED  BY <2>1, <2>3, <3>1 DEF KeptInv, AseKept, ImKept, LocKept, AsStarted
  <2> QED  BY <1>0, <1>1, <2>1, <2>2, <2>4 DEF KeptInv
<1>4. ASSUME NEW j \in Jobs, TakeJob(j)  PROVE KeptInv' /\ SameBut(dev, dev')
  <2>1. /\ bg.at = "next" /\ j \in bg.flags /\ UNCHANGED file
        /\ dev' = [dev EXCEPT !.events = dev.events \ {j}]
        /\ bg' = [bg EXCEPT !.at = j, !.flags = bg.flags \ {j}]
    BY <1>4 DEF TakeJob, EventsAtStart
  <2>2. j \in Mask  BY <1>0, <2>1 DEF BgType
  <2>3. bg'.at = j /\ bg'.flags = bg.flags \ {j} /\ bg'.job = bg.job /\ bg'.data = bg.data
        /\ bg' \in BgType
    BY <1>0, <2>1, <2>2 DEF BgType
  <2>4. dev'.events = dev.events \ {j} /\ dev'.cleared = dev.cleared  BY <2>1 DEF DevType
  <2>5. SameBut(dev, dev')  BY <2>1, <2>4 DEF SameBut
  <2>6. j \notin {"wait", "next", "write", "done"}  BY DEF Jobs
  <2>7. BgSound' /\ ClearTold'
    BY <1>0, <2>1, <2>3, <2>4, <2>6 DEF BgSound, Writing, KeptInv, ClearTold
  <2>8. \A k \in Savers : (Saving(k)' <=> Saving(k)) /\ (Writing(k)' <=> Writing(k))
    BY <2>1, <2>3, <2>4, <2>6, <1>a DEF Saving, Writing
  <2> QED  BY <2>1, <2>3, <2>5, <2>7, <2>8, OnTheWay
<1>5. CASE JobDone
  <2>1. /\ bg.at = "done" /\ UNCHANGED file /\ bg.job \in Savers
        /\ dev' = [dev EXCEPT !.events = dev.events]
        /\ bg' = [bg EXCEPT !.at = "next", !.job = "none"]
    BY <1>0, <1>5 DEF JobDone, EventsAtEnd, BgSound
  <2>2. dev' = dev  BY <2>1 DEF DevType
  <2>3. bg'.at = "next" /\ bg'.flags = bg.flags /\ bg'.job = "none" /\ bg'.data = bg.data
        /\ bg' \in BgType
    BY <1>0, <2>1 DEF BgType
  <2>4. BgSound' /\ ClearTold'
    BY <1>0, <2>1, <2>2, <2>3 DEF BgSound, Writing, KeptInv, ClearTold
  <2>5. \A k \in Savers : (Saving(k)' <=> Saving(k)) /\ (Writing(k)' <=> Writing(k))
    BY <2>1, <2>2, <2>3, <1>a DEF Saving, Writing
  <2> QED  BY <1>1, <2>1, <2>2, <2>3, <2>4, <2>5, OnTheWay
<1>6. ASSUME NEW j \in Jobs, Clear(j)  PROVE KeptInv' /\ SameBut(dev, dev')
  <2>1. j = "clearIp"  BY <1>0, <1>6 DEF Clear, BgType, Mask
  <2>2. /\ bg.at = "clearIp" /\ file' = [file EXCEPT !["ip"] = Lost]
        /\ dev' = [dev EXCEPT !.events = dev.events] /\ bg' = [bg EXCEPT !.at = "next"]
    BY <1>6, <2>1 DEF Clear, EventsAtEnd, NameOf, Jobs
  <2>3. dev' = dev  BY <2>2 DEF DevType
  <2>4. bg'.at = "next" /\ bg'.flags = bg.flags /\ bg' \in BgType
    BY <1>0, <2>2 DEF BgType
  <2>5. /\ file'["ip"] = Lost /\ file'["im"] = file["im"] /\ file'["loc"] = file["loc"]
        /\ FilesType(file')
    BY <1>0, <2>2 DEF FilesType, Files, FileOf
  <2>6. dev.cleared  BY <2>2 DEF KeptInv, ClearTold
  <2>7. \A k \in Savers : (Saving(k)' <=> Saving(k)) /\ ~Writing(k)' /\ ~Writing(k)
    BY <2>2, <2>3, <2>4, <1>a DEF Saving, Writing, Savers
  <2>8. "saveAse" \in Savers /\ "saveIm" \in Savers /\ "saveLoc" \in Savers  BY DEF Savers
  <2>9. AseKept' /\ ImKept' /\ LocKept'
    BY <2>3, <2>5, <2>6, <2>7, <2>8 DEF KeptInv, AseKept, ImKept, LocKept, AsStarted
  <2>10. BgSound' /\ ClearTold'
    BY <1>0, <2>3, <2>4, <2>6 DEF BgSound, Writing, ClearTold
  <2> QED  BY <1>1, <2>3, <2>5, <2>9, <2>10 DEF KeptInv
<1>7. ASSUME NEW j \in Jobs, Compare(j)  PROVE KeptInv' /\ SameBut(dev, dev')
  <2>1. bg.at = j /\ j \in Savers /\ dev' = dev  BY <1>7 DEF Compare, Savers
  <2>2. CASE j = "saveAse"
    <3>1. InMemory(j) = dev.nonvol /\ NameOf[j] = "ip" /\ dev.nonvol \in Ase
      BY <2>2 DEF InMemory, NameOf, Jobs, DevType
    <3>2. CASE file["ip"] = {dev.nonvol}
      <4>1. bg' = [bg EXCEPT !.at = "done", !.job = j] /\ UNCHANGED file
        BY <1>7, <2>2, <3>1, <3>2 DEF Compare
      <4>2. bg'.at = "done" /\ bg'.job = j /\ bg'.flags = bg.flags /\ bg' \in BgType
        BY <1>0, <2>2, <4>1 DEF BgType, Savers
      <4>3. BgSound' /\ ClearTold'
        BY <1>0, <2>1, <2>2, <4>2 DEF BgSound, Writing, KeptInv, ClearTold, Savers
      <4>4. AseKept' /\ ImKept' /\ LocKept'
        BY <1>0, <2>1, <2>2, <3>2, <4>1, <4>2
           DEF KeptInv, AseKept, ImKept, LocKept, AsStarted, Saving, Writing
      <4> QED  BY <1>0, <1>1, <2>1, <4>1, <4>3, <4>4 DEF KeptInv
    <3>3. CASE file["ip"] # {dev.nonvol}
      <4>1. /\ bg' = [bg EXCEPT !.at = "write", !.job = j, !.data = {dev.nonvol}]
            /\ file' = [file EXCEPT !["ip"] = Lost]
        BY <1>7, <2>2, <3>1, <3>3 DEF Compare
      <4>2. /\ bg'.at = "write" /\ bg'.job = j /\ bg'.flags = bg.flags
            /\ bg'.data = {dev.nonvol} /\ bg' \in BgType
        BY <1>0, <2>2, <3>1, <4>1 DEF BgType, Savers
      <4>3. /\ \A f \in Files : file'[f] = IF f = "ip" THEN Lost ELSE file[f]
            /\ FilesType(file')
        BY <1>0, <4>1 DEF FilesType, Files, FileOf
      <4>4. BgSound' /\ ClearTold'
        BY <1>0, <2>1, <2>2, <3>1, <4>2 DEF BgSound, Writing, KeptInv, ClearTold, Savers
      <4>5. /\ \A f \in Files : f # "ip" => file'[f] = file[f]
            /\ "ip" \in Files /\ "im" \in Files /\ "loc" \in Files
        BY <4>3 DEF Files
      <4>6. AseKept' /\ ImKept' /\ LocKept'
        BY <1>0, <2>1, <2>2, <3>1, <4>2, <4>5
           DEF KeptInv, AseKept, ImKept, LocKept, AsStarted, Saving, Writing
      <4> QED  BY <1>1, <2>1, <4>3, <4>4, <4>6 DEF KeptInv
    <3> QED  BY <3>2, <3>3
  <2>3. CASE j = "saveIm"
    <3>1. InMemory(j) = dev.im /\ NameOf[j] = "im" /\ dev.im \in Im1
      BY <2>3 DEF InMemory, NameOf, Jobs, DevType
    <3>2. CASE file["im"] = {dev.im}
      <4>1. bg' = [bg EXCEPT !.at = "done", !.job = j] /\ UNCHANGED file
        BY <1>7, <2>3, <3>1, <3>2 DEF Compare
      <4>2. bg'.at = "done" /\ bg'.job = j /\ bg'.flags = bg.flags /\ bg' \in BgType
        BY <1>0, <2>3, <4>1 DEF BgType, Savers
      <4>3. BgSound' /\ ClearTold'
        BY <1>0, <2>1, <2>3, <4>2 DEF BgSound, Writing, KeptInv, ClearTold, Savers
      <4>4. AseKept' /\ ImKept' /\ LocKept'
        BY <1>0, <2>1, <2>3, <3>2, <4>1, <4>2
           DEF KeptInv, AseKept, ImKept, LocKept, AsStarted, Saving, Writing
      <4> QED  BY <1>0, <1>1, <2>1, <4>1, <4>3, <4>4 DEF KeptInv
    <3>3. CASE file["im"] # {dev.im}
      <4>1. /\ bg' = [bg EXCEPT !.at = "write", !.job = j, !.data = {dev.im}]
            /\ file' = [file EXCEPT !["im"] = Lost]
        BY <1>7, <2>3, <3>1, <3>3 DEF Compare
      <4>2. /\ bg'.at = "write" /\ bg'.job = j /\ bg'.flags = bg.flags
            /\ bg'.data = {dev.im} /\ bg' \in BgType
        BY <1>0, <2>3, <3>1, <4>1 DEF BgType, Savers
      <4>3. /\ \A f \in Files : file'[f] = IF f = "im" THEN Lost ELSE file[f]
            /\ FilesType(file')
        BY <1>0, <4>1 DEF FilesType, Files, FileOf
      <4>4. BgSound' /\ ClearTold'
        BY <1>0, <2>1, <2>3, <3>1, <4>2 DEF BgSound, Writing, KeptInv, ClearTold, Savers
      <4>5. /\ \A f \in Files : f # "im" => file'[f] = file[f]
            /\ "ip" \in Files /\ "im" \in Files /\ "loc" \in Files
        BY <4>3 DEF Files
      <4>6. AseKept' /\ ImKept' /\ LocKept'
        BY <1>0, <2>1, <2>3, <3>1, <4>2, <4>5
           DEF KeptInv, AseKept, ImKept, LocKept, AsStarted, Saving, Writing
      <4> QED  BY <1>1, <2>1, <4>3, <4>4, <4>6 DEF KeptInv
    <3> QED  BY <3>2, <3>3
  <2>4. CASE j = "saveLoc"
    <3>1. InMemory(j) = dev.sys /\ NameOf[j] = "loc" /\ dev.sys \in Location
      BY <2>4 DEF InMemory, NameOf, Jobs, DevType
    <3>2. CASE file["loc"] = {dev.sys}
      <4>1. bg' = [bg EXCEPT !.at = "done", !.job = j] /\ UNCHANGED file
        BY <1>7, <2>4, <3>1, <3>2 DEF Compare
      <4>2. bg'.at = "done" /\ bg'.job = j /\ bg'.flags = bg.flags /\ bg' \in BgType
        BY <1>0, <2>4, <4>1 DEF BgType, Savers
      <4>3. BgSound' /\ ClearTold'
        BY <1>0, <2>1, <2>4, <4>2 DEF BgSound, Writing, KeptInv, ClearTold, Savers
      <4>4. AseKept' /\ ImKept' /\ LocKept'
        BY <1>0, <2>1, <2>4, <3>2, <4>1, <4>2
           DEF KeptInv, AseKept, ImKept, LocKept, AsStarted, Saving, Writing
      <4> QED  BY <1>0, <1>1, <2>1, <4>1, <4>3, <4>4 DEF KeptInv
    <3>3. CASE file["loc"] # {dev.sys}
      <4>1. /\ bg' = [bg EXCEPT !.at = "write", !.job = j, !.data = {dev.sys}]
            /\ file' = [file EXCEPT !["loc"] = Lost]
        BY <1>7, <2>4, <3>1, <3>3 DEF Compare
      <4>2. /\ bg'.at = "write" /\ bg'.job = j /\ bg'.flags = bg.flags
            /\ bg'.data = {dev.sys} /\ bg' \in BgType
        BY <1>0, <2>4, <3>1, <4>1 DEF BgType, Savers
      <4>3. /\ \A f \in Files : file'[f] = IF f = "loc" THEN Lost ELSE file[f]
            /\ FilesType(file')
        BY <1>0, <4>1 DEF FilesType, Files, FileOf
      <4>4. BgSound' /\ ClearTold'
        BY <1>0, <2>1, <2>4, <3>1, <4>2 DEF BgSound, Writing, KeptInv, ClearTold, Savers
      <4>5. /\ \A f \in Files : f # "loc" => file'[f] = file[f]
            /\ "ip" \in Files /\ "im" \in Files /\ "loc" \in Files
        BY <4>3 DEF Files
      <4>6. AseKept' /\ ImKept' /\ LocKept'
        BY <1>0, <2>1, <2>4, <3>1, <4>2, <4>5
           DEF KeptInv, AseKept, ImKept, LocKept, AsStarted, Saving, Writing
      <4> QED  BY <1>1, <2>1, <4>3, <4>4, <4>6 DEF KeptInv
    <3> QED  BY <3>2, <3>3
  <2> QED  BY <1>1, <2>1, <2>2, <2>3, <2>4 DEF Savers
<1>8. CASE Write
  <2>1. /\ bg.at = "write" /\ dev' = dev /\ bg.job \in Savers
        /\ bg' = [bg EXCEPT !.at = "done", !.data = Lost]
    BY <1>0, <1>8 DEF Write, BgSound
  <2>2. /\ bg'.at = "done" /\ bg'.job = bg.job /\ bg'.flags = bg.flags /\ bg' \in BgType
        /\ BgSound' /\ ClearTold'
    <3>1. bg'.at = "done" /\ bg'.job = bg.job /\ bg'.flags = bg.flags /\ bg' \in BgType
      BY <1>0, <2>1 DEF BgType
    <3> QED  BY <1>0, <2>1, <3>1 DEF BgSound, Writing, KeptInv, ClearTold
  <2>3. CASE bg.job = "saveAse"
    <3>1. PICK x \in Ase : bg.data = {x}  BY <1>0, <2>1, <2>3 DEF BgSound, Writing
    <3>2. NameOf[bg.job] = "ip" /\ Content(bg.data) = x  BY <2>3, <3>1, ContentIs DEF NameOf, Jobs
    <3>3. file' = [file EXCEPT !["ip"] = {[x EXCEPT !.ip = dev.nonvol.ip]}] /\ [x EXCEPT !.ip = dev.nonvol.ip] \in Ase
      BY <1>8, <2>3, <3>2 DEF Write, Ase, DevType
    <3>4. FilesType(file') /\ file'["ip"] = {[x EXCEPT !.ip = dev.nonvol.ip]}
      BY <1>0, <3>3 DEF FilesType, Files, FileOf
    <3>5. /\ \A f \in Files : f # "ip" => file'[f] = file[f]
          /\ "ip" \in Files /\ "im" \in Files /\ "loc" \in Files
      BY <1>0, <3>3 DEF FilesType, Files
    <3>6. AseKept => Saving("saveAse") \/ [x EXCEPT !.ip = dev.nonvol.ip] = dev.nonvol
      BY <2>1, <2>3, <3>1 DEF AseKept, Writing, Ase, DevType
    <3>7. AseKept' /\ ImKept' /\ LocKept'
      <4> DEFINE y == [x EXCEPT !.ip = dev.nonvol.ip]
      <4>1. file'["ip"] = {y} /\ (AseKept => Saving("saveAse") \/ y = dev.nonvol)
        BY <3>4, <3>6
      <4> HIDE DEF y
      <4> QED  BY <2>1, <2>2, <2>3, <3>5, <4>1
             DEF KeptInv, AseKept, ImKept, LocKept, AsStarted, Saving, Writing
    <3> QED  BY <1>1, <2>1, <2>2, <3>4, <3>7 DEF KeptInv
  <2>4. CASE bg.job = "saveIm"
    <3>1. PICK x \in Im1 : bg.data = {x}  BY <1>0, <2>1, <2>4 DEF BgSound, Writing
    <3>2. NameOf[bg.job] = "im" /\ Content(bg.data) = x  BY <2>4, <3>1, ContentIs DEF NameOf, Jobs
    <3>3. file' = [file EXCEPT !["im"] = {x}] /\ x \in Im1
      BY <1>8, <2>4, <3>2 DEF Write
    <3>4. FilesType(file') /\ file'["im"] = {x}
      BY <1>0, <3>3 DEF FilesType, Files, FileOf
    <3>5. /\ \A f \in Files : f # "im" => file'[f] = file[f]
          /\ "ip" \in Files /\ "im" \in Files /\ "loc" \in Files
      BY <1>0, <3>3 DEF FilesType, Files
    <3>7. AseKept' /\ ImKept' /\ LocKept'
      BY <2>1, <2>2, <2>4, <3>1, <3>4, <3>5
         DEF KeptInv, AseKept, ImKept, LocKept, AsStarted, Saving, Writing
    <3> QED  BY <1>1, <2>1, <2>2, <3>4, <3>7 DEF KeptInv
  <2>5. CASE bg.job = "saveLoc"
    <3>1. PICK x \in Location : bg.data = {x}  BY <1>0, <2>1, <2>5 DEF BgSound, Writing
    <3>2. NameOf[bg.job] = "loc" /\ Content(bg.data) = x  BY <2>5, <3>1, ContentIs DEF NameOf, Jobs
    <3>3. file' = [file EXCEPT !["loc"] = {x}] /\ x \in Location
      BY <1>8, <2>5, <3>2 DEF Write
    <3>4. FilesType(file') /\ file'["loc"] = {x}
      BY <1>0, <3>3 DEF FilesType, Files, FileOf
    <3>5. /\ \A f \in Files : f # "loc" => file'[f] = file[f]
          /\ "ip" \in Files /\ "im" \in Files /\ "loc" \in Files
      BY <1>0, <3>3 DEF FilesType, Files
    <3>7. AseKept' /\ ImKept' /\ LocKept'
      BY <2>1, <2>2, <2>5, <3>1, <3>4, <3>5
         DEF KeptInv, AseKept, ImKept, LocKept, AsStarted, Saving, Writing
    <3> QED  BY <1>1, <2>1, <2>2, <3>4, <3>7 DEF KeptInv
  <2> QED  BY <1>1, <2>1, <2>3, <2>4, <2>5 DEF Savers
<1> QED  BY <1>2, <1>3, <1>4, <1>5, <1>6, <1>7, <1>8 DEF Worker

\* The memory and the files after power-on.
LEMMA PowerOn ==
  ASSUME NEW f, FilesType(f)
  PROVE  LET d == Started(f)
             g == Saved(f)
         IN  /\ d \in DevType /\ FilesType(g) /\ Named(d, FALSE)
             /\ d.events = {"saveAse"} /\ d.by = "file"
             /\ g["im"] = {d.im} /\ d.im \in Im1
             /\ g["loc"] = {d.sys} \/ (g["loc"] = Lost /\ d.sys = Short(d.im.loc))
             /\ Asleep \in BgType
<1> DEFINE d == Started(f)
           g == Saved(f)
<1>1. /\ d \in DevType /\ ~d.commit /\ d.ars = {} /\ d.by = "file"
      /\ d.events = {"saveAse"}
      /\ d.sys = (IF f["loc"] # Lost THEN Content(f["loc"]) ELSE Short(d.im.loc))
      /\ FilesType(g) /\ g = [f EXCEPT !["im"] = {d.im}]
  BY StartedIs
<1> HIDE DEF d, g
<1>2. Named(d, FALSE)  BY <1>1 DEF Named, Free
<1>3. g["im"] = {d.im} /\ g["loc"] = f["loc"]  BY <1>1 DEF FilesType, Files
<1>4. f["loc"] = Lost \/ f["loc"] = {Content(f["loc"])}  BY Contents DEF FilesType
<1>5. Asleep \in BgType  BY DEF Asleep, BgType
<1>6. d.im \in Im1  BY <1>1 DEF DevType
<1> QED  BY <1>1, <1>2, <1>3, <1>4, <1>5, <1>6 DEF d, g

LEMMA SettingsStart == SettingsInit => SettingsInv
<1> SUFFICES ASSUME SettingsInit  PROVE SettingsInv
  OBVIOUS
<1>1. FilesType(NoFiles)  BY DEF FilesType, Files, FileOf, NoFiles
<1>2. dev = Started(NoFiles) /\ file = Saved(NoFiles) /\ bg = Asleep /\ frame = FALSE /\ inputs = 0
  BY DEF SettingsInit
<1>3. /\ dev \in DevType /\ FilesType(file) /\ Named(dev, FALSE)
      /\ dev.events = {"saveAse"} /\ dev.by = "file"
      /\ file["im"] = {dev.im} /\ dev.im \in Im1
      /\ file["loc"] = {dev.sys} \/ (file["loc"] = Lost /\ dev.sys = Short(dev.im.loc))
      /\ bg \in BgType
  BY <1>1, <1>2, PowerOn
<1>4. /\ bg.at = "wait" /\ bg.flags = {} /\ \A j : ~Writing(j)
      /\ Saving("saveAse") /\ ~Saving("saveIm") /\ ~Saving("saveLoc") /\ ~Saving("clearIp")
  BY <1>2, <1>3 DEF Asleep, Saving, Writing
<1>5. BgSound /\ AseKept /\ ClearTold /\ ImKept
  BY <1>3, <1>4 DEF BgSound, AseKept, ClearTold, ImKept, Saving
<1>6. LocKept  BY <1>3, <1>4 DEF LocKept, AsStarted
<1>7. inputs \in 0 .. MaxOps
  <2>1. MaxOps \in Nat  BY SettingsAssumption
  <2> QED  BY <1>2, <2>1
<1> QED  BY <1>2, <1>3, <1>5, <1>6, <1>7 DEF SettingsInv, KeptInv

LEMMA RestartKeeps == ASSUME SettingsInv, Restart  PROVE SettingsInv'
<1>1. FilesType(file)  BY DEF SettingsInv, KeptInv
<1>2. dev' = Started(file) /\ file' = Saved(file) /\ bg' = Asleep /\ frame' = FALSE
      /\ inputs' \in 0 .. MaxOps
  <2>1. MaxOps \in Nat /\ inputs \in 0 .. MaxOps  BY SettingsAssumption DEF SettingsInv
  <2> QED  BY <2>1 DEF Restart, Outside
<1>3. /\ dev' \in DevType /\ FilesType(file') /\ Named(dev', FALSE)
      /\ dev'.events = {"saveAse"} /\ dev'.by = "file"
      /\ file'["im"] = {dev'.im} /\ dev'.im \in Im1
      /\ file'["loc"] = {dev'.sys} \/ (file'["loc"] = Lost /\ dev'.sys = Short(dev'.im.loc))
      /\ bg' \in BgType
  BY <1>1, <1>2, PowerOn
<1>4. /\ bg'.at = "wait" /\ bg'.flags = {} /\ \A j : ~Writing(j)'
      /\ Saving("saveAse")' /\ ~Saving("saveIm")' /\ ~Saving("saveLoc")' /\ ~Saving("clearIp")'
  BY <1>2, <1>3 DEF Asleep, Saving, Writing
<1>5. BgSound' /\ AseKept' /\ ClearTold' /\ ImKept'
  BY <1>3, <1>4 DEF BgSound, AseKept, ClearTold, ImKept, Saving
<1>6. LocKept'  BY <1>3, <1>4 DEF LocKept, AsStarted
<1> QED  BY <1>2, <1>3, <1>5, <1>6 DEF SettingsInv, KeptInv

\* What a restart brings back when the background thread has nothing left to do.
LEMMA SurvivesRestart ==
  ASSUME SettingsInv, Restart, Quiet
  PROVE  /\ (dev.cleared /\ file["ip"] = Lost) \/ dev'.nonvol = dev.nonvol
         /\ dev.unsaved \/ dev'.im = dev.im
         /\ dev.by = "im" \/ dev'.sys = dev.sys
<1>1. FilesType(file) /\ BgSound /\ dev' = Started(file)  BY DEF SettingsInv, KeptInv, Restart
<1>2. /\ bg.at = "wait" /\ bg.flags = {} /\ \A j : ~Writing(j)
      /\ ~Saving("saveAse") /\ ~Saving("saveIm") /\ ~Saving("saveLoc")
  BY <1>1 DEF Quiet, BgSound, Saving, Writing, Mask, Jobs
<1>3. /\ dev'.nonvol = Loaded(file)
      /\ dev'.im = (IF file["im"] # Lost THEN Content(file["im"]) ELSE [fun |-> "", loc |-> ""])
      /\ dev'.sys = (IF file["loc"] # Lost THEN Content(file["loc"]) ELSE Short(dev'.im.loc))
  BY <1>1, StartedIs
<1>4. \A x : {x} # Lost /\ Content({x}) = x  BY ContentIs DEF Lost
<1>5. file["ip"] = {dev.nonvol} \/ (dev.cleared /\ file["ip"] = Lost)
  BY <1>2 DEF SettingsInv, KeptInv, AseKept
<1>6. dev.unsaved \/ file["im"] = {dev.im}  BY <1>2 DEF SettingsInv, KeptInv, ImKept
<1>7. dev.by = "im" \/ file["loc"] = {dev.sys} \/ AsStarted
  BY <1>2 DEF SettingsInv, KeptInv, LocKept
<1>8. file["ip"] = {dev.nonvol} => dev'.nonvol = dev.nonvol  BY <1>3, <1>4 DEF Loaded
<1>9. file["im"] = {dev.im} => dev'.im = dev.im  BY <1>3, <1>4
<1>10. file["loc"] = {dev.sys} => dev'.sys = dev.sys  BY <1>3, <1>4
<1>11. AsStarted => dev'.sys = dev.sys  BY <1>3, <1>4 DEF AsStarted
<1> QED  BY <1>5, <1>6, <1>7, <1>8, <1>9, <1>10, <1>11

-----------------------------------------------------------------------------
(* DCP on top of the settings.                                             *)

\* The answer: where it is, and that none waits while a request is handled.
Count(b) == IF b THEN 1 ELSE 0
AnswerInv ==
  /\ ident \in [at : {"idle", "match", "add", "mark"}, req : Requests, pending : {0, 1},
                buffers : {0, 1}, waiting : BOOLEAN]
  /\ main \in {"idle", "sam", "samReset", "send", "sent"}
  /\ ident.buffers = ident.pending + Count(ident.at = "add") + Count(main = "send")
  /\ ident.at \in {"match", "add", "mark"} => ~ident.waiting
  /\ ident.at # "mark" /\ ~ident.waiting => ident.pending = 0 /\ main \notin {"send", "sent"}
  /\ main = "sent" => ident.buffers = 0

StationInv == SettingsInv /\ AnswerInv

LEMMA NothingAsked == <<>> \in Requests
<1>1. <<>> \in [1 .. 0 -> Filter]  OBVIOUS
<1>2. 0 \in 0 .. MaxBlocks  BY DcpAssumption
<1> QED  BY <1>1, <1>2 DEF Requests

LEMMA AnswerKept ==
  ASSUME AnswerInv, [StationNext]_stationVars
  PROVE  AnswerInv'
<1> USE NothingAsked DEF AnswerInv, Count
<1>1. ASSUME UNCHANGED <<ident, main>>  PROVE AnswerInv'  BY <1>1
<1>2. CASE Identify  BY <1>2 DEF Identify, Busy
<1>3. CASE IdentifyMatch
  <2>1. ident.at = "match" /\ main' = main  BY <1>3 DEF IdentifyMatch
  <2>2. ident.buffers = 0 /\ ident.pending = 0 /\ ~ident.waiting /\ main \notin {"send", "sent"}
    BY <2>1
  <2>3. CASE Answered(ident.req)
    <3>1. ident' = [ident EXCEPT !.at = "add", !.req = <<>>, !.buffers = ident.buffers + 1]
      BY <1>3, <2>3 DEF IdentifyMatch
    <3>2. ident.buffers + 1 = 1  BY <2>2
    <3>3. ident' = [at |-> "add", req |-> <<>>, pending |-> 0, buffers |-> 1, waiting |-> FALSE]
      BY <2>2, <3>1, <3>2
    <3> QED  BY <2>1, <2>2, <3>3
  <2>4. CASE ~Answered(ident.req)
    <3>1. ident' = [ident EXCEPT !.at = "idle", !.req = <<>>, !.buffers = ident.buffers]
      BY <1>3, <2>4 DEF IdentifyMatch
    <3>2. ident' = [at |-> "idle", req |-> <<>>, pending |-> 0, buffers |-> 0, waiting |-> FALSE]
      BY <2>2, <3>1
    <3> QED  BY <2>1, <2>2, <3>2
  <2> QED  BY <2>3, <2>4
<1>4. CASE IdentifyAdd
  <2>1. ident.at = "add" /\ main' = main  BY <1>4 DEF IdentifyAdd
  <2>2. ident.pending = 0 /\ ident.buffers = 1 /\ main \notin {"send", "sent"} /\ ~ident.waiting
    BY <2>1
  <2>3. ASSUME ident' = [ident EXCEPT !.at = "mark", !.pending = @ + 1]  PROVE AnswerInv'
    <3>1. ident.pending + 1 = 1  BY <2>2
    <3>2. ident' = [at |-> "mark", req |-> ident.req, pending |-> 1, buffers |-> 1, waiting |-> FALSE]
      BY <2>2, <2>3, <3>1
    <3> QED  BY <2>1, <2>2, <3>2
  <2>4. ASSUME ident' = [ident EXCEPT !.at = "idle", !.buffers = @ - 1]  PROVE AnswerInv'
    <3>1. ident.buffers - 1 = 0  BY <2>2
    <3>2. ident' = [at |-> "idle", req |-> ident.req, pending |-> 0, buffers |-> 0, waiting |-> FALSE]
      BY <2>2, <2>4, <3>1
    <3> QED  BY <2>1, <2>2, <3>2
  <2> QED  BY <1>4, <2>3, <2>4 DEF IdentifyAdd
<1>5. CASE IdentifyMark  BY <1>5 DEF IdentifyMark
<1>6. CASE AnswerExpires  BY <1>6 DEF AnswerExpires
<1>7. CASE AnswerSent  BY <1>7 DEF AnswerSent
<1>8. CASE AnswerDone
  <2>1. main = "sent" /\ main' = "idle" /\ ident' = [ident EXCEPT !.waiting = FALSE]
    BY <1>8 DEF AnswerDone
  <2>2. ident.pending = 0 /\ ident.buffers = 0 /\ ident.at \notin {"match", "add"}  BY <2>1
  <2> QED  BY <2>1, <2>2
<1>9. CASE SamExpires \/ SamCleared \/ SamReset  BY <1>9 DEF SamExpires, SamCleared, SamReset
<1>10. CASE PowerFails  BY <1>10 DEF PowerFails, NoIdent
<1>11. CASE \/ \E mac \in Macs : GetSetBegin(mac)
            \/ GetSetBlock \/ GetSetEnd \/ MainIdle
            \/ (Worker /\ UNCHANGED <<sam, ident, main>>)
            \/ UNCHANGED stationVars
  BY <1>1, <1>11 DEF GetSetBegin, GetSetBlock, GetSetEnd, MainIdle, stationVars
<1> QED
  BY <1>2, <1>3, <1>4, <1>5, <1>6, <1>7, <1>8, <1>9, <1>10, <1>11 DEF StationNext

-----------------------------------------------------------------------------
(* The invariant of the station, and what follows from it.                 *)

LEMMA StationStart == StationInit => StationInv
<1> SUFFICES ASSUME StationInit  PROVE StationInv
  OBVIOUS
<1>1. SettingsInv  BY SettingsStart DEF StationInit
<1>2. ident = [at |-> "idle", req |-> <<>>, pending |-> 0, buffers |-> 0, waiting |-> FALSE]
      /\ main = "idle"
  BY DEF StationInit, NoIdent
<1>3. AnswerInv  BY <1>2, NothingAsked DEF AnswerInv, Count
<1> QED  BY <1>1, <1>3 DEF StationInv

LEMMA StationKeeps == StationInv /\ [StationNext]_stationVars => StationInv'
<1> SUFFICES ASSUME SettingsInv, AnswerInv, [StationNext]_stationVars
             PROVE  SettingsInv' /\ AnswerInv'
  BY DEF StationInv
<1>1. AnswerInv'  BY AnswerKept
<1> SUFFICES SettingsInv'  BY <1>1
<1>2. ASSUME UNCHANGED vars  PROVE SettingsInv'
  BY <1>2 DEF vars, SettingsInv, KeptInv, FilesType, BgSound, AseKept, ClearTold, ImKept,
              LocKept, AsStarted, Saving, Writing
<1>3. ASSUME NEW mac \in Macs, GetSetBegin(mac)  PROVE SettingsInv'
  BY <1>3, EthernetKeeps DEF GetSetBegin
<1>4. CASE GetSetBlock  BY <1>4, EthernetKeeps DEF GetSetBlock
<1>5. CASE GetSetEnd  BY <1>5, EthernetKeeps DEF GetSetEnd
<1>6. CASE MainIdle  BY <1>6, MainThreadKeeps DEF MainIdle
<1>7. CASE Worker
  <2>1. dev \in DevType /\ KeptInv /\ Named(dev, frame) /\ frame \in BOOLEAN /\ inputs \in 0 .. MaxOps
    BY DEF SettingsInv
  <2>2. KeptInv' /\ SameBut(dev, dev')  BY <1>7, <2>1, WorkerKept
  <2>3. dev' \in DevType /\ Named(dev', frame)  BY <2>1, <2>2, SameButIs
  <2>4. frame' = frame /\ inputs' = inputs
    BY <1>7 DEF Worker, Wake, Rest, Write, JobDone, TakeJob, Clear, Compare
  <2> QED  BY <2>1, <2>2, <2>3, <2>4 DEF SettingsInv
<1>8. CASE PowerFails  BY <1>8, RestartKeeps DEF PowerFails
<1>9. CASE \/ Identify \/ IdentifyMatch \/ IdentifyAdd \/ IdentifyMark
           \/ SamExpires \/ SamCleared \/ SamReset \/ AnswerExpires \/ AnswerSent \/ AnswerDone
           \/ UNCHANGED stationVars
  <2>1. UNCHANGED vars
    BY <1>9 DEF Identify, IdentifyMatch, IdentifyAdd, IdentifyMark, SamExpires, SamCleared,
                SamReset, AnswerExpires, AnswerSent, AnswerDone, stationVars
  <2> QED  BY <1>2, <2>1
<1> QED  BY <1>3, <1>4, <1>5, <1>6, <1>7, <1>8, <1>9 DEF StationNext

\* The settings, what is stored of them, the AR that was made under them and the
\* answer to an Identify are in every state as StationInv says.
THEOREM StationInvAlways == StationSpec => []StationInv
<1>1. StationInit => StationInv  BY StationStart
<1>2. StationInv /\ [StationNext]_stationVars => StationInv'  BY StationKeeps
<1> QED  BY <1>1, <1>2, PTL DEF StationSpec

\* The types of the settings: TypeOK.
THEOREM StationTyped == StationSpec => []TypeOK
<1>1. StationInv => TypeOK
  <2> SUFFICES ASSUME StationInv  PROVE TypeOK
    OBVIOUS
  <2>1. dev \in DevType /\ frame \in BOOLEAN /\ inputs \in 0 .. MaxOps /\ Named(dev, frame)
        /\ FilesType(file) /\ bg \in BgType
    BY DEF StationInv, SettingsInv, KeptInv, BgSound
  <2>2. Cardinality(dev.ars) <= 1
    <3>1. CASE dev.ars = {}  BY <3>1, FS_EmptySet
    <3>2. CASE dev.ars # {}
      <4>1. PICK a \in dev.ars : TRUE  BY <3>2
      <4>2. dev.ars = {a}  BY <2>1, <4>1 DEF Named
      <4>3. Cardinality({a}) = 1  BY FS_Singleton
      <4> QED  BY <4>2, <4>3
    <3> QED  BY <3>1, <3>2
  <2>3. file["ip"] \in {Lost} \cup {{a} : a \in Ase}  BY <2>1 DEF FilesType, FileOf
  <2>4. bg.flags \subseteq Jobs  BY <2>1 DEF BgType, Mask
  <2>5. /\ dev.state \in SettingStates /\ dev.cur \in Ase /\ dev.nonvol \in Ase /\ dev.osIp \in Ips
        /\ {dev.commit, dev.armed, dev.unsaved, dev.cleared, dev.ok} \subseteq BOOLEAN
        /\ dev.hello \in 0 .. HelloRetry /\ dev.im \in Im1 /\ dev.sys \in Location
        /\ dev.events \subseteq Jobs /\ dev.by \in Sources
    BY <2>1 DEF DevType
  <2> QED  BY <2>1, <2>2, <2>3, <2>4, <2>5 DEF TypeOK, SettingStates, Sources
<1> QED  BY <1>1, StationInvAlways, PTL

\* An AR that was made under a settled name never outlives the name or the address
\* it was made under: ArsUnderTheirName.
THEOREM ArsUnderTheirNameAlways == StationSpec => []ArsUnderTheirName
<1>1. StationInv => ArsUnderTheirName  BY DEF StationInv, SettingsInv, Named, ArsUnderTheirName
<1> QED  BY <1>1, StationInvAlways, PTL

\* There is at most one answer to an Identify, and it has its buffer: OneAnswer.
THEOREM OneAnswerAlways == StationSpec => []OneAnswer
<1>1. StationInv => OneAnswer
  BY DEF StationInv, AnswerInv, OneAnswer, Count
<1> QED  BY <1>1, StationInvAlways, PTL

\* What is permanent survives a power failure: PermanentSurvives.
THEOREM PermanentSurvivesAlways == StationSpec => PermanentSurvives
<1> DEFINE A == Restart /\ Quiet =>
                  /\ (dev.cleared /\ file["ip"] = Lost) \/ dev'.nonvol = dev.nonvol
                  /\ dev.unsaved \/ dev'.im = dev.im
                  /\ dev.by = "im" \/ dev'.sys = dev.sys
<1>1. StationInv /\ [StationNext]_stationVars => [A]_vars
  BY SurvivesRestart DEF StationInv
<1>2. StationSpec => [][A]_vars
  <2> HIDE DEF A
  <2> QED  BY <1>1, StationInvAlways, PTL DEF StationSpec
<1> QED  BY <1>2 DEF PermanentSurvives

-----------------------------------------------------------------------------
(* Who is meant by an Identify.                                            *)

Flags == [ret : {0, -1}, first : BOOLEAN, match : BOOLEAN, filter : BOOLEAN, cut : BOOLEAN]
Yes(m) == m.ret = 0 /\ m.match
Agrees(b) == \/ b.opt = "name" /\ b.val = dev.cur.name
             \/ b.opt = "alias" /\ b.val \in Ours
             \/ b.opt = "value" /\ b.val = "ours"
\* What the first k blocks say.
MeantBy(req, k) ==
  \/ k = 0
  \/ req[1].opt = "all"
  \/ req[1].opt \in {"name", "alias"} /\ \A i \in 1 .. k : Agrees(req[i])
\* The flags after k blocks none of which is cut, and after a cut one.
Told(m, req, k) ==
  /\ m \in Flags /\ ~m.cut
  /\ Yes(m) <=> MeantBy(req, k)
  /\ m.first <=> k = 0
  /\ k = 0 => m = Unread
  /\ k > 0 => (m.filter /\ Yes(m) <=> req[1].opt \in {"name", "alias"} /\ MeantBy(req, k))

LEMMA ReadTypes ==
  ASSUME NEW m \in Flags, NEW b \in Filter
  PROVE  ReadBlock(m, b) \in Flags
BY DEF ReadBlock, NameBlock, AliasBlock, ValueBlock, AllBlock, Flags, Filter

LEMMA ReadOn ==
  ASSUME NEW n \in Nat, NEW req \in [1 .. n -> Filter], NEW k \in 0 .. n - 1, NEW m,
         Told(m, req, k), req[k + 1].opt # "cut"
  PROVE  Told(ReadBlock(m, req[k + 1]), req, k + 1)
<1> DEFINE b == req[k + 1]
           e == ReadBlock(m, b)
<1> SUFFICES Told(e, req, k + 1)  OBVIOUS
<1>1. k + 1 \in 1 .. n /\ b \in Filter /\ m \in Flags /\ k \in Nat /\ k + 1 > 0 /\ k + 1 # 0
  BY DEF Told
<1>2. /\ b.opt \in {"name", "alias", "value", "all", "allOdd", "unknown"}
      /\ b.opt = "value" => b.val \in {"ours", "other"}
  BY <1>1 DEF Filter
<1>3. CASE k = 0
  <2>1. m = Unread /\ GoesOn(m) /\ b = req[1]  BY <1>3 DEF Told, Unread, GoesOn
  <2>2. MeantBy(req, k + 1) <=> \/ b.opt = "all"
                                \/ b.opt \in {"name", "alias"} /\ Agrees(b)
    BY <1>3, <2>1 DEF MeantBy
  <2> HIDE DEF b
  <2>3. CASE b.opt = "name" /\ b.val = dev.cur.name
    <3>1. e = [ret |-> 0, first |-> FALSE, match |-> TRUE, filter |-> TRUE, cut |-> FALSE]
      BY <2>1, <2>3 DEF ReadBlock, NameBlock, Unread
    <3> HIDE DEF e
    <3>2. e \in Flags /\ ~e.cut /\ ~e.first /\ (Yes(e) <=> MeantBy(req, k + 1))
      BY <2>2, <2>3, <3>1 DEF Flags, Yes, Agrees
    <3>3. e.filter /\ Yes(e) <=> b.opt \in {"name", "alias"} /\ MeantBy(req, k + 1)
      BY <2>2, <2>3, <3>1 DEF Yes, Agrees
    <3> QED  BY <1>1, <2>1, <3>2, <3>3 DEF Told
  <2>4. CASE b.opt = "alias" /\ b.val \in Ours
    <3>1. e = [ret |-> 0, first |-> FALSE, match |-> TRUE, filter |-> TRUE, cut |-> FALSE]
      BY <2>1, <2>4 DEF ReadBlock, AliasBlock, Unread
    <3> HIDE DEF e
    <3>2. e \in Flags /\ ~e.cut /\ ~e.first /\ (Yes(e) <=> MeantBy(req, k + 1))
      BY <2>2, <2>4, <3>1 DEF Flags, Yes, Agrees
    <3>3. e.filter /\ Yes(e) <=> b.opt \in {"name", "alias"} /\ MeantBy(req, k + 1)
      BY <2>2, <2>4, <3>1 DEF Yes, Agrees
    <3> QED  BY <1>1, <2>1, <3>2, <3>3 DEF Told
  <2>5. CASE b.opt = "all"
    <3>1. e = [ret |-> 0, first |-> FALSE, match |-> TRUE, filter |-> FALSE, cut |-> FALSE]
      BY <2>1, <2>5 DEF ReadBlock, AllBlock, Unread
    <3> HIDE DEF e
    <3>2. e \in Flags /\ ~e.cut /\ ~e.first /\ (Yes(e) <=> MeantBy(req, k + 1))
      BY <2>2, <2>5, <3>1 DEF Flags, Yes, Agrees
    <3>3. e.filter /\ Yes(e) <=> b.opt \in {"name", "alias"} /\ MeantBy(req, k + 1)
      BY <2>2, <2>5, <3>1 DEF Yes, Agrees
    <3> QED  BY <1>1, <2>1, <3>2, <3>3 DEF Told
  <2>6. CASE b.opt = "name" /\ b.val # dev.cur.name
    <3>1. e = [ret |-> 0, first |-> FALSE, match |-> FALSE, filter |-> FALSE, cut |-> FALSE]
      BY <2>1, <2>6 DEF ReadBlock, NameBlock, Unread
    <3> HIDE DEF e
    <3>2. e \in Flags /\ ~e.cut /\ ~e.first /\ (Yes(e) <=> MeantBy(req, k + 1))
      BY <2>2, <2>6, <3>1 DEF Flags, Yes, Agrees
    <3>3. e.filter /\ Yes(e) <=> b.opt \in {"name", "alias"} /\ MeantBy(req, k + 1)
      BY <2>2, <2>6, <3>1 DEF Yes, Agrees
    <3> QED  BY <1>1, <2>1, <3>2, <3>3 DEF Told
  <2>7. CASE b.opt = "alias" /\ b.val \notin Ours
    <3>1. e = [ret |-> 0, first |-> FALSE, match |-> FALSE, filter |-> FALSE, cut |-> FALSE]
      BY <2>1, <2>7 DEF ReadBlock, AliasBlock, Unread
    <3> HIDE DEF e
    <3>2. e \in Flags /\ ~e.cut /\ ~e.first /\ (Yes(e) <=> MeantBy(req, k + 1))
      BY <2>2, <2>7, <3>1 DEF Flags, Yes, Agrees
    <3>3. e.filter /\ Yes(e) <=> b.opt \in {"name", "alias"} /\ MeantBy(req, k + 1)
      BY <2>2, <2>7, <3>1 DEF Yes, Agrees
    <3> QED  BY <1>1, <2>1, <3>2, <3>3 DEF Told
  <2>8. CASE b.opt \in {"value", "allOdd", "unknown"}
    <3>1. e = [ret |-> -1, first |-> FALSE, match |-> TRUE, filter |-> FALSE, cut |-> FALSE]
      BY <2>1, <2>8 DEF ReadBlock, ValueBlock, Unread
    <3> HIDE DEF e
    <3>2. e \in Flags /\ ~e.cut /\ ~e.first /\ (Yes(e) <=> MeantBy(req, k + 1))
      BY <2>2, <2>8, <3>1 DEF Flags, Yes, Agrees
    <3>3. e.filter /\ Yes(e) <=> b.opt \in {"name", "alias"} /\ MeantBy(req, k + 1)
      BY <2>2, <2>8, <3>1 DEF Yes, Agrees
    <3> QED  BY <1>1, <2>1, <3>2, <3>3 DEF Told
  <2> QED  BY <1>2, <2>3, <2>4, <2>5, <2>6, <2>7, <2>8 DEF b
<1>4. CASE k > 0
  <2> DEFINE named == req[1].opt \in {"name", "alias"}
  <2>1. /\ ~m.cut /\ ~m.first /\ (Yes(m) <=> MeantBy(req, k))
        /\ (m.filter /\ Yes(m) <=> named /\ MeantBy(req, k))
    BY <1>4 DEF Told
  <2>2. GoesOn(m) <=> m.filter /\ Yes(m)  BY <1>1, <2>1 DEF GoesOn, Yes, Flags
  <2>3. MeantBy(req, k + 1) <=> MeantBy(req, k) /\ (req[1].opt = "all" \/ Agrees(b))
    <3>1. 1 .. k + 1 = (1 .. k) \cup {k + 1}  BY <1>1
    <3>2. (\A i \in 1 .. k + 1 : Agrees(req[i])) <=> (\A i \in 1 .. k : Agrees(req[i])) /\ Agrees(b)
      BY <3>1
    <3> HIDE DEF b
    <3> QED  BY <1>4, <3>2 DEF MeantBy
  <2>4. MeantBy(req, k) => named \/ req[1].opt = "all"  BY <1>4 DEF MeantBy
  <2>6. named => req[1].opt # "all"  OBVIOUS
  <2> HIDE DEF b, named
  <2>7. CASE ~GoesOn(m)
    <3>1. e = m  BY <2>7 DEF ReadBlock
    <3>2. MeantBy(req, k) => req[1].opt = "all"  BY <2>1, <2>2, <2>4, <2>7
    <3>3. MeantBy(req, k + 1) <=> MeantBy(req, k)  BY <2>3, <3>2
    <3> HIDE DEF e
    <3> QED  BY <1>1, <2>1, <3>1, <3>3 DEF Told, named
  <2>8. CASE GoesOn(m)
    <3>1. m.ret = 0 /\ m.match /\ m.filter /\ named /\ MeantBy(req, k)
      BY <2>1, <2>2, <2>8 DEF Yes
    <3>2. m = [ret |-> 0, first |-> FALSE, match |-> TRUE, filter |-> TRUE, cut |-> FALSE]
      BY <1>1, <2>1, <3>1 DEF Flags
    <3>3. MeantBy(req, k + 1) <=> Agrees(b)  BY <2>3, <2>6, <3>1
    <3>4. e \in Flags /\ ~e.cut /\ ~e.first /\ e.filter /\ (Yes(e) <=> Agrees(b))
      <4>1. CASE Agrees(b)
        <5>1. e = [ret |-> 0, first |-> FALSE, match |-> TRUE, filter |-> TRUE, cut |-> FALSE]
          BY <1>2, <2>8, <3>2, <4>1 DEF ReadBlock, NameBlock, AliasBlock, ValueBlock, Agrees, b
        <5> QED  BY <4>1, <5>1 DEF Flags, Yes
      <4>2. CASE ~Agrees(b) /\ b.opt \in {"name", "alias", "value"}
        <5>1. e = [ret |-> 0, first |-> FALSE, match |-> FALSE, filter |-> TRUE, cut |-> FALSE]
          BY <1>2, <2>8, <3>2, <4>2 DEF ReadBlock, NameBlock, AliasBlock, ValueBlock, Agrees, b
        <5> QED  BY <4>2, <5>1 DEF Flags, Yes
      <4>3. CASE ~Agrees(b) /\ b.opt \in {"all", "allOdd", "unknown"}
        <5>1. e = [ret |-> -1, first |-> FALSE, match |-> TRUE, filter |-> TRUE, cut |-> FALSE]
          BY <1>2, <2>8, <3>2, <4>3 DEF ReadBlock, AllBlock, b
        <5> QED  BY <4>3, <5>1 DEF Flags, Yes
      <4> QED  BY <1>2, <4>1, <4>2, <4>3 DEF b
    <3> HIDE DEF e
    <3> QED  BY <1>1, <3>1, <3>3, <3>4 DEF Told, named
  <2> QED  BY <2>7, <2>8
<1> QED  BY <1>1, <1>3, <1>4

\* Unless a block goes on nothing changes.
LEMMA ReadStops == ASSUME NEW m, NEW b, ~GoesOn(m)  PROVE ReadBlock(m, b) = m
BY DEF ReadBlock

LEMMA ReadIs ==
  ASSUME NEW n \in Nat, NEW req \in [1 .. n -> Filter]
  PROVE  \E g : /\ g \in [0 .. n -> Flags] /\ g[0] = Unread
                /\ \A k \in 1 .. n : g[k] = ReadBlock(g[k - 1], req[k])
                /\ Read(req) = g[n]
<1>1. req \in Seq(Filter) /\ Len(req) = n  OBVIOUS
<1> DEFINE q == CHOOSE q : q = [i \in 0 .. Len(req) |->
                   IF i = 0 THEN Unread ELSE ReadBlock(q[i - 1], req[i])]
           step == [k \in 1 .. n |-> [x \in Flags |-> ReadBlock(x, req[k])]]
<1>2. Read(req) = q[n]  BY <1>1 DEF Read
<1>3. Unread \in Flags  BY DEF Unread, Flags
<1>4. StepsWithin(step, n, Flags)
  <2>1. \A k \in 1 .. n : req[k] \in Filter  OBVIOUS
  <2> QED  BY <2>1, ReadTypes DEF StepsWithin
<1>5. PICK g : RunOf(g, step, n, Flags, Unread)
  <2> HIDE DEF step
  <2> QED  BY <1>3, <1>4, Iteration, Zenon
<1>6. /\ g \in [0 .. n -> Flags] /\ g[0] = Unread
      /\ \A k \in 1 .. n : g[k] = step[k][g[k - 1]]
  BY <1>5, Zenon DEF RunOf
<1>7. \A k \in 1 .. n : g[k] = ReadBlock(g[k - 1], req[k])
  <2> SUFFICES ASSUME NEW k \in 1 .. n  PROVE g[k] = ReadBlock(g[k - 1], req[k])
    OBVIOUS
  <2>1. k - 1 \in 0 .. n /\ g[k - 1] \in Flags  BY <1>6
  <2> QED  BY <1>6, <2>1
<1>8. \E h : h = [i \in 0 .. Len(req) |->
                   IF i = 0 THEN Unread ELSE ReadBlock(h[i - 1], req[i])]
  <2>1. g = [i \in 0 .. n |-> IF i = 0 THEN Unread ELSE ReadBlock(g[i - 1], req[i])]
    <3>1. \A i \in 0 .. n : g[i] = IF i = 0 THEN Unread ELSE ReadBlock(g[i - 1], req[i])
      BY <1>6, <1>7
    <3> QED  BY <1>6, <3>1
  <2> QED  BY <1>1, <2>1
<1>9. q = [i \in 0 .. Len(req) |-> IF i = 0 THEN Unread ELSE ReadBlock(q[i - 1], req[i])]
  BY <1>8, Zenon
<1> HIDE DEF q
<1>10. /\ q[0] = Unread /\ \A k \in 1 .. n : q[k] = ReadBlock(q[k - 1], req[k])
       /\ q = [i \in 0 .. n |-> q[i]]
  BY <1>1, <1>9
<1>11. 0 .. n \subseteq {k \in 0 .. n : q[k] = g[k]}
  <2> DEFINE Same == {k \in 0 .. n : q[k] = g[k]}
  <2>1. 0 \in Same  BY <1>6, <1>10
  <2>2. ASSUME NEW k \in 0 .. n - 1, k \in Same  PROVE k + 1 \in Same
    <3>1. k + 1 \in 1 .. n /\ (k + 1) - 1 = k  OBVIOUS
    <3>2. q[k + 1] = ReadBlock(q[k], req[k + 1])  BY <1>10, <3>1
    <3>3. g[k + 1] = ReadBlock(g[k], req[k + 1])  BY <1>7, <3>1
    <3> QED  BY <2>2, <3>1, <3>2, <3>3
  <2> HIDE DEF Same
  <2>3. 0 .. n \subseteq Same  BY <2>1, <2>2, UpTo
  <2> QED  BY <2>3 DEF Same
<1>12. q[n] = g[n]  BY <1>11
<1> QED  BY <1>2, <1>6, <1>7, <1>12

\* The four flags find out what is meant.
LEMMA AnsweredIsMeant ==
  ASSUME NEW req \in Requests
  PROVE  Answered(req) <=> Meant(req)
<1>1. PICK len \in 0 .. MaxBlocks : req \in [1 .. len -> Filter]  BY DEF Requests
<1>2. len \in Nat  BY DcpAssumption
<1>3. Len(req) = len /\ DOMAIN req = 1 .. len  BY <1>1, <1>2
<1> DEFINE cuts == {i \in 1 .. len : req[i].opt = "cut"}
           n == IF cuts = {} THEN len ELSE (CHOOSE i \in cuts : \A j \in cuts : i <= j) - 1
<1>4. /\ n \in 0 .. len /\ \A i \in 1 .. n : req[i].opt # "cut"
      /\ n < len => req[n + 1].opt = "cut"
  <2>1. CASE cuts = {}  BY <1>2, <2>1
  <2>2. CASE cuts # {}
    <3> DEFINE c == CHOOSE i \in cuts : \A j \in cuts : i <= j
    <3>1. \E i \in cuts : \A j \in cuts : i <= j
      <4>1. cuts \in SUBSET Nat  OBVIOUS
      <4> HIDE DEF cuts
      <4> QED  BY <2>2, <4>1, LeastNumber
    <3>2. c \in cuts /\ \A j \in cuts : c <= j
      <4> HIDE DEF cuts
      <4> QED  BY <3>1, Zenon
    <3>3. n = c - 1  BY <2>2
    <3> HIDE DEF c, n
    <3> QED  BY <1>2, <3>2, <3>3
  <2> QED  BY <2>1, <2>2
<1>5. Meant(req) <=> MeantBy(req, n)
  BY <1>3 DEF Meant, MeantBy, Agrees
<1> HIDE DEF cuts, n
<1>6. PICK g : /\ g \in [0 .. len -> Flags] /\ g[0] = Unread
               /\ \A k \in 1 .. len : g[k] = ReadBlock(g[k - 1], req[k])
               /\ Read(req) = g[len]
  BY <1>1, <1>2, ReadIs
<1> DEFINE Fine == {k \in 0 .. len : /\ k <= n => Told(g[k], req, k)
                                     /\ k > n => (Yes(g[k]) <=> MeantBy(req, n)) /\ ~GoesOn(g[k])}
<1>7. 0 \in Fine
  <2>1. Told(Unread, req, 0)  BY DEF Told, Unread, Flags, Yes, MeantBy
  <2> QED  BY <1>2, <1>4, <1>6, <2>1
<1>8. ASSUME NEW k \in 0 .. len - 1, k \in Fine  PROVE k + 1 \in Fine
  <2>1. k + 1 \in 1 .. len /\ (k + 1) - 1 = k /\ g[k + 1] = ReadBlock(g[k], req[k + 1])
        /\ g[k] \in Flags
    BY <1>2, <1>6
  <2>2. CASE k + 1 <= n
    <3>1. Told(g[k], req, k) /\ req[k + 1].opt # "cut"  BY <1>4, <1>8, <2>1, <2>2
    <3>2. Told(g[k + 1], req, k + 1)  BY <1>1, <1>2, <2>1, <3>1, ReadOn
    <3> QED  BY <1>4, <2>1, <2>2, <3>2
  <2>3. CASE k = n
    <3>1. Told(g[k], req, k) /\ req[k + 1].opt = "cut"  BY <1>4, <1>8, <2>1, <2>3
    <3>2. CASE GoesOn(g[k])
      <4>1. g[k + 1] = [g[k] EXCEPT !.cut = TRUE]  BY <2>1, <3>1, <3>2 DEF ReadBlock
      <4>2. (Yes(g[k + 1]) <=> Yes(g[k])) /\ ~GoesOn(g[k + 1])
        BY <2>1, <4>1 DEF Yes, GoesOn, Flags
      <4> QED  BY <1>4, <2>1, <2>3, <3>1, <4>2 DEF Told
    <3>3. CASE ~GoesOn(g[k])
      <4>1. g[k + 1] = g[k]  BY <2>1, <3>3, ReadStops
      <4> QED  BY <1>4, <2>1, <2>3, <3>1, <3>3, <4>1 DEF Told
    <3> QED  BY <3>2, <3>3
  <2>4. CASE k > n
    <3>1. (Yes(g[k]) <=> MeantBy(req, n)) /\ ~GoesOn(g[k])  BY <1>8, <2>4
    <3>2. g[k + 1] = g[k]  BY <2>1, <3>1, ReadStops
    <3> QED  BY <1>4, <2>1, <2>4, <3>1, <3>2
  <2> QED  BY <1>4, <2>2, <2>3, <2>4
<1>9. len \in Fine
  <2> HIDE DEF Fine
  <2>1. 0 .. len \subseteq Fine  BY <1>2, <1>7, <1>8, UpTo
  <2> QED  BY <1>2, <2>1
<1>10. Yes(g[len]) <=> MeantBy(req, n)
  <2>1. CASE n = len  BY <1>9, <2>1 DEF Told
  <2>2. CASE n # len
    <3>1. len > n  BY <1>2, <1>4, <2>2
    <3> QED  BY <1>9, <3>1
  <2> QED  BY <2>1, <2>2
<1> QED  BY <1>5, <1>6, <1>10 DEF Answered, Yes

\* An Identify is answered exactly when it means this device: IdentifyExact.
THEOREM IdentifyExactAlways == StationSpec => IdentifyExact
<1> DEFINE A == ident.at = "match" /\ ident'.at # "match" /\ main' = main /\ frame' = frame
                  => (ident'.at = "add" <=> Meant(ident.req)) \/ ident' = NoIdent
<1>1. StationInv /\ [StationNext]_stationVars => [A]_stationVars
  <2> SUFFICES ASSUME AnswerInv, StationNext, ident.at = "match", ident'.at # "match"
               PROVE  (ident'.at = "add" <=> Meant(ident.req)) \/ ident' = NoIdent
    BY DEF StationInv
  <2>1. /\ ident.req \in Requests
        /\ ident \in [at : {"idle", "match", "add", "mark"}, req : Requests, pending : {0, 1},
                      buffers : {0, 1}, waiting : BOOLEAN]
    BY DEF AnswerInv
  <2>2. CASE IdentifyMatch
    <3>1. ident'.at = IF Answered(ident.req) THEN "add" ELSE "idle"
      BY <2>1, <2>2 DEF IdentifyMatch
    <3>2. Answered(ident.req) <=> Meant(ident.req)  BY <2>1, AnsweredIsMeant
    <3> QED  BY <3>1, <3>2
  <2>3. CASE PowerFails  BY <2>3 DEF PowerFails
  <2>4. CASE ~(IdentifyMatch \/ PowerFails)
    <3>1. ident'.at = ident.at
      BY <2>1, <2>4 DEF StationNext, GetSetBegin, GetSetBlock, GetSetEnd, Identify, IdentifyAdd,
             IdentifyMark, SamExpires, SamCleared, SamReset, AnswerExpires, AnswerSent,
             AnswerDone, MainIdle
    <3> QED  BY <3>1
  <2> QED  BY <2>2, <2>3, <2>4
<1>2. StationSpec => [][A]_stationVars
  <2> HIDE DEF A
  <2> QED  BY <1>1, StationInvAlways, PTL DEF StationSpec
<1> QED  BY <1>2 DEF IdentifyExact

-----------------------------------------------------------------------------
(* The neighbours: where their threads can be.                             *)

\* The places of the code where a thread can be.
Sending == {"disable", "enable", "add", "send"}
Checks == {"no peer", "port name", "station name"}
CommonAts == {"idle", "restart", "disable", "enable", "add", "reset", "undiag"}
PortAts == CommonAts \cup {"got", "indicate"}
MainAts == CommonAts \cup Checks \cup {"expired", "invalidate", "send"}
\* At most one element of S.
AtMost(S) == {{}} \cup {{x} : x \in S}
States == [at : PortAts \cup MainAts, port : Ports, todo : SUBSET Ports,
           info : AtMost(Infos), restart : BOOLEAN]
Pools == [entry : [Entries -> AtMost(Ports)], handle : [Ports -> 0 .. MaxTimers]]

\* What thread t can be doing: an Ethernet thread handles frames of its own port.
StateOf(t, s) ==
  /\ s \in States
  /\ t = Main => s.at \in MainAts
  /\ t # Main => /\ s.at \in PortAts
                 /\ s.at \in {"got", "indicate"} => s.port = t
                 /\ s.at = "got" => s.info # {}

Threaded == /\ thread \in [Threads -> States]
            /\ \A t \in Threads : StateOf(t, thread[t])

Typed ==
  /\ rx \in Pools /\ tx \in Pools
  /\ peer \in [Ports -> AtMost(Infos)]
  /\ cfg \in [Ports -> [wanted : AtMost(Wanted), boundary : {"none", "send", "silent"},
                        updated : BOOLEAN]]
  /\ diag \in [Ports -> SUBSET Diagnoses]
  /\ monitor \in Ports

\* Where two threads are at the same thing, it is known that they have met.
Met ==
  \A p \in Ports :
    /\ At(Main, {"expired", "invalidate"}, p) /\ thread[p].at = "got" => "peer" \in crossed[p]
    /\ \A t, u \in Threads : At(t, Sending, p) /\ At(u, Sending, p) /\ t # u => "sending" \in crossed[p]
    /\ \A t \in Ports : At(Main, Checks, p) /\ At(t, {"undiag"}, p) => "check" \in crossed[p]

Basic == Typed /\ Threaded /\ Met

\* What has met stays known.
Grows == \A p \in Ports : crossed[p] \subseteq crossed'[p]

-----------------------------------------------------------------------------
(* The pools of timers.                                                        *)

\* The handle of port p tells of the only timer that runs for it, if one does.
Own(r, p) == IF r.handle[p] = 0 THEN Armed(r, p) = {} ELSE Armed(r, p) = {r.handle[p]}
\* Only one timer runs for each port.
OneEach(r) == \A p \in Ports : \A i, j \in Armed(r, p) : i = j

\* There are more entries than ports.
LEMMA Numbers ==
  /\ NbrPorts \in Nat \ {0} /\ MaxTimers \in Nat \ {0} /\ MaxTimers > NbrPorts
  /\ Ports \subseteq Nat /\ Main \notin Ports /\ 0 \notin Entries
  /\ Ports # {} /\ 1 \in Ports /\ Threads = {Main} \cup Ports
  /\ Ports \subseteq Entries /\ Entries \subseteq 0 .. MaxTimers
BY NeighboursAssumption DEF Ports, Main, Threads, Entries

\* An entry is free as long as every port has at most one.
LEMMA SomeFree ==
  ASSUME NEW r \in Pools, OneEach(r)
  PROVE  \E i \in Entries : r.entry[i] = {}
<1> SUFFICES ASSUME \A i \in Entries : r.entry[i] # {}  PROVE FALSE
  OBVIOUS
<1> DEFINE of == [i \in Entries |-> CHOOSE p \in Ports : r.entry[i] = {p}]
<1>1. ASSUME NEW i \in Entries  PROVE of[i] \in Ports /\ r.entry[i] = {of[i]}
  <2>1. \E p \in Ports : r.entry[i] = {p}
    BY DEF Pools, AtMost
  <2> QED  BY <2>1
<1>2. of \in [Entries -> Ports]
  BY <1>1
<1>3. /\ IsFiniteSet(Entries) /\ Cardinality(Entries) = MaxTimers
      /\ IsFiniteSet(Ports) /\ Cardinality(Ports) = NbrPorts
  <2>1. 1 \in Int /\ MaxTimers \in Int /\ NbrPorts \in Int  BY Numbers
  <2> QED  BY <2>1, Numbers, FS_Interval DEF Entries, Ports
<1> HIDE DEF of
<1>4. PICK i \in Entries, j \in Entries : i # j /\ of[i] = of[j]
  <2>1. Cardinality(Ports) < Cardinality(Entries)  BY <1>3, Numbers
  <2> QED  BY <1>2, <1>3, <2>1, FS_PigeonHole
<1>5. i \in Armed(r, of[i]) /\ j \in Armed(r, of[i]) /\ of[i] \in Ports
  BY <1>1, <1>4 DEF Armed
<1> QED  BY <1>4, <1>5 DEF OneEach

\* What the removal of a port's timer leaves alone, whatever its handle tells of.
LEMMA RemovedShape ==
  ASSUME NEW r \in Pools, NEW p \in Ports
  PROVE  /\ Removed(r, p) \in Pools
         /\ \A q \in Ports \ {p} : Removed(r, p).handle[q] = r.handle[q]
         /\ \A i \in Entries : \/ Removed(r, p).entry[i] = r.entry[i]
                               \/ i = r.handle[p] /\ Removed(r, p).entry[i] = {}
         /\ r.handle[p] # 0 => Removed(r, p).entry[r.handle[p]] = {}
         /\ Removed(r, p).handle[p] \in {0, r.handle[p]}
         /\ r.handle[p] = 0 => Removed(r, p) = r
         /\ Removed(r, p).handle[p] # 0 => r.handle[p] # 0 /\ r.entry[r.handle[p]] = {}
<1> DEFINE i == r.handle[p]
           s == [entry |-> [r.entry EXCEPT ![i] = {}], handle |-> [r.handle EXCEPT ![p] = 0]]
<1>1. r.entry \in [Entries -> AtMost(Ports)] /\ r.handle \in [Ports -> 0 .. MaxTimers]
  BY DEF Pools
<1>2. i \in 0 .. MaxTimers /\ (i # 0 => i \in Entries)
  BY <1>1, Numbers DEF Entries
<1>3. CASE i # 0 /\ r.entry[i] # {}
  <2>1. Removed(r, p) = s  BY <1>3 DEF Removed
  <2>2. s.entry = [r.entry EXCEPT ![i] = {}] /\ s.handle = [r.handle EXCEPT ![p] = 0]
    OBVIOUS
  <2>3. s.entry \in [Entries -> AtMost(Ports)] /\ s.handle \in [Ports -> 0 .. MaxTimers]
    BY <1>1, <1>2, <1>3, <2>2, Numbers DEF AtMost
  <2>4. s \in Pools  BY <2>3 DEF Pools
  <2> QED  BY <1>1, <1>2, <1>3, <2>1, <2>2, <2>4
<1>4. CASE i = 0 \/ r.entry[i] = {}
  <2>1. Removed(r, p) = r  BY <1>4 DEF Removed
  <2> QED  BY <1>4, <2>1
<1> QED  BY <1>3, <1>4

\* A port whose handle tells the truth has no timer once it is removed, and no other
\* port loses one.
LEMMA RemovedOwn ==
  ASSUME NEW r \in Pools, NEW p \in Ports, Own(r, p)
  PROVE  /\ Removed(r, p) \in Pools /\ Own(Removed(r, p), p) /\ Armed(Removed(r, p), p) = {}
         /\ \A q \in Ports \ {p} : /\ Removed(r, p).handle[q] = r.handle[q]
                                   /\ Armed(Removed(r, p), q) = Armed(r, q)
<1> DEFINE s == Removed(r, p)
<1>1. r.handle[p] \in 0 .. MaxTimers  BY DEF Pools
<1>2. CASE r.handle[p] = 0
  <2>1. s = r  BY <1>2, RemovedShape
  <2> QED  BY <1>2, <2>1 DEF Own
<1>3. CASE r.handle[p] # 0
  <2>1. Armed(r, p) = {r.handle[p]}  BY <1>3 DEF Own
  <2>2. r.handle[p] \in Entries /\ r.entry[r.handle[p]] = {p}  BY <2>1 DEF Armed
  <2>3. /\ s \in Pools /\ (\A q \in Ports \ {p} : s.handle[q] = r.handle[q])
        /\ \A i \in Entries : s.entry[i] = IF i = r.handle[p] THEN {} ELSE r.entry[i]
        /\ s.handle[p] = 0
    BY <1>3, <2>2, RemovedShape
  <2> HIDE DEF s
  <2>4. Armed(s, p) = {}  BY <2>1, <2>3 DEF Armed
  <2>5. ASSUME NEW q \in Ports \ {p}  PROVE Armed(s, q) = Armed(r, q)
    BY <2>2, <2>3 DEF Armed
  <2>6. Own(s, p)  BY <2>3, <2>4 DEF Own
  <2> QED  BY <2>3, <2>4, <2>5, <2>6 DEF s
<1> QED  BY <1>2, <1>3

\* What the addition of a timer leaves alone.
LEMMA AddedShape ==
  ASSUME NEW r \in Pools, NEW p \in Ports, NEW s \in Added(r, p)
  PROVE  /\ s \in Pools
         /\ \A q \in Ports \ {p} : s.handle[q] = r.handle[q] /\ Armed(s, q) = Armed(r, q)
         /\ \A i \in Entries : r.entry[i] # {} => s.entry[i] = r.entry[i]
         /\ s.handle[p] # 0 => r.entry[s.handle[p]] = {}
<1> DEFINE free == {i \in Entries : r.entry[i] = {}}
           t(i) == [entry |-> [r.entry EXCEPT ![i] = {p}], handle |-> [r.handle EXCEPT ![p] = i]]
<1>1. r.entry \in [Entries -> AtMost(Ports)] /\ r.handle \in [Ports -> 0 .. MaxTimers]
  BY DEF Pools
<1>2. CASE free = {}
  <2>1. s = [r EXCEPT !.handle[p] = 0]  BY <1>2 DEF Added
  <2>2. s.entry = r.entry /\ s.handle = [r.handle EXCEPT ![p] = 0] /\ s = [entry |-> s.entry, handle |-> s.handle]
    BY <2>1 DEF Pools
  <2>3. s.handle \in [Ports -> 0 .. MaxTimers]  BY <1>1, <2>2, Numbers
  <2>4. s \in Pools  BY <1>1, <2>2, <2>3 DEF Pools
  <2> QED  BY <1>1, <2>2, <2>4 DEF Armed
<1>3. CASE free # {}
  <2>1. PICK i \in free : s = t(i)  BY <1>3 DEF Added
  <2>2. i \in Entries /\ r.entry[i] = {} /\ s = [entry |-> s.entry, handle |-> s.handle]
        /\ s.entry = [r.entry EXCEPT ![i] = {p}] /\ s.handle = [r.handle EXCEPT ![p] = i]
    BY <2>1
  <2>3. s.entry \in [Entries -> AtMost(Ports)] /\ s.handle \in [Ports -> 0 .. MaxTimers]
    BY <1>1, <2>2, Numbers DEF AtMost
  <2>4. s \in Pools  BY <2>2, <2>3 DEF Pools
  <2>5. ASSUME NEW q \in Ports \ {p}  PROVE Armed(s, q) = Armed(r, q)
    BY <1>1, <2>2 DEF Armed
  <2> QED  BY <1>1, <2>2, <2>4, <2>5
<1> QED  BY <1>2, <1>3

\* A timer is added when one is free, and the handle tells of it.
LEMMA AddedOwn ==
  ASSUME NEW r \in Pools, NEW p \in Ports, NEW s \in Added(r, p),
         Armed(r, p) = {}, OneEach(r)
  PROVE  Own(s, p) /\ Armed(s, p) # {}
<1> DEFINE free == {i \in Entries : r.entry[i] = {}}
<1>1. free # {}  BY SomeFree
<1>2. PICK i \in free : s = [entry |-> [r.entry EXCEPT ![i] = {p}], handle |-> [r.handle EXCEPT ![p] = i]]
  BY <1>1 DEF Added
<1>3. r.entry \in [Entries -> AtMost(Ports)] /\ r.handle \in [Ports -> 0 .. MaxTimers]
  BY DEF Pools
<1>4. i \in Entries /\ i # 0 /\ s.handle[p] = i /\ s.entry = [r.entry EXCEPT ![i] = {p}]
  BY <1>2, <1>3, Numbers
<1>5. Armed(s, p) = {i}  BY <1>3, <1>4 DEF Armed
<1> QED  BY <1>4, <1>5 DEF Own

\* An entry that expires is that of one port.
LEMMA ExpiredShape ==
  ASSUME NEW r \in Pools, NEW p \in Ports, NEW i \in Entries, r.entry[i] = {p}
  PROVE  /\ Expired(r, i) \in Pools /\ Expired(r, i).handle = r.handle
         /\ \A j \in Entries \ {i} : Expired(r, i).entry[j] = r.entry[j]
         /\ \A q \in Ports \ {p} : Armed(Expired(r, i), q) = Armed(r, q)
         /\ Own(r, p) => Armed(Expired(r, i), p) = {}
<1> DEFINE s == Expired(r, i)
<1>1. r.entry \in [Entries -> AtMost(Ports)] /\ r.handle \in [Ports -> 0 .. MaxTimers]
  BY DEF Pools
<1>2. s = [entry |-> s.entry, handle |-> s.handle] /\ s.handle = r.handle
      /\ s.entry = [r.entry EXCEPT ![i] = {}]
  BY DEF Expired, Pools
<1> HIDE DEF s
<1>3. s \in Pools  BY <1>1, <1>2 DEF Pools, AtMost
<1>4. ASSUME NEW q \in Ports \ {p}  PROVE Armed(s, q) = Armed(r, q)
  BY <1>1, <1>2 DEF Armed
<1>5. ASSUME Own(r, p)  PROVE Armed(s, p) = {}
  <2>1. i \in Armed(r, p)  BY DEF Armed
  <2>2. Armed(r, p) = {i}  BY <2>1, <1>5 DEF Own
  <2> QED  BY <1>1, <1>2, <2>2 DEF Armed
<1> QED  BY <1>1, <1>2, <1>3, <1>4, <1>5 DEF s

\* Handles that tell the truth leave no port with two timers.
LEMMA OwnOne ==
  ASSUME NEW r, \A p \in Ports : Own(r, p) \/ Armed(r, p) = {}
  PROVE  OneEach(r)
BY DEF OneEach, Own
-----------------------------------------------------------------------------
(* The threads.                                                                *)

\* The first of some ports is one of them.
LEMMA LeastPort ==
  ASSUME NEW S \in SUBSET Ports, S # {}
  PROVE  Min(S) \in S
<1>1. S \in SUBSET Nat  BY Numbers
<1>2. \E x \in S : \A y \in S : x <= y  BY <1>1, LeastNumber
<1> QED  BY <1>2 DEF Min

\* Two threads that start or stop the transmission of a port have met.
LEMMA TwoMeet ==
  ASSUME NEW th, NEW p, NEW t \in Threads, NEW u \in Threads, t # u,
         th[t].at \in Sending /\ th[t].port = p, th[u].at \in Sending /\ th[u].port = p
  PROVE  MeetAtSending(th, p)
<1> DEFINE S == {v \in Threads : th[v].at \in {"disable", "enable", "add", "send"} /\ th[v].port = p}
<1>1. IsFiniteSet(Threads)
  <2>1. Threads = 0 .. NbrPorts  BY Numbers DEF Ports, Main
  <2>2. 0 \in Int /\ NbrPorts \in Int  BY Numbers
  <2> QED  BY <2>1, <2>2, FS_Interval
<1>2. S \in SUBSET Threads /\ {t, u} \in SUBSET S  BY DEF Sending
<1> HIDE DEF S
<1>3. IsFiniteSet(S)  BY <1>1, <1>2, FS_Subset
<1>4. Cardinality({t, u}) <= Cardinality(S) /\ Cardinality(S) \in Nat
  BY <1>2, <1>3, FS_Subset, FS_CardinalityType
<1>5. Cardinality({t, u}) = 2
  <2>1. IsFiniteSet({t}) /\ Cardinality({t}) = 1  BY FS_Singleton
  <2>2. u \notin {t} /\ {t} \cup {u} = {t, u}  OBVIOUS
  <2>3. Cardinality({t} \cup {u}) = 1 + 1  BY <2>1, <2>2, FS_AddElement
  <2>4. Cardinality({t, u}) = Cardinality({t} \cup {u})  BY <2>2, Zenon
  <2> QED  BY <2>3, <2>4
<1>6. Cardinality(S) > 1  BY <1>4, <1>5
<1> QED  BY <1>6 DEF S, MeetAtSending

\* A thread that goes to a state that it can be in.
LEMMA GoesShape ==
  ASSUME Threaded, NEW t \in Threads, NEW s, StateOf(t, s), Goes(t, s)
  PROVE  /\ Threaded' /\ Met' /\ Grows
         /\ thread'[t] = s /\ \A u \in Threads : u # t => thread'[u] = thread[u]
<1>1. thread' = [thread EXCEPT ![t] = s] /\ s \in States  BY DEF Goes, StateOf
<1>2. /\ thread' \in [Threads -> States] /\ thread'[t] = s
      /\ \A u \in Threads : u # t => thread'[u] = thread[u]
  BY <1>1 DEF Threaded
<1>3. \A u \in Threads : StateOf(u, thread'[u])  BY <1>2 DEF Threaded
<1>4. \A p \in Ports : /\ crossed[p] \subseteq crossed'[p]
                       /\ MeetAtPeer(thread', p) => "peer" \in crossed'[p]
                       /\ MeetAtSending(thread', p) => "sending" \in crossed'[p]
                       /\ MeetAtCheck(thread', p) => "check" \in crossed'[p]
  BY DEF Goes
<1>5. Met'
  <2> SUFFICES ASSUME NEW p \in Ports
               PROVE  /\ At(Main, {"expired", "invalidate"}, p)' /\ thread'[p].at = "got" => "peer" \in crossed'[p]
                      /\ \A v, u \in Threads : At(v, Sending, p)' /\ At(u, Sending, p)' /\ v # u => "sending" \in crossed'[p]
                      /\ \A v \in Ports : At(Main, Checks, p)' /\ At(v, {"undiag"}, p)' => "check" \in crossed'[p]
    BY DEF Met
  <2>1. At(Main, {"expired", "invalidate"}, p)' /\ thread'[p].at = "got" => "peer" \in crossed'[p]
    BY <1>4 DEF At, MeetAtPeer
  <2>2. ASSUME NEW v \in Threads, NEW u \in Threads, At(v, Sending, p)', At(u, Sending, p)', v # u
        PROVE  "sending" \in crossed'[p]
    <3>1. MeetAtSending(thread', p)
      <4> DEFINE th == thread'
      <4>1. th[v].at \in Sending /\ th[v].port = p /\ th[u].at \in Sending /\ th[u].port = p
        BY <2>2 DEF At
      <4> HIDE DEF th
      <4>2. MeetAtSending(th, p)  BY <4>1, <2>2, TwoMeet
      <4> QED  BY <4>2 DEF th
    <3> QED  BY <3>1, <1>4
  <2>3. \A v \in Ports : At(Main, Checks, p)' /\ At(v, {"undiag"}, p)' => "check" \in crossed'[p]
    BY <1>4 DEF At, MeetAtCheck, Checks
  <2> QED  BY <2>1, <2>2, <2>3
<1> QED  BY <1>2, <1>3, <1>4, <1>5 DEF Threaded, Grows

\* What no thread does leaves all of this as it was.
LEMMA StaysShape ==
  ASSUME Threaded, Met, UNCHANGED <<thread, crossed>>
  PROVE  Threaded' /\ Met' /\ Grows
BY DEF Threaded, Met, Grows, At

\* An idle thread.
LEMMA IdleState ==
  /\ \A t \in Threads : StateOf(t, Idle)
  /\ Idle.at = "idle" /\ Idle.port \in Ports
<1>1. Idle \in States  BY Numbers DEF Idle, States, AtMost, CommonAts, PortAts
<1> QED  BY <1>1, Numbers DEF StateOf, Idle, MainAts, PortAts, CommonAts

\* A thread that goes on at its port.
LEMMA GoesToShape ==
  ASSUME Threaded, NEW t \in Threads, NEW at, GoesTo(t, at),
         t = Main => at \in MainAts,
         t # Main => at \in PortAts \ {"got"} /\ (at = "indicate" => thread[t].port = t)
  PROVE  /\ Threaded' /\ Met' /\ Grows
         /\ thread'[t].at = at /\ thread'[t].port = thread[t].port
         /\ \A u \in Threads : u # t => thread'[u] = thread[u]
<1> DEFINE s == [thread[t] EXCEPT !.at = at]
<1>1. thread[t] \in States  BY DEF Threaded
<1>2. s \in States /\ s.at = at /\ s.port = thread[t].port  BY <1>1 DEF States
<1> HIDE DEF s
<1>3. StateOf(t, s)  BY <1>2 DEF StateOf
<1>4. Goes(t, s)  BY DEF GoesTo, s
<1> QED  BY <1>2, <1>3, <1>4, GoesShape

\* The main thread begins a new thing at one of the ports.
LEMMA MainBegins ==
  ASSUME Threaded, NEW at \in MainAts, NEW p \in Ports, MainDoes(at, p)
  PROVE  /\ Threaded' /\ Met' /\ Grows
         /\ thread'[Main].at = at /\ thread'[Main].port = p
         /\ \A u \in Threads : u # Main => thread'[u] = thread[u]
<1> DEFINE s == [Idle EXCEPT !.at = at, !.port = p]
<1>0. Main \in Threads  BY Numbers
<1>1. Idle \in States  BY <1>0, IdleState DEF StateOf
<1>2. s \in States /\ s.at = at /\ s.port = p  BY <1>1 DEF States
<1>3. Goes(Main, s)  BY DEF MainDoes
<1> HIDE DEF s
<1>4. StateOf(Main, s)  BY <1>2 DEF StateOf
<1> QED  BY <1>0, <1>2, <1>3, <1>4, GoesShape

\* A thread begins a round of the ports.
LEMMA RoundBegins ==
  ASSUME Threaded, NEW t \in Threads, NEW s \in States, s.at \in CommonAts, Goes(t, s)
  PROVE  /\ Threaded' /\ Met' /\ Grows /\ thread'[t].at = s.at
         /\ \A u \in Threads : u # t => thread'[u] = thread[u]
<1>1. StateOf(t, s)  BY DEF StateOf, PortAts, MainAts, CommonAts
<1> QED  BY <1>1, GoesShape

\* A thread that goes to the first of some ports.
LEMMA VisitsShape ==
  ASSUME Threaded, NEW t \in Threads, NEW at \in CommonAts, NEW S \in SUBSET Ports, S # {},
         Visits(t, at, S)
  PROVE  /\ Threaded' /\ Met' /\ Grows /\ thread'[t].at = at
         /\ \A u \in Threads : u # t => thread'[u] = thread[u]
<1> DEFINE s == [thread[t] EXCEPT !.at = at, !.port = Min(S), !.todo = S \ {Min(S)}]
<1>1. thread[t] \in States /\ Min(S) \in Ports  BY LeastPort DEF Threaded
<1>2. s \in States /\ s.at = at  BY <1>1 DEF States, PortAts
<1> HIDE DEF s
<1>3. StateOf(t, s)  BY <1>2 DEF StateOf, PortAts, MainAts, CommonAts
<1>4. Goes(t, s)  BY DEF Visits, s
<1> QED  BY <1>2, <1>3, <1>4, GoesShape

\* A thread that goes on with its next port, or is done.
LEMMA NextPortShape ==
  ASSUME Threaded, NEW t \in Threads, NEW at \in CommonAts, NextPort(t, at)
  PROVE  /\ Threaded' /\ Met' /\ Grows /\ thread'[t].at \in {"idle", at}
         /\ \A u \in Threads : u # t => thread'[u] = thread[u]
<1>1. CASE thread[t].todo = {}
  <2>1. Goes(t, Idle)  BY <1>1 DEF NextPort
  <2> QED  BY <2>1, IdleState, GoesShape
<1>2. CASE thread[t].todo # {}
  <2>1. thread[t] \in States  BY DEF Threaded
  <2>2. thread[t].todo \in SUBSET Ports  BY <2>1 DEF States
  <2>3. Visits(t, at, thread[t].todo)  BY <1>2 DEF NextPort
  <2> QED  BY <1>2, <2>2, <2>3, VisitsShape
<1> QED  BY <1>1, <1>2
-----------------------------------------------------------------------------
(* The invariants: what holds of each port as long as nobody has met there.    *)

Never(m) == \A p \in Ports : m \notin crossed[p]

\* While a frame is sent after the timer has expired, none runs; otherwise the handle
\* tells of the timer.  Who starts or stops the transmission does what the boundary
\* says, and when nobody does so, it has been done.
SendOK(p) ==
  /\ IF At(Main, {"send"}, p) THEN Armed(tx, p) = {} ELSE Own(tx, p)
  /\ \A t \in Threads :
       /\ At(t, {"add"}, p) => Armed(tx, p) = {}
       /\ At(t, {"disable"}, p) => cfg[p].boundary # "send"
       /\ At(t, {"enable", "add", "send"}, p) => cfg[p].boundary # "silent"
  /\ (\A t \in Threads : ~At(t, Sending, p)) =>
       /\ Forbidden(p) => Armed(tx, p) = {}
       /\ cfg[p].boundary = "send" => Armed(tx, p) # {}

SendInv == Never("sending") => \A p \in Ports : SendOK(p)

\* The handle tells of the timer unless it has just expired, and it runs for every
\* peer that is not believed for long.
PeerOK(p) ==
  /\ IF At(Main, {"expired"}, p) THEN Armed(rx, p) = {} ELSE Own(rx, p)
  /\ thread[p].at = "got" => \A i \in thread[p].info : i.long \/ Armed(rx, p) # {}
  /\ \A i \in peer[p] : \/ i.long \/ Armed(rx, p) # {} \/ thread[p].at = "got"
                        \/ At(Main, {"expired", "invalidate"}, p)

PeerInv == Never("peer") => \A p \in Ports : PeerOK(p)

NoPeerRight(p) == "no peer" \in diag[p] <=> peer[p] = {}
PortNameRight(p) ==
  \A i \in peer[p] : \A n \in i.port : "port name" \in diag[p] <=> ~PortMatches(p, n)
StationNameRight(p) ==
  \A i \in peer[p] : \A n \in i.station : "station name" \in diag[p] <=> ~StationMatches(p, n)

\* A check that has been loaded: the timer of the start will have it made, or a frame.
CheckLoaded(p) ==
  /\ peer[p] = {}
  /\ \/ rx.entry[p] = {p} /\ \A q \in Ports \ {p} : rx.handle[q] # p
     \/ At(Main, {"expired", "invalidate"}, p)
     \/ thread[p].at = "got"

\* What the check has looked at so far is reported as it is.
Progress(p) ==
  /\ At(Main, {"port name", "station name"}, p) => NoPeerRight(p)
  /\ At(Main, {"station name"}, p) => PortNameRight(p)
  /\ ~At(Main, Checks, p) => CheckLoaded(p) \/ (NoPeerRight(p) /\ PortNameRight(p) /\ StationNameRight(p))

DiagOK(p) ==
  IF cfg[p].wanted = {}
    THEN /\ ~At(Main, Checks, p)
         /\ diag[p] = {} \/ \E t \in Threads : At(t, {"undiag"}, p)
    ELSE /\ \A t \in Threads : ~At(t, {"undiag"}, p)
         /\ ~cfg[p].updated /\ thread[p].at # "indicate" => Progress(p)

DiagInv == \A p \in Ports : "check" \notin crossed[p] => DiagOK(p)

IInv == Typed /\ Threaded /\ Met /\ SendInv /\ PeerInv /\ DiagInv

\* Who does not enter or leave the places of S.
Apart(u, S) == thread'[u] = thread[u] \/ (thread[u].at \notin S /\ thread'[u].at \notin S)

\* One port's transmission is as it was.
LEMMA SendPortKept ==
  ASSUME NEW p \in Ports, SendOK(p),
         \A u \in Threads : thread'[u] = thread[u] \/ (~At(u, Sending, p) /\ ~At(u, Sending, p)'),
         Armed(tx', p) = Armed(tx, p), tx'.handle[p] = tx.handle[p],
         cfg'[p].boundary \in {cfg[p].boundary, "none"}
  PROVE  SendOK(p)'
<1>1. Main \in Threads  BY Numbers
<1>2. Armed(tx, p)' = Armed(tx, p) /\ Own(tx, p)' = Own(tx, p)
  BY DEF Armed, Own, Entries
<1>3. \A u \in Threads : \A S \in {{"send"}, {"add"}, {"disable"}, {"enable", "add", "send"}, Sending} :
        At(u, S, p)' <=> At(u, S, p)
  BY DEF At, Sending
<1>4. \A u \in Threads : /\ At(u, {"send"}, p)' <=> At(u, {"send"}, p)
                         /\ At(u, {"add"}, p)' <=> At(u, {"add"}, p)
                         /\ At(u, {"disable"}, p)' <=> At(u, {"disable"}, p)
                         /\ At(u, {"enable", "add", "send"}, p)' <=> At(u, {"enable", "add", "send"}, p)
                         /\ At(u, Sending, p)' <=> At(u, Sending, p)
  BY <1>3
<1>5. Forbidden(p)' => Forbidden(p)  BY DEF Forbidden
<1> QED  BY <1>1, <1>2, <1>4, <1>5 DEF SendOK, Forbidden

\* The transmission of every port is as it was.
LEMMA SendKept ==
  ASSUME SendInv, Grows, tx' = tx,
         \A u \in Threads : Apart(u, Sending),
         \A p \in Ports : cfg'[p].boundary \in {cfg[p].boundary, "none"}
  PROVE  SendInv'
<1> SUFFICES ASSUME Never("sending")', NEW p \in Ports  PROVE SendOK(p)'
  BY DEF SendInv
<1>1. SendOK(p)  BY DEF SendInv, Never, Grows
<1>2. \A u \in Threads : thread'[u] = thread[u] \/ (~At(u, Sending, p) /\ ~At(u, Sending, p)')
  BY DEF Apart, At
<1> QED  BY <1>1, <1>2, SendPortKept

\* One port's peer is as it was, or gone.
LEMMA PeerPortKept ==
  ASSUME NEW p \in Ports, PeerOK(p),
         thread'[Main] = thread[Main] \/ (~At(Main, {"expired", "invalidate"}, p)
                                          /\ ~At(Main, {"expired", "invalidate"}, p)'),
         Apart(p, {"got"}),
         Armed(rx', p) = Armed(rx, p), rx'.handle[p] = rx.handle[p],
         peer'[p] \subseteq peer[p]
  PROVE  PeerOK(p)'
<1>1. Armed(rx, p)' = Armed(rx, p) /\ Own(rx, p)' = Own(rx, p)
  BY DEF Armed, Own, Entries
<1>2. /\ At(Main, {"expired"}, p)' <=> At(Main, {"expired"}, p)
      /\ At(Main, {"expired", "invalidate"}, p)' <=> At(Main, {"expired", "invalidate"}, p)
  BY DEF At
<1>3. /\ thread'[p].at = "got" <=> thread[p].at = "got"
      /\ thread'[p].at = "got" => thread'[p].info = thread[p].info
  BY DEF Apart
<1> QED  BY <1>1, <1>2, <1>3 DEF PeerOK

\* The peers of all ports are as they were.
LEMMA PeerKept ==
  ASSUME PeerInv, Grows, rx' = rx,
         \A u \in Threads : Apart(u, {"got", "expired", "invalidate"}),
         \A p \in Ports : peer'[p] \subseteq peer[p]
  PROVE  PeerInv'
<1> SUFFICES ASSUME Never("peer")', NEW p \in Ports  PROVE PeerOK(p)'
  BY DEF PeerInv
<1>1. PeerOK(p)  BY DEF PeerInv, Never, Grows
<1>2. Main \in Threads /\ p \in Threads  BY Numbers
<1>3. Apart(p, {"got"})  BY <1>2 DEF Apart
<1>4. thread'[Main] = thread[Main] \/ (~At(Main, {"expired", "invalidate"}, p)
                                       /\ ~At(Main, {"expired", "invalidate"}, p)')
  BY <1>2 DEF Apart, At
<1> QED  BY <1>1, <1>3, <1>4, PeerPortKept

\* One port's diagnosis is as it was.
LEMMA DiagPortKept ==
  ASSUME NEW p \in Ports, DiagOK(p),
         thread'[Main] = thread[Main] \/ (~At(Main, Checks, p) /\ ~At(Main, Checks, p)'),
         \A u \in Threads : thread'[u] = thread[u] \/ (~At(u, {"undiag"}, p) /\ ~At(u, {"undiag"}, p)'),
         thread[p].at = "indicate" => thread'[p].at = "indicate",
         cfg'[p].wanted = cfg[p].wanted, cfg[p].updated => cfg'[p].updated,
         peer'[p] = peer[p], diag'[p] = diag[p], CheckLoaded(p) => CheckLoaded(p)'
  PROVE  DiagOK(p)'
<1>1. \A u \in Threads : At(u, {"undiag"}, p)' <=> At(u, {"undiag"}, p)
  BY DEF At
<1>2. /\ At(Main, Checks, p)' <=> At(Main, Checks, p)
      /\ At(Main, {"port name", "station name"}, p)' <=> At(Main, {"port name", "station name"}, p)
      /\ At(Main, {"station name"}, p)' <=> At(Main, {"station name"}, p)
  BY DEF At, Checks
<1>3. /\ NoPeerRight(p)' <=> NoPeerRight(p)
      /\ PortNameRight(p)' <=> PortNameRight(p)
      /\ StationNameRight(p)' <=> StationNameRight(p)
  <2>1. NoPeerRight(p)' <=> NoPeerRight(p)  BY DEF NoPeerRight
  <2>2. PortNameRight(p)' <=> PortNameRight(p)  BY DEF PortNameRight, PortMatches
  <2>3. StationNameRight(p)' <=> StationNameRight(p)  BY DEF StationNameRight, StationMatches
  <2> QED  BY <2>1, <2>2, <2>3
<1>4. Progress(p) => Progress(p)'  BY <1>2, <1>3 DEF Progress
<1>5. CASE cfg[p].wanted = {}
  BY <1>1, <1>2, <1>5 DEF DiagOK
<1>6. CASE cfg[p].wanted # {}
  BY <1>1, <1>4, <1>6 DEF DiagOK
<1> QED  BY <1>5, <1>6

\* The diagnosis of a port that the thread has nothing to do with.
LEMMA DiagOther ==
  ASSUME NEW q \in Ports, NEW t \in Threads, DiagOK(q),
         \A u \in Threads : u # t => thread'[u] = thread[u],
         ~At(t, Checks \cup {"undiag"}, q), ~At(t, Checks \cup {"undiag"}, q)',
         t = q => thread[q].at # "indicate",
         cfg'[q].wanted = cfg[q].wanted, cfg[q].updated => cfg'[q].updated,
         peer'[q] = peer[q], diag'[q] = diag[q], CheckLoaded(q) => CheckLoaded(q)'
  PROVE  DiagOK(q)'
<1>1. thread'[Main] = thread[Main] \/ (~At(Main, Checks, q) /\ ~At(Main, Checks, q)')
  BY Numbers DEF At
<1>2. \A u \in Threads : thread'[u] = thread[u] \/ (~At(u, {"undiag"}, q) /\ ~At(u, {"undiag"}, q)')
  BY DEF At
<1>3. thread[q].at = "indicate" => thread'[q].at = "indicate"
  BY Numbers
<1> QED  BY <1>1, <1>2, <1>3, DiagPortKept

\* A check that is loaded stays so while the timers and the peer are not touched.
LEMMA LoadedKept ==
  ASSUME NEW p \in Ports, CheckLoaded(p), rx' = rx, peer'[p] = peer[p],
         \A u \in Threads : Apart(u, {"got", "expired", "invalidate"})
  PROVE  CheckLoaded(p)'
<1>1. Main \in Threads /\ p \in Threads  BY Numbers
<1>2. At(Main, {"expired", "invalidate"}, p)' <=> At(Main, {"expired", "invalidate"}, p)
  BY <1>1 DEF Apart, At
<1>3. thread'[p].at = "got" <=> thread[p].at = "got"
  BY <1>1 DEF Apart
<1> QED  BY <1>2, <1>3 DEF CheckLoaded

\* The diagnoses of all ports are as they were.
LEMMA DiagKept ==
  ASSUME DiagInv, Grows, rx' = rx, peer' = peer, diag' = diag,
         \A u \in Threads : Apart(u, Checks \cup {"got", "indicate", "expired", "invalidate", "undiag"}),
         \A p \in Ports : cfg'[p].wanted = cfg[p].wanted /\ cfg'[p].updated = cfg[p].updated
  PROVE  DiagInv'
<1> SUFFICES ASSUME NEW p \in Ports, "check" \notin crossed'[p]  PROVE DiagOK(p)'
  BY DEF DiagInv
<1>1. DiagOK(p)  BY DEF DiagInv, Grows
<1>2. Main \in Threads /\ p \in Threads  BY Numbers
<1>3. CheckLoaded(p) => CheckLoaded(p)'
  <2>1. \A u \in Threads : Apart(u, {"got", "expired", "invalidate"})  BY DEF Apart
  <2> QED  BY <2>1, LoadedKept
<1>4. thread'[Main] = thread[Main] \/ (~At(Main, Checks, p) /\ ~At(Main, Checks, p)')
  BY <1>2 DEF Apart, At
<1>5. \A u \in Threads : thread'[u] = thread[u] \/ (~At(u, {"undiag"}, p) /\ ~At(u, {"undiag"}, p)')
  BY DEF Apart, At
<1>6. thread[p].at = "indicate" => thread'[p].at = "indicate"
  BY <1>2 DEF Apart
<1> QED  BY <1>1, <1>3, <1>4, <1>5, <1>6, DiagPortKept
-----------------------------------------------------------------------------
(* Starting and stopping the transmission.                                     *)

\* As long as no two threads have met, every port has at most one timer.
LEMMA SendOne ==
  ASSUME SendInv, Never("sending")
  PROVE  OneEach(tx)
<1>1. \A p \in Ports : Own(tx, p) \/ Armed(tx, p) = {}
  BY DEF SendInv, SendOK
<1> DEFINE r == tx
<1>2. \A p \in Ports : Own(r, p) \/ Armed(r, p) = {}  BY <1>1
<1> HIDE DEF r
<1>3. OneEach(r)  BY <1>2, OwnOne
<1> QED  BY <1>3 DEF r

\* A thread that is about to start or stop the transmission as the boundary says.
LEMMA EnterSending ==
  ASSUME SendInv, Grows, Met', NEW t \in Threads, NEW p \in Ports,
         thread[t].at \notin Sending, thread'[t].at \in {"disable", "enable"},
         thread'[t].port = p, \A u \in Threads : u # t => thread'[u] = thread[u],
         tx' = tx, \A q \in Ports : q # p => cfg'[q] = cfg[q],
         thread'[t].at = "disable" => cfg'[p].boundary # "send",
         thread'[t].at = "enable" => cfg'[p].boundary # "silent"
  PROVE  SendInv'
<1> SUFFICES ASSUME Never("sending")', NEW q \in Ports  PROVE SendOK(q)'
  BY DEF SendInv
<1>1. SendOK(q)  BY DEF SendInv, Never, Grows
<1>2. CASE q # p
  <2>1. \A u \in Threads : thread'[u] = thread[u] \/ (~At(u, Sending, q) /\ ~At(u, Sending, q)')
    BY <1>2 DEF At
  <2> QED  BY <1>1, <1>2, <2>1, SendPortKept
<1>3. CASE q = p
  <2>1. At(t, Sending, p)'  BY DEF At, Sending
  <2>2. \A u \in Threads : u # t => ~At(u, Sending, p)'
    BY <2>1 DEF Met, Never
  <2>3. \A u \in Threads : ~At(u, Sending, p)
    BY <2>2 DEF At
  <2>4. Main \in Threads  BY Numbers
  <2>5. ~At(Main, {"send"}, p) /\ ~At(Main, {"send"}, p)'
    BY <2>2, <2>3, <2>4 DEF At, Sending
  <2>6. Own(tx, p)'  BY <1>1, <1>3, <2>5 DEF SendOK, Own, Armed, Entries
  <2>7. \A u \in Threads :
          /\ ~At(u, {"add"}, p)'
          /\ At(u, {"disable"}, p)' => cfg'[p].boundary # "send"
          /\ At(u, {"enable", "add", "send"}, p)' => cfg'[p].boundary # "silent"
    BY <2>2 DEF At, Sending
  <2> QED  BY <1>3, <2>1, <2>5, <2>6, <2>7 DEF SendOK
<1> QED  BY <1>2, <1>3

\* A thread that has started or stopped the transmission.
LEMMA LeaveSending ==
  ASSUME SendInv, Grows, Met, NEW t \in Threads, NEW p \in Ports,
         At(t, Sending, p), thread'[t].at \notin Sending,
         \A u \in Threads : u # t => thread'[u] = thread[u], cfg' = cfg,
         Never("sending") =>
           /\ Own(tx', p)
           /\ \A q \in Ports : q # p => Armed(tx', q) = Armed(tx, q) /\ tx'.handle[q] = tx.handle[q]
           /\ Forbidden(p) => Armed(tx', p) = {}
           /\ cfg[p].boundary = "send" => Armed(tx', p) # {}
  PROVE  SendInv'
<1> SUFFICES ASSUME Never("sending")', NEW q \in Ports  PROVE SendOK(q)'
  BY DEF SendInv
<1>0. Never("sending")  BY DEF Never, Grows
<1>1. SendOK(q)  BY <1>0 DEF SendInv
<1>2. CASE q # p
  <2>1. \A u \in Threads : thread'[u] = thread[u] \/ (~At(u, Sending, q) /\ ~At(u, Sending, q)')
    BY <1>2 DEF At
  <2> QED  BY <1>0, <1>1, <1>2, <2>1, SendPortKept
<1>3. CASE q = p
  <2>1. \A u \in Threads : u # t => ~At(u, Sending, p)
    BY <1>0 DEF Met, Never
  <2>2. \A u \in Threads : ~At(u, Sending, p)'
    BY <2>1 DEF At
  <2>3. Main \in Threads  BY Numbers
  <2>4. \A u \in Threads : ~At(u, {"send"}, p)' /\ ~At(u, {"add"}, p)'
                           /\ ~At(u, {"disable"}, p)' /\ ~At(u, {"enable", "add", "send"}, p)'
    BY <2>2 DEF At, Sending
  <2>5. Own(tx, p)' /\ Armed(tx, p)' = Armed(tx', p)
    BY <1>0 DEF Own, Armed, Entries
  <2>6. Forbidden(p)' = Forbidden(p)  BY DEF Forbidden
  <2> QED  BY <1>0, <1>3, <2>3, <2>4, <2>5, <2>6 DEF SendOK
<1> QED  BY <1>2, <1>3

\* pf_pdport_lldp_restart_transmission() looks at the boundary.
LEMMA RestartSendingKeeps ==
  ASSUME IInv, NEW t \in Threads, RestartSending(t)
  PROVE  IInv'
<1> DEFINE p == thread[t].port
           at == IF Forbidden(p) THEN "disable" ELSE "enable"
<1>0. p \in Ports  BY DEF IInv, Threaded, States
<1>1. /\ Threaded' /\ Met' /\ Grows
      /\ thread'[t].at = at /\ thread'[t].port = p
      /\ \A u \in Threads : u # t => thread'[u] = thread[u]
  <2>1. at \in CommonAts /\ at \notin {"got", "indicate"}  BY DEF CommonAts
  <2>2. GoesTo(t, at)  BY DEF RestartSending
  <2> HIDE DEF at
  <2> QED  BY <2>1, <2>2, GoesToShape DEF IInv, PortAts, MainAts
<1>2. Typed'  BY DEF IInv, Typed, RestartSending
<1>3. SendInv'
  <2>1. thread[t].at \notin Sending  BY DEF RestartSending, Sending
  <2>2. tx' = tx /\ cfg' = cfg  BY DEF RestartSending
  <2>3. /\ thread'[t].at \in {"disable", "enable"}
        /\ thread'[t].at = "disable" => cfg'[p].boundary # "send"
        /\ thread'[t].at = "enable" => cfg'[p].boundary # "silent"
    BY <1>1, <2>2 DEF Forbidden
  <2> QED  BY <1>0, <1>1, <2>1, <2>2, <2>3, EnterSending DEF IInv
<1>4. PeerInv'
  <2>1. rx' = rx /\ peer' = peer  BY DEF RestartSending
  <2>2. \A u \in Threads : Apart(u, {"got", "expired", "invalidate"})
    BY <1>1 DEF Apart, RestartSending
  <2> QED  BY <1>1, <2>1, <2>2, PeerKept DEF IInv
<1>5. DiagInv'
  <2>1. rx' = rx /\ peer' = peer /\ diag' = diag /\ cfg' = cfg  BY DEF RestartSending
  <2>2. \A u \in Threads : Apart(u, Checks \cup {"got", "indicate", "expired", "invalidate", "undiag"})
    BY <1>1 DEF Apart, RestartSending, Checks
  <2> QED  BY <1>1, <2>1, <2>2, DiagKept DEF IInv
<1> QED  BY <1>1, <1>2, <1>3, <1>4, <1>5 DEF IInv

\* pf_lldp_send_disable() removes the timer.
LEMMA SendDisableKeeps ==
  ASSUME IInv, NEW t \in Threads, SendDisable(t)
  PROVE  IInv'
<1> DEFINE p == thread[t].port
<1>0. p \in Ports /\ tx \in Pools /\ At(t, Sending, p)
  BY DEF IInv, Threaded, States, Typed, At, Sending, SendDisable
<1>1. /\ Threaded' /\ Met' /\ Grows /\ thread'[t].at \in {"idle", "restart"}
      /\ \A u \in Threads : u # t => thread'[u] = thread[u]
  <2>1. NextPort(t, "restart") /\ "restart" \in CommonAts  BY DEF SendDisable, CommonAts
  <2> QED  BY <2>1, NextPortShape DEF IInv
<1>2. tx' = Removed(tx, p) /\ UNCHANGED <<rx, peer, cfg, diag, link, monitor, ops>>
  BY DEF SendDisable
<1>3. Typed'
  <2>1. tx' \in Pools  BY <1>0, <1>2, RemovedShape
  <2> QED  BY <1>2, <2>1 DEF IInv, Typed
<1>4. SendInv'
  <2>1. thread'[t].at \notin Sending  BY <1>1 DEF Sending
  <2>2. ASSUME Never("sending")
        PROVE  /\ Own(tx', p)
               /\ \A q \in Ports : q # p => Armed(tx', q) = Armed(tx, q) /\ tx'.handle[q] = tx.handle[q]
               /\ Forbidden(p) => Armed(tx', p) = {}
               /\ cfg[p].boundary = "send" => Armed(tx', p) # {}
    <3>1. SendOK(p) /\ At(t, {"disable"}, p) /\ ~At(Main, {"send"}, p)
      <4>1. SendOK(p)  BY <1>0, <2>2 DEF IInv, SendInv
      <4>2. At(t, {"disable"}, p)  BY DEF At, SendDisable
      <4>3. ~At(Main, {"send"}, p)
        BY <1>0, <2>2, <4>2, Numbers DEF IInv, Met, Never, At, Sending
      <4> QED  BY <4>1, <4>2, <4>3
    <3>2. Own(tx, p) /\ cfg[p].boundary # "send"  BY <3>1 DEF SendOK
    <3> QED  BY <1>0, <1>2, <3>2, RemovedOwn
  <2>3. cfg' = cfg  BY <1>2
  <2> QED  BY <1>0, <1>1, <2>1, <2>2, <2>3, LeaveSending DEF IInv
<1>5. PeerInv'
  <2>1. \A u \in Threads : Apart(u, {"got", "expired", "invalidate"})
    BY <1>1 DEF Apart, SendDisable
  <2> QED  BY <1>1, <1>2, <2>1, PeerKept DEF IInv
<1>6. DiagInv'
  <2>1. \A u \in Threads : Apart(u, Checks \cup {"got", "indicate", "expired", "invalidate", "undiag"})
    BY <1>1 DEF Apart, SendDisable, Checks
  <2> QED  BY <1>1, <1>2, <2>1, DiagKept DEF IInv
<1> QED  BY <1>1, <1>3, <1>4, <1>5, <1>6 DEF IInv

\* pf_lldp_send_enable() removes the timer before it adds it.
LEMMA SendEnableKeeps ==
  ASSUME IInv, NEW t \in Threads, SendEnable(t)
  PROVE  IInv'
<1>0. PICK p \in Ports : p = thread[t].port /\ tx \in Pools /\ At(t, {"enable"}, p)
  BY DEF IInv, Threaded, States, Typed, At, SendEnable
<1>1. /\ Threaded' /\ Met' /\ Grows
      /\ thread'[t].at = "add" /\ thread'[t].port = p
      /\ \A u \in Threads : u # t => thread'[u] = thread[u]
  BY <1>0, GoesToShape DEF IInv, SendEnable, PortAts, MainAts, CommonAts
<1>2. tx' = Removed(tx, p) /\ UNCHANGED <<rx, peer, cfg, diag, link, monitor, ops>>
  BY <1>0 DEF SendEnable
<1>3. Typed'
  <2>1. tx' \in Pools  BY <1>0, <1>2, RemovedShape
  <2> QED  BY <1>2, <2>1 DEF IInv, Typed
<1>4. SendInv'
  <2> SUFFICES ASSUME Never("sending")', NEW q \in Ports  PROVE SendOK(q)'
    BY DEF SendInv
  <2>0. Never("sending")  BY <1>1 DEF Never, Grows
  <2>1. SendOK(q) /\ SendOK(p)  BY <1>0, <2>0 DEF IInv, SendInv
  <2>2. \A u \in Threads : u # t => ~At(u, Sending, p)
    BY <1>0, <2>0 DEF IInv, Met, Never, At, Sending
  <2>3. Own(tx, p) /\ cfg[p].boundary # "silent"
    <3>1. ~At(Main, {"send"}, p)  BY <1>0, <2>2, Numbers DEF At, Sending
    <3> QED  BY <1>0, <2>1, <3>1 DEF SendOK, At
  <2>4. /\ Own(tx', p) /\ Armed(tx', p) = {}
        /\ \A r \in Ports : r # p => Armed(tx', r) = Armed(tx, r) /\ tx'.handle[r] = tx.handle[r]
    BY <1>0, <1>2, <2>3, RemovedOwn
  <2>5. CASE q # p
    <3>1. \A u \in Threads : thread'[u] = thread[u] \/ (~At(u, Sending, q) /\ ~At(u, Sending, q)')
      BY <1>0, <1>1, <2>5 DEF At
    <3> QED  BY <1>2, <2>1, <2>4, <2>5, <3>1, SendPortKept
  <2>6. CASE q = p
    <3>1. Own(tx, p)' /\ Armed(tx, p)' = {}
      BY <1>0, <1>1, <2>4 DEF Own, Armed, Entries
    <3>2. At(t, {"add"}, p)' /\ At(t, Sending, p)'
      BY <1>1 DEF At, Sending
    <3>3. \A u \in Threads : u # t => ~At(u, Sending, p)'
      BY <1>1, <2>2 DEF At
    <3>4. ~At(Main, {"send"}, p)'
      BY <1>1, <3>3, Numbers DEF At, Sending
    <3>5. \A u \in Threads : ~At(u, {"disable"}, p)'
      BY <1>1, <3>3 DEF At, Sending
    <3>6. cfg'[p].boundary # "silent"  BY <1>2, <2>3
    <3> QED  BY <2>6, <3>1, <3>2, <3>4, <3>5, <3>6 DEF SendOK
  <2> QED  BY <2>5, <2>6
<1>5. PeerInv'
  <2>1. \A u \in Threads : Apart(u, {"got", "expired", "invalidate"})
    BY <1>1 DEF Apart, SendEnable
  <2> QED  BY <1>1, <1>2, <2>1, PeerKept DEF IInv
<1>6. DiagInv'
  <2>1. \A u \in Threads : Apart(u, Checks \cup {"got", "indicate", "expired", "invalidate", "undiag"})
    BY <1>1 DEF Apart, SendEnable, Checks
  <2> QED  BY <1>1, <1>2, <2>1, DiagKept DEF IInv
<1> QED  BY <1>1, <1>3, <1>4, <1>5, <1>6 DEF IInv

\* A timer that is added by whom no other thread has met.
LEMMA AddLeaves ==
  ASSUME IInv, Grows, NEW t \in Threads, NEW p \in Ports, At(t, {"add", "send"}, p),
         thread'[t].at \notin Sending, \A u \in Threads : u # t => thread'[u] = thread[u],
         tx' \in Added(tx, p), cfg' = cfg
  PROVE  SendInv'
<1>1. tx \in Pools /\ At(t, Sending, p)  BY DEF IInv, Typed, At, Sending
<1>2. ASSUME Never("sending")
      PROVE  /\ Own(tx', p)
             /\ \A q \in Ports : q # p => Armed(tx', q) = Armed(tx, q) /\ tx'.handle[q] = tx.handle[q]
             /\ Forbidden(p) => Armed(tx', p) = {}
             /\ cfg[p].boundary = "send" => Armed(tx', p) # {}
  <2>1. SendOK(p) /\ OneEach(tx)  BY <1>2, SendOne DEF IInv, SendInv
  <2>2. cfg[p].boundary # "silent"  BY <2>1 DEF SendOK, At
  <2>3. Armed(tx, p) = {}
    <3>1. CASE thread[t].at = "add"  BY <2>1, <3>1 DEF SendOK, At
    <3>2. CASE thread[t].at = "send"
      <4>1. t = Main  BY <3>2 DEF IInv, Threaded, StateOf, PortAts, CommonAts
      <4> QED  BY <2>1, <3>2, <4>1 DEF SendOK, At
    <3> QED  BY <3>1, <3>2 DEF At
  <2>4. Own(tx', p) /\ Armed(tx', p) # {}  BY <1>1, <2>1, <2>3, AddedOwn
  <2> QED  BY <1>1, <2>2, <2>4, AddedShape DEF Forbidden
<1> QED  BY <1>1, <1>2, LeaveSending DEF IInv

\* pf_scheduler_restart() adds the timer.
LEMMA SendAddKeeps ==
  ASSUME IInv, NEW t \in Threads, SendAdd(t)
  PROVE  IInv'
<1> DEFINE p == thread[t].port
<1>0. p \in Ports /\ tx \in Pools /\ At(t, {"add", "send"}, p)
  BY DEF IInv, Threaded, States, Typed, At, SendAdd
<1>1. /\ Threaded' /\ Met' /\ Grows /\ thread'[t].at \in {"idle", "restart"}
      /\ \A u \in Threads : u # t => thread'[u] = thread[u]
  <2>1. NextPort(t, "restart") /\ "restart" \in CommonAts  BY DEF SendAdd, CommonAts
  <2> QED  BY <2>1, NextPortShape DEF IInv
<1>2. tx' \in Added(tx, p) /\ UNCHANGED <<rx, peer, cfg, diag, link, monitor, ops>>
  BY DEF SendAdd
<1>3. Typed'
  <2>1. tx' \in Pools  BY <1>0, <1>2, AddedShape
  <2> QED  BY <1>2, <2>1 DEF IInv, Typed
<1>4. SendInv'
  <2>1. thread'[t].at \notin Sending /\ cfg' = cfg  BY <1>1, <1>2 DEF Sending
  <2> QED  BY <1>0, <1>1, <1>2, <2>1, AddLeaves
<1>5. PeerInv'
  <2>1. \A u \in Threads : Apart(u, {"got", "expired", "invalidate"})
    BY <1>1 DEF Apart, SendAdd
  <2> QED  BY <1>1, <1>2, <2>1, PeerKept DEF IInv
<1>6. DiagInv'
  <2>1. \A u \in Threads : Apart(u, Checks \cup {"got", "indicate", "expired", "invalidate", "undiag"})
    BY <1>1 DEF Apart, SendAdd, Checks
  <2> QED  BY <1>1, <1>2, <2>1, DiagKept DEF IInv
<1> QED  BY <1>1, <1>3, <1>4, <1>5, <1>6 DEF IInv

\* pf_lldp_trigger_sending() begins when its entry is free again.
LEMMA SendTimeoutKeeps ==
  ASSUME IInv, NEW p \in Ports, NEW i \in Entries, SendTimeout(p, i)
  PROVE  IInv'
<1>0. Main \in Threads /\ tx \in Pools /\ tx.entry[i] = {p} /\ thread[Main].at = "idle"
  BY Numbers DEF IInv, Typed, SendTimeout, MainFree
<1>1. /\ Threaded' /\ Met' /\ Grows
      /\ thread'[Main].at = "send" /\ thread'[Main].port = p
      /\ \A u \in Threads : u # Main => thread'[u] = thread[u]
  <2>1. "send" \in MainAts /\ MainDoes("send", p)  BY DEF MainAts, SendTimeout
  <2> QED  BY <2>1, MainBegins DEF IInv
<1>2. tx' = Expired(tx, i) /\ UNCHANGED <<rx, peer, cfg, diag, link, monitor, ops>>
  BY DEF SendTimeout
<1>3. Typed'
  <2>1. tx' \in Pools  BY <1>0, <1>2, ExpiredShape
  <2> QED  BY <1>2, <2>1 DEF IInv, Typed
<1>4. SendInv'
  <2> SUFFICES ASSUME Never("sending")', NEW q \in Ports  PROVE SendOK(q)'
    BY DEF SendInv
  <2>0. Never("sending")  BY <1>1 DEF Never, Grows
  <2>1. SendOK(q) /\ SendOK(p)  BY <2>0 DEF IInv, SendInv
  <2>2. \A u \in Threads : u # Main => ~At(u, Sending, p)
    <3>1. At(Main, Sending, p)'  BY <1>1 DEF At, Sending
    <3>2. \A u \in Threads : u # Main => ~At(u, Sending, p)'
      BY <1>0, <1>1, <3>1 DEF Met, Never
    <3> QED  BY <1>1, <3>2 DEF At
  <2>3. \A u \in Threads : ~At(u, Sending, p)  BY <1>0, <2>2 DEF At, Sending
  <2>4. Own(tx, p) /\ Armed(tx, p) # {}
    <3>1. ~At(Main, {"send"}, p)  BY <1>0 DEF At
    <3> QED  BY <1>0, <2>1, <3>1 DEF SendOK, Armed
  <2>5. cfg[p].boundary # "silent"  BY <2>1, <2>3, <2>4 DEF SendOK, Forbidden
  <2>6. /\ Armed(tx', p) = {}
        /\ \A r \in Ports : r # p => Armed(tx', r) = Armed(tx, r) /\ tx'.handle[r] = tx.handle[r]
    BY <1>0, <1>2, <2>4, ExpiredShape
  <2>7. CASE q # p
    <3>1. \A u \in Threads : thread'[u] = thread[u] \/ (~At(u, Sending, q) /\ ~At(u, Sending, q)')
      BY <1>0, <1>1, <2>7 DEF At, Sending
    <3> QED  BY <1>2, <2>1, <2>6, <2>7, <3>1, SendPortKept
  <2>8. CASE q = p
    <3>1. Armed(tx, p)' = {}  BY <2>6 DEF Armed, Entries
    <3>2. At(Main, {"send"}, p)' /\ At(Main, Sending, p)'  BY <1>1 DEF At, Sending
    <3>3. \A u \in Threads : ~At(u, {"disable"}, p)'
      BY <1>1, <2>2 DEF At, Sending
    <3>4. cfg'[p].boundary # "silent"  BY <1>2, <2>5
    <3> QED  BY <1>0, <2>8, <3>1, <3>2, <3>3, <3>4 DEF SendOK
  <2> QED  BY <2>7, <2>8
<1>5. PeerInv'
  <2>1. \A u \in Threads : Apart(u, {"got", "expired", "invalidate"})
    BY <1>0, <1>1 DEF Apart
  <2> QED  BY <1>1, <1>2, <2>1, PeerKept DEF IInv
<1>6. DiagInv'
  <2>1. \A u \in Threads : Apart(u, Checks \cup {"got", "indicate", "expired", "invalidate", "undiag"})
    BY <1>0, <1>1 DEF Apart, Checks
  <2> QED  BY <1>1, <1>2, <2>1, DiagKept DEF IInv
<1> QED  BY <1>1, <1>3, <1>4, <1>5, <1>6 DEF IInv

\* pf_lldp_trigger_sending() adds the timer again.
LEMMA SendAgainKeeps ==
  ASSUME IInv, SendAgain
  PROVE  IInv'
<1> DEFINE p == thread[Main].port
<1>0. Main \in Threads /\ p \in Ports /\ tx \in Pools /\ At(Main, {"add", "send"}, p)
  BY Numbers DEF IInv, Threaded, States, Typed, At, SendAgain
<1>1. /\ Threaded' /\ Met' /\ Grows /\ thread'[Main].at = "idle"
      /\ \A u \in Threads : u # Main => thread'[u] = thread[u]
  <2>1. Goes(Main, Idle)  BY DEF SendAgain
  <2> QED  BY <1>0, <2>1, IdleState, GoesShape DEF IInv
<1>2. tx' \in Added(tx, p) /\ UNCHANGED <<rx, peer, cfg, diag, link, monitor, ops>>
  BY DEF SendAgain
<1>3. Typed'
  <2>1. tx' \in Pools  BY <1>0, <1>2, AddedShape
  <2> QED  BY <1>2, <2>1 DEF IInv, Typed
<1>4. SendInv'
  <2>1. thread'[Main].at \notin Sending /\ cfg' = cfg  BY <1>1, <1>2 DEF Sending
  <2> QED  BY <1>0, <1>1, <1>2, <2>1, AddLeaves
<1>5. PeerInv'
  <2>1. \A u \in Threads : Apart(u, {"got", "expired", "invalidate"})
    BY <1>0, <1>1 DEF Apart, SendAgain
  <2> QED  BY <1>1, <1>2, <2>1, PeerKept DEF IInv
<1>6. DiagInv'
  <2>1. \A u \in Threads : Apart(u, Checks \cup {"got", "indicate", "expired", "invalidate", "undiag"})
    BY <1>0, <1>1 DEF Apart, SendAgain, Checks
  <2> QED  BY <1>1, <1>2, <2>1, DiagKept DEF IInv
<1> QED  BY <1>1, <1>3, <1>4, <1>5, <1>6 DEF IInv
-----------------------------------------------------------------------------
(* Resetting the ports.                                                        *)

\* pf_pdport_reset_all() resets a port before it takes back its diagnoses.
LEMMA ResetPortKeeps ==
  ASSUME IInv, NEW t \in Threads, ResetPort(t)
  PROVE  IInv'
<1>0. PICK p \in Ports : p = thread[t].port /\ thread[t].at = "reset"
  BY DEF IInv, Threaded, States, ResetPort
<1>1. /\ Threaded' /\ Met' /\ Grows
      /\ thread'[t].at = "undiag" /\ thread'[t].port = p
      /\ \A u \in Threads : u # t => thread'[u] = thread[u]
  BY <1>0, GoesToShape DEF IInv, ResetPort, PortAts, MainAts, CommonAts
<1>2. cfg' = [cfg EXCEPT ![p] = Blank] /\ UNCHANGED <<rx, tx, peer, diag, link, monitor, ops>>
  BY <1>0 DEF ResetPort
<1>3. /\ p \in DOMAIN cfg
      /\ cfg'[p].wanted = {} /\ cfg'[p].boundary = "none"
      /\ \A q \in Ports : q # p => cfg'[q] = cfg[q]
  BY <1>2 DEF IInv, Typed, Blank
<1>4. Typed'
  <2>1. Blank \in [wanted : AtMost(Wanted), boundary : {"none", "send", "silent"}, updated : BOOLEAN]
    BY DEF Blank, AtMost
  <2> QED  BY <1>2, <2>1 DEF IInv, Typed
<1>5. SendInv'
  <2>1. \A u \in Threads : Apart(u, Sending)  BY <1>0, <1>1 DEF Apart, Sending
  <2>2. \A q \in Ports : cfg'[q].boundary \in {cfg[q].boundary, "none"}  BY <1>3
  <2> QED  BY <1>1, <1>2, <2>1, <2>2, SendKept DEF IInv
<1>6. PeerInv'
  <2>1. \A u \in Threads : Apart(u, {"got", "expired", "invalidate"})
    BY <1>0, <1>1 DEF Apart
  <2> QED  BY <1>1, <1>2, <2>1, PeerKept DEF IInv
<1>7. DiagInv'
  <2> SUFFICES ASSUME NEW q \in Ports, "check" \notin crossed'[q]  PROVE DiagOK(q)'
    BY DEF DiagInv
  <2>1. DiagOK(q)  BY <1>1 DEF IInv, DiagInv, Grows
  <2>2. CASE q # p
    <3>1. CheckLoaded(q) => CheckLoaded(q)'
      <4>1. \A u \in Threads : Apart(u, {"got", "expired", "invalidate"})
        BY <1>0, <1>1 DEF Apart
      <4> QED  BY <1>2, <4>1, LoadedKept
    <3>2. ~At(t, Checks \cup {"undiag"}, q) /\ ~At(t, Checks \cup {"undiag"}, q)'
      BY <1>0, <1>1, <2>2 DEF At, Checks
    <3> QED  BY <1>0, <1>1, <1>2, <1>3, <2>1, <2>2, <3>1, <3>2, DiagOther
  <2>3. CASE q = p
    <3>1. At(t, {"undiag"}, p)'  BY <1>1 DEF At
    <3>2. ~At(Main, Checks, p)'
      <4>1. CASE t = Main  BY <1>1, <4>1 DEF At, Checks
      <4>2. CASE t # Main
        <5>1. t \in Ports  BY <4>2, Numbers
        <5> QED  BY <1>1, <2>3, <3>1, <5>1 DEF Met
      <4> QED  BY <4>1, <4>2
    <3> QED  BY <1>3, <2>3, <3>1, <3>2 DEF DiagOK
  <2> QED  BY <2>2, <2>3
<1> QED  BY <1>1, <1>4, <1>5, <1>6, <1>7 DEF IInv

\* What has been reported of the port goes.
LEMMA ResetDiagKeeps ==
  ASSUME IInv, NEW t \in Threads, ResetDiag(t)
  PROVE  IInv'
<1>0. PICK p \in Ports : p = thread[t].port /\ thread[t].at = "undiag"
  BY DEF IInv, Threaded, States, ResetDiag
<1>1. /\ Threaded' /\ Met' /\ Grows
      /\ thread'[t].at \in {"idle", "restart", "reset"}
      /\ \A u \in Threads : u # t => thread'[u] = thread[u]
  <2>1. "restart" \in CommonAts /\ "reset" \in CommonAts /\ Ports \in SUBSET Ports /\ Ports # {}
    BY Numbers DEF CommonAts
  <2>2. CASE thread[t].todo = {} /\ thread[t].restart
    <3>1. Visits(t, "restart", Ports)  BY <2>2 DEF ResetDiag
    <3> QED  BY <2>1, <3>1, VisitsShape DEF IInv
  <2>3. CASE ~ (thread[t].todo = {} /\ thread[t].restart)
    <3>1. NextPort(t, "reset")  BY <2>3 DEF ResetDiag
    <3> QED  BY <2>1, <3>1, NextPortShape DEF IInv
  <2> QED  BY <2>2, <2>3
<1>2. diag' = [diag EXCEPT ![p] = {}] /\ UNCHANGED <<rx, tx, peer, cfg, link, monitor, ops>>
  BY <1>0 DEF ResetDiag
<1>3. diag'[p] = {} /\ \A q \in Ports : q # p => diag'[q] = diag[q]
  BY <1>2 DEF IInv, Typed
<1>4. Typed'  BY <1>2 DEF IInv, Typed
<1>5. SendInv'
  <2>1. \A u \in Threads : Apart(u, Sending)  BY <1>0, <1>1 DEF Apart, Sending
  <2> QED  BY <1>1, <1>2, <2>1, SendKept DEF IInv
<1>6. PeerInv'
  <2>1. \A u \in Threads : Apart(u, {"got", "expired", "invalidate"})
    BY <1>0, <1>1 DEF Apart
  <2> QED  BY <1>1, <1>2, <2>1, PeerKept DEF IInv
<1>7. DiagInv'
  <2> SUFFICES ASSUME NEW q \in Ports, "check" \notin crossed'[q]  PROVE DiagOK(q)'
    BY DEF DiagInv
  <2>1. DiagOK(q)  BY <1>1 DEF IInv, DiagInv, Grows
  <2>2. CASE q # p
    <3>1. CheckLoaded(q) => CheckLoaded(q)'
      <4>1. \A u \in Threads : Apart(u, {"got", "expired", "invalidate"})
        BY <1>0, <1>1 DEF Apart
      <4> QED  BY <1>2, <4>1, LoadedKept
    <3>2. ~At(t, Checks \cup {"undiag"}, q) /\ ~At(t, Checks \cup {"undiag"}, q)'
      BY <1>0, <1>1, <2>2 DEF At, Checks
    <3> QED  BY <1>0, <1>1, <1>2, <1>3, <2>1, <2>2, <3>1, <3>2, DiagOther
  <2>3. CASE q = p
    <3>1. At(t, {"undiag"}, p)  BY <1>0 DEF At
    <3>2. cfg[p].wanted = {} /\ ~At(Main, Checks, p)  BY <2>1, <2>3, <3>1 DEF DiagOK
    <3>3. ~At(Main, Checks, p)'  BY <1>1, <3>2, Numbers DEF At, Checks
    <3> QED  BY <1>2, <1>3, <2>3, <3>2, <3>3 DEF DiagOK
  <2> QED  BY <2>2, <2>3
<1> QED  BY <1>1, <1>4, <1>5, <1>6, <1>7 DEF IInv
-----------------------------------------------------------------------------
(* The frames of a port.                                                       *)

\* As long as no two threads have met, every port has at most one timer.
LEMMA PeerOne ==
  ASSUME PeerInv, Never("peer")
  PROVE  OneEach(rx)
<1>1. \A p \in Ports : Own(rx, p) \/ Armed(rx, p) = {}
  BY DEF PeerInv, PeerOK
<1> DEFINE r == rx
<1>2. \A p \in Ports : Own(r, p) \/ Armed(r, p) = {}  BY <1>1
<1> HIDE DEF r
<1>3. OneEach(r)  BY <1>2, OwnOne
<1> QED  BY <1>3 DEF r

\* pf_lldp_restart_peer_timeout(): for what is believed for long no timer runs,
\* for anything else one does.
LEMMA PeerTimerRestarts ==
  ASSUME NEW r \in Pools, NEW p \in Ports, NEW long \in BOOLEAN, NEW s,
         Own(r, p), OneEach(r), s \in IF long THEN {Removed(r, p)} ELSE Added(Removed(r, p), p)
  PROVE  /\ Own(s, p) /\ (long \/ Armed(s, p) # {})
         /\ \A q \in Ports : q # p => Armed(s, q) = Armed(r, q) /\ s.handle[q] = r.handle[q]
<1> DEFINE m == Removed(r, p)
<1>1. /\ m \in Pools /\ Own(m, p) /\ Armed(m, p) = {}
      /\ \A q \in Ports \ {p} : m.handle[q] = r.handle[q] /\ Armed(m, q) = Armed(r, q)
  BY RemovedOwn
<1>2. s \in IF long THEN {m} ELSE Added(m, p)  OBVIOUS
<1> HIDE DEF m
<1>3. CASE long  BY <1>1, <1>2, <1>3
<1>4. CASE ~long
  <2>1. s \in Added(m, p)  BY <1>2, <1>4
  <2>2. OneEach(m)  BY <1>1 DEF OneEach
  <2> QED  BY <1>1, <2>1, <2>2, AddedOwn, AddedShape
<1> QED  BY <1>3, <1>4

\* A frame of one port leaves alone the timer that another port loaded.
LEMMA LoadedTimerStays ==
  ASSUME NEW r \in Pools, NEW p \in Ports, NEW long, NEW s, NEW q \in Ports, q # p,
         s \in IF long THEN {Removed(r, p)} ELSE Added(Removed(r, p), p),
         r.entry[q] = {q}, \A u \in Ports \ {q} : r.handle[u] # q
  PROVE  s \in Pools /\ s.entry[q] = {q} /\ \A u \in Ports \ {q} : s.handle[u] # q
<1> DEFINE m == Removed(r, p)
<1>0. q \in Entries /\ q # 0  BY Numbers
<1>1. m \in Pools /\ m.entry[q] = {q} /\ \A u \in Ports \ {q} : m.handle[u] # q
  <2>1. r.handle[p] # q  OBVIOUS
  <2>2. /\ m \in Pools /\ (\A u \in Ports \ {p} : m.handle[u] = r.handle[u])
        /\ \A i \in Entries : m.entry[i] = r.entry[i] \/ i = r.handle[p]
        /\ m.handle[p] \in {0, r.handle[p]}
    BY RemovedShape
  <2> HIDE DEF m
  <2>3. m.entry[q] = {q}  BY <1>0, <2>1, <2>2
  <2>4. \A u \in Ports \ {q} : m.handle[u] # q  BY <1>0, <2>1, <2>2
  <2> QED  BY <2>2, <2>3, <2>4
<1>2. s \in IF long THEN {m} ELSE Added(m, p)  OBVIOUS
<1> HIDE DEF m
<1>3. CASE long  BY <1>1, <1>2, <1>3
<1>4. CASE ~long
  <2>1. s \in Added(m, p)  BY <1>2, <1>4
  <2>2. /\ s \in Pools /\ (\A u \in Ports \ {p} : s.handle[u] = m.handle[u])
        /\ \A i \in Entries : m.entry[i] # {} => s.entry[i] = m.entry[i]
        /\ s.handle[p] # 0 => m.entry[s.handle[p]] = {}
    BY <1>1, <2>1, AddedShape
  <2>3. s.handle[p] # q  BY <1>0, <1>1, <2>2
  <2>4. \A u \in Ports \ {q} : s.handle[u] # q  BY <1>1, <2>2, <2>3
  <2> QED  BY <1>0, <1>1, <2>2, <2>4
<1> QED  BY <1>3, <1>4

\* An LLDP frame: the timer is restarted before the peer is stored.
LEMMA LldpFrameKeeps ==
  ASSUME IInv, NEW p \in Ports, NEW info \in Infos, LldpFrame(p, info)
  PROVE  IInv'
<1>0. /\ p \in Threads /\ p # Main /\ thread[p].at = "idle" /\ rx \in Pools
      /\ info.long \in BOOLEAN
  BY Numbers, NeighboursAssumption DEF IInv, Typed, LldpFrame
<1>1. /\ Threaded' /\ Met' /\ Grows
      /\ thread'[p].at = "got" /\ thread'[p].info = {info}
      /\ \A u \in Threads : u # p => thread'[u] = thread[u]
  <2> DEFINE s == [Idle EXCEPT !.at = "got", !.port = p, !.info = {info}]
  <2>1. Idle \in States /\ {info} \in AtMost(Infos) /\ "got" \in PortAts
    BY <1>0, IdleState DEF StateOf, AtMost, PortAts
  <2>2. s \in States /\ s.at = "got" /\ s.port = p /\ s.info = {info}
    BY <2>1 DEF States
  <2>3. Goes(p, s)  BY DEF LldpFrame
  <2> HIDE DEF s
  <2>4. StateOf(p, s)  BY <1>0, <2>1, <2>2 DEF StateOf
  <2> QED  BY <1>0, <2>2, <2>3, <2>4, GoesShape DEF IInv
<1>2. /\ rx' \in IF info.long THEN {Removed(rx, p)} ELSE Added(Removed(rx, p), p)
      /\ UNCHANGED <<tx, peer, cfg, diag, link, monitor, ops>>
  BY DEF LldpFrame
<1>3. Typed'
  <2>1. Removed(rx, p) \in Pools  BY <1>0, RemovedShape
  <2>2. rx' \in Pools
    <3> DEFINE m == Removed(rx, p)
    <3>1. m \in Pools /\ rx' \in IF info.long THEN {m} ELSE Added(m, p)  BY <1>2, <2>1
    <3> HIDE DEF m
    <3> QED  BY <3>1, AddedShape
  <2> QED  BY <1>2, <2>2 DEF IInv, Typed
<1>4. SendInv'
  <2>1. \A u \in Threads : Apart(u, Sending)  BY <1>0, <1>1 DEF Apart, Sending
  <2> QED  BY <1>1, <1>2, <2>1, SendKept DEF IInv
<1>5. PeerInv'
  <2> SUFFICES ASSUME Never("peer")', NEW q \in Ports  PROVE PeerOK(q)'
    BY DEF PeerInv
  <2>0. Never("peer")  BY <1>1 DEF Never, Grows
  <2>1. PeerOK(q) /\ PeerOK(p) /\ OneEach(rx)  BY <2>0, PeerOne DEF IInv, PeerInv
  <2>2. ~At(Main, {"expired", "invalidate"}, p) /\ thread'[Main] = thread[Main]
    <3>1. ~At(Main, {"expired", "invalidate"}, p)'  BY <1>1 DEF Met, Never
    <3> QED  BY <1>0, <1>1, <3>1, Numbers DEF At
  <2>3. Own(rx, p)  BY <2>1, <2>2 DEF PeerOK, At
  <2>4. /\ Own(rx', p) /\ (info.long \/ Armed(rx', p) # {})
        /\ \A r \in Ports : r # p => Armed(rx', r) = Armed(rx, r) /\ rx'.handle[r] = rx.handle[r]
    BY <1>0, <1>2, <2>1, <2>3, PeerTimerRestarts
  <2>5. CASE q # p
    <3>1. Apart(q, {"got"})  BY <1>1, <2>5, Numbers DEF Apart
    <3> QED  BY <1>2, <2>1, <2>2, <2>4, <2>5, <3>1, PeerPortKept
  <2>6. CASE q = p
    <3>1. Own(rx, p)' /\ Armed(rx, p)' = Armed(rx', p)
      BY <2>4 DEF Own, Armed, Entries
    <3>2. ~At(Main, {"expired"}, p)'  BY <2>2 DEF At
    <3> QED  BY <1>1, <2>4, <2>6, <3>1, <3>2 DEF PeerOK
  <2> QED  BY <2>5, <2>6
<1>6. DiagInv'
  <2> SUFFICES ASSUME NEW q \in Ports, "check" \notin crossed'[q]  PROVE DiagOK(q)'
    BY DEF DiagInv
  <2>1. DiagOK(q)  BY <1>1 DEF IInv, DiagInv, Grows
  <2>2. ASSUME CheckLoaded(q)  PROVE CheckLoaded(q)'
    <3>1. CASE q = p  BY <1>1, <1>2, <2>2, <3>1 DEF CheckLoaded
    <3>2. CASE q # p
      <4>1. thread'[Main] = thread[Main] /\ thread'[q] = thread[q]
        BY <1>0, <1>1, <3>2, Numbers
      <4>2. rx.entry[q] = {q} /\ (\A u \in Ports \ {q} : rx.handle[u] # q)
              => rx'.entry[q] = {q} /\ (\A u \in Ports \ {q} : rx'.handle[u] # q)
        BY <1>0, <1>2, <3>2, LoadedTimerStays
      <4> QED  BY <1>2, <2>2, <4>1, <4>2 DEF CheckLoaded, At
    <3> QED  BY <3>1, <3>2
  <2>3. ~At(p, Checks \cup {"undiag"}, q) /\ ~At(p, Checks \cup {"undiag"}, q)'
    BY <1>0, <1>1 DEF At, Checks
  <2> QED  BY <1>0, <1>1, <1>2, <2>1, <2>2, <2>3, DiagOther
<1> QED  BY <1>1, <1>3, <1>4, <1>5, <1>6 DEF IInv

\* The frame's information is stored.
LEMMA StorePeerKeeps ==
  ASSUME IInv, NEW p \in Ports, StorePeer(p)
  PROVE  IInv'
<1>0. /\ p \in Threads /\ p # Main /\ thread[p].at = "got" /\ thread[p].port = p
      /\ thread[p].info \in AtMost(Infos) /\ thread[p].info # {}
  BY Numbers DEF IInv, Threaded, States, StateOf, StorePeer
<1>1. /\ Threaded' /\ Met' /\ Grows
      /\ thread'[p].at \in {"idle", "indicate"} /\ (thread'[p].at = "idle" => peer[p] = thread[p].info)
      /\ \A u \in Threads : u # p => thread'[u] = thread[u]
  <2>1. CASE peer[p] = thread[p].info
    <3>1. Goes(p, Idle)  BY <2>1 DEF StorePeer
    <3> QED  BY <1>0, <2>1, <3>1, IdleState, GoesShape DEF IInv
  <2>2. CASE peer[p] # thread[p].info
    <3>1. GoesTo(p, "indicate")  BY <2>2 DEF StorePeer
    <3> QED  BY <1>0, <3>1, GoesToShape DEF IInv, PortAts
  <2> QED  BY <2>1, <2>2
<1>2. /\ UNCHANGED <<rx, tx, cfg, diag, link, monitor, ops>>
      /\ peer' = [peer EXCEPT ![p] = thread[p].info] \/ (peer' = peer /\ peer[p] = thread[p].info)
  BY DEF StorePeer
<1>3. /\ peer' \in [Ports -> AtMost(Infos)] /\ peer'[p] = thread[p].info
      /\ \A q \in Ports : q # p => peer'[q] = peer[q]
  <2>1. peer \in [Ports -> AtMost(Infos)]  BY DEF IInv, Typed
  <2> QED  BY <1>0, <1>2, <2>1
<1>4. Typed'  BY <1>2, <1>3 DEF IInv, Typed
<1>5. SendInv'
  <2>1. \A u \in Threads : Apart(u, Sending)  BY <1>0, <1>1 DEF Apart, Sending
  <2> QED  BY <1>1, <1>2, <2>1, SendKept DEF IInv
<1>6. PeerInv'
  <2> SUFFICES ASSUME Never("peer")', NEW q \in Ports  PROVE PeerOK(q)'
    BY DEF PeerInv
  <2>1. PeerOK(q)  BY <1>1 DEF IInv, PeerInv, Never, Grows
  <2>2. thread'[Main] = thread[Main]  BY <1>0, <1>1, Numbers
  <2>3. CASE q # p
    <3>1. Apart(q, {"got"})  BY <1>1, <2>3, Numbers DEF Apart
    <3> QED  BY <1>2, <1>3, <2>1, <2>2, <2>3, <3>1, PeerPortKept
  <2>4. CASE q = p
    <3>1. Own(rx, p)' = Own(rx, p) /\ Armed(rx, p)' = Armed(rx, p)
      BY <1>2 DEF Own, Armed, Entries
    <3>2. At(Main, {"expired"}, p)' <=> At(Main, {"expired"}, p)  BY <2>2 DEF At
    <3> QED  BY <1>0, <1>1, <1>3, <2>1, <2>4, <3>1, <3>2 DEF PeerOK
  <2> QED  BY <2>3, <2>4
<1>7. DiagInv'
  <2> SUFFICES ASSUME NEW q \in Ports, "check" \notin crossed'[q]  PROVE DiagOK(q)'
    BY DEF DiagInv
  <2>1. DiagOK(q)  BY <1>1 DEF IInv, DiagInv, Grows
  <2>2. thread'[Main] = thread[Main]  BY <1>0, <1>1, Numbers
  <2>3. CASE q # p \/ thread'[p].at = "idle"
    <3>1. peer'[q] = peer[q]  BY <1>1, <1>3, <2>3
    <3>2. ASSUME CheckLoaded(q)  PROVE CheckLoaded(q)'
      <4>1. q # p  BY <1>0, <1>1, <2>3, <3>2 DEF CheckLoaded
      <4>2. thread'[q] = thread[q]  BY <1>1, <4>1, Numbers
      <4> QED  BY <1>2, <2>2, <3>1, <3>2, <4>2 DEF CheckLoaded, At
    <3>3. ~At(p, Checks \cup {"undiag"}, q) /\ ~At(p, Checks \cup {"undiag"}, q)'
      BY <1>0, <1>1 DEF At, Checks
    <3> QED  BY <1>0, <1>1, <1>2, <2>1, <3>1, <3>2, <3>3, DiagOther
  <2>4. CASE q = p /\ thread'[p].at = "indicate"
    <3>1. At(Main, Checks, p)' <=> At(Main, Checks, p)  BY <2>2 DEF At
    <3>2. \A u \in Threads : At(u, {"undiag"}, p)' <=> At(u, {"undiag"}, p)
      BY <1>0, <1>1 DEF At
    <3> QED  BY <1>2, <2>1, <2>4, <3>1, <3>2 DEF DiagOK
  <2> QED  BY <1>1, <2>3, <2>4
<1> QED  BY <1>1, <1>4, <1>5, <1>6, <1>7 DEF IInv

\* What an indication makes of the port.
LEMMA IndicatedShape ==
  ASSUME Typed, NEW p \in Ports, cfg' = Indicated(p)
  PROVE  /\ cfg' \in [Ports -> [wanted : AtMost(Wanted), boundary : {"none", "send", "silent"},
                                updated : BOOLEAN]]
         /\ cfg'[p].updated /\ \A q \in Ports : q # p => cfg'[q] = cfg[q]
         /\ \A q \in Ports : cfg'[q].wanted = cfg[q].wanted /\ cfg'[q].boundary = cfg[q].boundary
BY DEF Typed, Indicated

\* pf_pdport_peer_indication()
LEMMA IndicatePeerKeeps ==
  ASSUME IInv, NEW p \in Ports, IndicatePeer(p)
  PROVE  IInv'
<1>0. p \in Threads /\ p # Main /\ thread[p].at = "indicate"
  BY Numbers DEF IndicatePeer
<1>1. /\ Threaded' /\ Met' /\ Grows /\ thread'[p].at = "idle"
      /\ \A u \in Threads : u # p => thread'[u] = thread[u]
  <2>1. Goes(p, Idle)  BY DEF IndicatePeer
  <2> QED  BY <1>0, <2>1, IdleState, GoesShape DEF IInv
<1>2. cfg' = Indicated(p) /\ UNCHANGED <<rx, tx, peer, diag, link, monitor, ops>>
  BY DEF IndicatePeer
<1>3. /\ cfg' \in [Ports -> [wanted : AtMost(Wanted), boundary : {"none", "send", "silent"},
                             updated : BOOLEAN]]
      /\ cfg'[p].updated /\ \A q \in Ports : q # p => cfg'[q] = cfg[q]
      /\ \A q \in Ports : cfg'[q].wanted = cfg[q].wanted /\ cfg'[q].boundary = cfg[q].boundary
  BY <1>2, IndicatedShape DEF IInv
<1>4. Typed'  BY <1>2, <1>3 DEF IInv, Typed
<1>5. SendInv'
  <2>1. \A u \in Threads : Apart(u, Sending)  BY <1>0, <1>1 DEF Apart, Sending
  <2> QED  BY <1>1, <1>2, <1>3, <2>1, SendKept DEF IInv
<1>6. PeerInv'
  <2>1. \A u \in Threads : Apart(u, {"got", "expired", "invalidate"})
    BY <1>0, <1>1 DEF Apart
  <2> QED  BY <1>1, <1>2, <2>1, PeerKept DEF IInv
<1>7. DiagInv'
  <2> SUFFICES ASSUME NEW q \in Ports, "check" \notin crossed'[q]  PROVE DiagOK(q)'
    BY DEF DiagInv
  <2>1. DiagOK(q)  BY <1>1 DEF IInv, DiagInv, Grows
  <2>2. thread'[Main] = thread[Main]  BY <1>0, <1>1, Numbers
  <2>3. CASE q # p
    <3>1. CheckLoaded(q) => CheckLoaded(q)'
      <4>1. \A u \in Threads : Apart(u, {"got", "expired", "invalidate"})
        BY <1>0, <1>1 DEF Apart
      <4> QED  BY <1>2, <4>1, LoadedKept
    <3>2. ~At(p, Checks \cup {"undiag"}, q) /\ ~At(p, Checks \cup {"undiag"}, q)'
      BY <1>0, <1>1 DEF At, Checks
    <3> QED  BY <1>0, <1>1, <1>2, <1>3, <2>1, <2>3, <3>1, <3>2, DiagOther
  <2>4. CASE q = p
    <3>1. At(Main, Checks, p)' <=> At(Main, Checks, p)  BY <2>2 DEF At
    <3>2. \A u \in Threads : At(u, {"undiag"}, p)' <=> At(u, {"undiag"}, p)
      BY <1>0, <1>1 DEF At
    <3> QED  BY <1>2, <1>3, <2>1, <2>4, <3>1, <3>2 DEF DiagOK
  <2> QED  BY <2>3, <2>4
<1> QED  BY <1>1, <1>4, <1>5, <1>6, <1>7 DEF IInv

\* A round that begins changes nothing yet.
LEMMA RoundKeeps ==
  ASSUME IInv, NEW t \in Threads, thread[t].at = "idle", NEW s \in States,
         s.at \in {"restart", "reset"}, Goes(t, s),
         UNCHANGED <<rx, tx, peer, cfg, diag, link, monitor>>
  PROVE  IInv'
<1>1. /\ Threaded' /\ Met' /\ Grows /\ thread'[t].at \in {"restart", "reset"}
      /\ \A u \in Threads : u # t => thread'[u] = thread[u]
  <2>1. s.at \in CommonAts  BY DEF CommonAts
  <2> QED  BY <2>1, RoundBegins DEF IInv
<1>2. Typed'  BY DEF IInv, Typed
<1>3. SendInv'
  <2>1. \A u \in Threads : Apart(u, Sending)  BY <1>1 DEF Apart, Sending
  <2> QED  BY <1>1, <2>1, SendKept DEF IInv
<1>4. PeerInv'
  <2>1. \A u \in Threads : Apart(u, {"got", "expired", "invalidate"})  BY <1>1 DEF Apart
  <2> QED  BY <1>1, <2>1, PeerKept DEF IInv
<1>5. DiagInv'
  <2>1. \A u \in Threads : Apart(u, Checks \cup {"got", "indicate", "expired", "invalidate", "undiag"})
    BY <1>1 DEF Apart, Checks
  <2> QED  BY <1>1, <2>1, DiagKept DEF IInv
<1> QED  BY <1>1, <1>2, <1>3, <1>4, <1>5 DEF IInv

\* DCP frames, Connects and PDInterfaceAdjust records begin a round.
LEMMA RoundsKeep ==
  ASSUME IInv
  PROVE  /\ \A p \in Ports : \A reset \in BOOLEAN : DcpFrame(p, reset) => IInv'
         /\ \A accepted \in BOOLEAN : Connect(accepted) => IInv'
         /\ WriteInterface => IInv'
<1>0. \A t \in Threads : Idle \in States  BY IdleState DEF StateOf
<1>1. ASSUME NEW p \in Ports, NEW reset \in BOOLEAN, DcpFrame(p, reset)  PROVE IInv'
  <2> DEFINE s == [Idle EXCEPT !.at = IF reset THEN "reset" ELSE "restart",
                               !.todo = Ports \ {1}, !.restart = TRUE]
  <2>1. p \in Threads  BY Numbers
  <2>2. s \in States /\ s.at \in {"restart", "reset"}
    BY <1>0, <2>1 DEF States, PortAts, CommonAts
  <2>3. /\ Goes(p, s) /\ thread[p].at = "idle"
        /\ UNCHANGED <<rx, tx, peer, cfg, diag, link, monitor>>
    BY <1>1 DEF DcpFrame
  <2> HIDE DEF s
  <2> QED  BY <2>1, <2>2, <2>3, RoundKeeps
<1>2. ASSUME NEW accepted \in BOOLEAN, Connect(accepted)  PROVE IInv'
  <2> DEFINE s == [Idle EXCEPT !.at = "reset", !.todo = Ports \ {1}, !.restart = accepted]
  <2>1. Main \in Threads  BY Numbers
  <2>2. s \in States /\ s.at \in {"restart", "reset"}
    BY <1>0, <2>1 DEF States, PortAts, CommonAts
  <2>3. /\ Goes(Main, s) /\ thread[Main].at = "idle"
        /\ UNCHANGED <<rx, tx, peer, cfg, diag, link, monitor>>
    BY <1>2 DEF Connect, Record, MainFree
  <2> HIDE DEF s
  <2> QED  BY <2>1, <2>2, <2>3, RoundKeeps
<1>3. ASSUME WriteInterface  PROVE IInv'
  <2> DEFINE s == [Idle EXCEPT !.at = "restart", !.todo = Ports \ {1}]
  <2>1. Main \in Threads  BY Numbers
  <2>2. s \in States /\ s.at \in {"restart", "reset"}
    BY <1>0, <2>1 DEF States, PortAts, CommonAts
  <2>3. /\ Goes(Main, s) /\ thread[Main].at = "idle"
        /\ UNCHANGED <<rx, tx, peer, cfg, diag, link, monitor>>
    BY <1>3 DEF WriteInterface, Record, MainFree
  <2> HIDE DEF s
  <2> QED  BY <2>1, <2>2, <2>3, RoundKeeps
<1> QED  BY <1>1, <1>2, <1>3
-----------------------------------------------------------------------------
(* The end of the belief in a peer.                                            *)

\* pf_lldp_receive_timeout() begins when its entry is free again.
LEMMA PeerTimeoutKeeps ==
  ASSUME IInv, NEW p \in Ports, NEW i \in Entries, PeerTimeout(p, i)
  PROVE  IInv'
<1>0. Main \in Threads /\ rx \in Pools /\ rx.entry[i] = {p} /\ thread[Main].at = "idle"
  BY Numbers DEF IInv, Typed, PeerTimeout, MainFree
<1>1. /\ Threaded' /\ Met' /\ Grows
      /\ thread'[Main].at = "expired" /\ thread'[Main].port = p
      /\ \A u \in Threads : u # Main => thread'[u] = thread[u]
  <2>1. "expired" \in MainAts /\ MainDoes("expired", p)  BY DEF MainAts, PeerTimeout
  <2> QED  BY <2>1, MainBegins DEF IInv
<1>2. rx' = Expired(rx, i) /\ UNCHANGED <<tx, peer, cfg, diag, link, monitor, ops>>
  BY DEF PeerTimeout
<1>3. /\ rx' \in Pools /\ rx'.handle = rx.handle
      /\ \A j \in Entries \ {i} : rx'.entry[j] = rx.entry[j]
      /\ \A q \in Ports \ {p} : Armed(rx', q) = Armed(rx, q)
      /\ Own(rx, p) => Armed(rx', p) = {}
  BY <1>0, <1>2, ExpiredShape
<1>4. Typed'  BY <1>2, <1>3 DEF IInv, Typed
<1>5. SendInv'
  <2>1. \A u \in Threads : Apart(u, Sending)  BY <1>0, <1>1 DEF Apart, Sending
  <2> QED  BY <1>1, <1>2, <2>1, SendKept DEF IInv
<1>6. PeerInv'
  <2> SUFFICES ASSUME Never("peer")', NEW q \in Ports  PROVE PeerOK(q)'
    BY DEF PeerInv
  <2>1. PeerOK(q)  BY <1>1 DEF IInv, PeerInv, Never, Grows
  <2>2. thread'[q] = thread[q]  BY <1>1, Numbers
  <2>3. CASE q # p
    <3>1. ~At(Main, {"expired", "invalidate"}, q) /\ ~At(Main, {"expired", "invalidate"}, q)'
      BY <1>0, <1>1, <2>3 DEF At
    <3>2. Apart(q, {"got"})  BY <2>2 DEF Apart
    <3> QED  BY <1>2, <1>3, <2>1, <2>3, <3>1, <3>2, PeerPortKept
  <2>4. CASE q = p
    <3>1. At(Main, {"expired", "invalidate"}, p)' /\ At(Main, {"expired"}, p)'  BY <1>1 DEF At
    <3>2. thread'[p].at # "got"  BY <1>1, <2>4, <3>1 DEF Met, Never
    <3>3. Own(rx, p)
      <4>1. ~At(Main, {"expired"}, p)  BY <1>0 DEF At
      <4> QED  BY <2>1, <2>4, <4>1 DEF PeerOK
    <3>4. Armed(rx, p)' = {}  BY <1>3, <3>3 DEF Armed, Entries
    <3> QED  BY <2>4, <3>1, <3>2, <3>4 DEF PeerOK
  <2> QED  BY <2>3, <2>4
<1>7. DiagInv'
  <2> SUFFICES ASSUME NEW q \in Ports, "check" \notin crossed'[q]  PROVE DiagOK(q)'
    BY DEF DiagInv
  <2>1. DiagOK(q)  BY <1>1 DEF IInv, DiagInv, Grows
  <2>2. ASSUME CheckLoaded(q)  PROVE CheckLoaded(q)'
    <3>1. CASE q = p  BY <1>1, <1>2, <2>2, <3>1 DEF CheckLoaded, At
    <3>2. CASE q # p
      <4>1. ~At(Main, {"expired", "invalidate"}, q)  BY <1>0 DEF At
      <4>2. thread'[q] = thread[q] /\ q \in Entries  BY <1>1, Numbers
      <4>3. rx.entry[q] = {q} => rx'.entry[q] = {q}  BY <1>0, <1>3, <3>2, <4>2
      <4> QED  BY <1>2, <1>3, <2>2, <4>1, <4>2, <4>3 DEF CheckLoaded
    <3> QED  BY <3>1, <3>2
  <2>3. ~At(Main, Checks \cup {"undiag"}, q) /\ ~At(Main, Checks \cup {"undiag"}, q)'
    BY <1>0, <1>1 DEF At, Checks
  <2> QED  BY <1>0, <1>1, <1>2, <2>1, <2>2, <2>3, Numbers, DiagOther
<1> QED  BY <1>1, <1>4, <1>5, <1>6, <1>7 DEF IInv

\* The handle is reset after the entry.
LEMMA ResetHandleKeeps ==
  ASSUME IInv, ResetHandle
  PROVE  IInv'
<1>0. PICK p \in Ports : p = thread[Main].port
  BY Numbers DEF IInv, Threaded, States
<1>1. Main \in Threads /\ rx \in Pools /\ thread[Main].at = "expired"
  BY Numbers DEF IInv, Typed, ResetHandle
<1>2. /\ Threaded' /\ Met' /\ Grows
      /\ thread'[Main].at = "invalidate" /\ thread'[Main].port = p
      /\ \A u \in Threads : u # Main => thread'[u] = thread[u]
  <2>1. "invalidate" \in MainAts /\ GoesTo(Main, "invalidate")  BY DEF MainAts, ResetHandle
  <2> QED  BY <1>0, <1>1, <2>1, GoesToShape DEF IInv
<1>3. rx' = [rx EXCEPT !.handle[p] = 0] /\ UNCHANGED <<tx, peer, cfg, diag, link, monitor, ops>>
  BY <1>0 DEF ResetHandle
<1>4. /\ rx' \in Pools /\ rx'.entry = rx.entry /\ rx'.handle[p] = 0
      /\ \A q \in Ports : q # p => rx'.handle[q] = rx.handle[q]
  <2>1. rx.handle \in [Ports -> 0 .. MaxTimers] /\ 0 \in 0 .. MaxTimers  BY <1>1, Numbers DEF Pools
  <2> QED  BY <1>1, <1>3, <2>1 DEF Pools
<1>5. \A q \in Ports : Armed(rx', q) = Armed(rx, q)  BY <1>4 DEF Armed
<1>6. Typed'  BY <1>3, <1>4 DEF IInv, Typed
<1>7. SendInv'
  <2>1. \A u \in Threads : Apart(u, Sending)  BY <1>1, <1>2 DEF Apart, Sending
  <2> QED  BY <1>2, <1>3, <2>1, SendKept DEF IInv
<1>8. PeerInv'
  <2> SUFFICES ASSUME Never("peer")', NEW q \in Ports  PROVE PeerOK(q)'
    BY DEF PeerInv
  <2>1. PeerOK(q)  BY <1>2 DEF IInv, PeerInv, Never, Grows
  <2>2. thread'[q] = thread[q]  BY <1>2, Numbers
  <2>3. CASE q # p
    <3>1. ~At(Main, {"expired", "invalidate"}, q) /\ ~At(Main, {"expired", "invalidate"}, q)'
      BY <1>0, <1>2, <2>3 DEF At
    <3>2. Apart(q, {"got"})  BY <2>2 DEF Apart
    <3> QED  BY <1>3, <1>4, <1>5, <2>1, <2>3, <3>1, <3>2, PeerPortKept
  <2>4. CASE q = p
    <3>1. At(Main, {"expired", "invalidate"}, p)' /\ ~At(Main, {"expired"}, p)'
          /\ At(Main, {"expired"}, p)
      BY <1>0, <1>1, <1>2 DEF At
    <3>2. thread'[p].at # "got"  BY <2>4, <3>1, <1>2 DEF Met, Never
    <3>3. Armed(rx, p) = {}  BY <2>1, <2>4, <3>1 DEF PeerOK
    <3>4. Own(rx, p)'  BY <1>4, <1>5, <3>3 DEF Own, Armed, Entries
    <3> QED  BY <2>4, <3>1, <3>2, <3>4 DEF PeerOK
  <2> QED  BY <2>3, <2>4
<1>9. DiagInv'
  <2> SUFFICES ASSUME NEW q \in Ports, "check" \notin crossed'[q]  PROVE DiagOK(q)'
    BY DEF DiagInv
  <2>1. DiagOK(q)  BY <1>2 DEF IInv, DiagInv, Grows
  <2>2. ASSUME CheckLoaded(q)  PROVE CheckLoaded(q)'
    <3>1. CASE q = p  BY <1>2, <1>3, <2>2, <3>1 DEF CheckLoaded, At
    <3>2. CASE q # p
      <4>1. ~At(Main, {"expired", "invalidate"}, q)  BY <1>0, <3>2 DEF At
      <4>2. thread'[q] = thread[q]  BY <1>2, Numbers
      <4>3. \A u \in Ports \ {q} : rx.handle[u] # q => rx'.handle[u] # q
        BY <1>4, Numbers
      <4> QED  BY <1>3, <1>4, <2>2, <4>1, <4>2, <4>3 DEF CheckLoaded
    <3> QED  BY <3>1, <3>2
  <2>3. ~At(Main, Checks \cup {"undiag"}, q) /\ ~At(Main, Checks \cup {"undiag"}, q)'
    BY <1>1, <1>2 DEF At, Checks
  <2> QED  BY <1>1, <1>2, <1>3, <2>1, <2>2, <2>3, Numbers, DiagOther
<1> QED  BY <1>2, <1>6, <1>7, <1>8, <1>9 DEF IInv

\* pf_lldp_invalidate_peer_info()
LEMMA InvalidatePeerKeeps ==
  ASSUME IInv, InvalidatePeer
  PROVE  IInv'
<1>0. PICK p \in Ports : p = thread[Main].port
  BY Numbers DEF IInv, Threaded, States
<1>1. Main \in Threads /\ thread[Main].at = "invalidate"
  BY Numbers DEF InvalidatePeer
<1>2. /\ Threaded' /\ Met' /\ Grows /\ thread'[Main].at = "idle"
      /\ \A u \in Threads : u # Main => thread'[u] = thread[u]
  <2>1. Goes(Main, Idle)  BY DEF InvalidatePeer
  <2> QED  BY <1>1, <2>1, IdleState, GoesShape DEF IInv
<1>3. /\ peer' = [peer EXCEPT ![p] = {}] /\ cfg' = Indicated(p)
      /\ UNCHANGED <<rx, tx, diag, link, monitor, ops>>
  BY <1>0 DEF InvalidatePeer
<1>4. /\ cfg' \in [Ports -> [wanted : AtMost(Wanted), boundary : {"none", "send", "silent"},
                             updated : BOOLEAN]]
      /\ cfg'[p].updated /\ \A q \in Ports : q # p => cfg'[q] = cfg[q]
      /\ \A q \in Ports : cfg'[q].wanted = cfg[q].wanted /\ cfg'[q].boundary = cfg[q].boundary
  BY <1>3, IndicatedShape DEF IInv
<1>5. /\ peer' \in [Ports -> AtMost(Infos)] /\ peer'[p] = {}
      /\ \A q \in Ports : q # p => peer'[q] = peer[q]
  BY <1>3 DEF IInv, Typed, AtMost
<1>6. Typed'  BY <1>3, <1>4, <1>5 DEF IInv, Typed
<1>7. SendInv'
  <2>1. \A u \in Threads : Apart(u, Sending)  BY <1>1, <1>2 DEF Apart, Sending
  <2> QED  BY <1>2, <1>3, <1>4, <2>1, SendKept DEF IInv
<1>8. PeerInv'
  <2> SUFFICES ASSUME Never("peer")', NEW q \in Ports  PROVE PeerOK(q)'
    BY DEF PeerInv
  <2>0. Never("peer")  BY <1>2 DEF Never, Grows
  <2>1. PeerOK(q)  BY <2>0 DEF IInv, PeerInv
  <2>2. thread'[q] = thread[q]  BY <1>2, Numbers
  <2>3. CASE q # p
    <3>1. ~At(Main, {"expired", "invalidate"}, q) /\ ~At(Main, {"expired", "invalidate"}, q)'
      BY <1>0, <1>2, <2>3 DEF At
    <3>2. Apart(q, {"got"})  BY <2>2 DEF Apart
    <3> QED  BY <1>3, <1>5, <2>1, <2>3, <3>1, <3>2, PeerPortKept
  <2>4. CASE q = p
    <3>1. At(Main, {"expired", "invalidate"}, p) /\ ~At(Main, {"expired"}, p) /\ ~At(Main, {"expired"}, p)'
      BY <1>0, <1>1, <1>2 DEF At
    <3>2. thread[p].at # "got"  BY <2>0, <3>1 DEF IInv, Met, Never
    <3>3. Own(rx, p)  BY <2>1, <2>4, <3>1 DEF PeerOK
    <3>4. Own(rx, p)'  BY <1>3, <3>3 DEF Own, Armed, Entries
    <3> QED  BY <1>5, <2>2, <2>4, <3>1, <3>2, <3>4 DEF PeerOK
  <2> QED  BY <2>3, <2>4
<1>9. DiagInv'
  <2> SUFFICES ASSUME NEW q \in Ports, "check" \notin crossed'[q]  PROVE DiagOK(q)'
    BY DEF DiagInv
  <2>1. DiagOK(q)  BY <1>2 DEF IInv, DiagInv, Grows
  <2>2. ~At(Main, Checks \cup {"undiag"}, q) /\ ~At(Main, Checks \cup {"undiag"}, q)'
    BY <1>1, <1>2 DEF At, Checks
  <2>3. CASE q # p
    <3>1. ASSUME CheckLoaded(q)  PROVE CheckLoaded(q)'
      <4>1. ~At(Main, {"expired", "invalidate"}, q)  BY <1>0, <2>3 DEF At
      <4>2. thread'[q] = thread[q]  BY <1>2, Numbers
      <4> QED  BY <1>3, <1>5, <2>3, <3>1, <4>1, <4>2 DEF CheckLoaded
    <3>2. /\ cfg'[q].wanted = cfg[q].wanted /\ (cfg[q].updated => cfg'[q].updated)
          /\ peer'[q] = peer[q] /\ diag'[q] = diag[q] /\ Main # q
      BY <1>3, <1>4, <1>5, <2>3, Numbers
    <3> QED  BY <1>1, <1>2, <2>1, <2>2, <3>1, <3>2, DiagOther
  <2>4. CASE q = p
    <3>1. ~At(Main, Checks, p)'  BY <2>2, <2>4 DEF At
    <3>2. \A u \in Threads : At(u, {"undiag"}, p)' <=> At(u, {"undiag"}, p)
      BY <1>1, <1>2 DEF At
    <3> QED  BY <1>3, <1>4, <2>1, <2>4, <3>1, <3>2 DEF DiagOK
  <2> QED  BY <2>3, <2>4
<1> QED  BY <1>2, <1>6, <1>7, <1>8, <1>9 DEF IInv

\* pf_lldp_trigger_linkmonitor() of a port that has lost its link.
LEMMA LinkLostKeeps ==
  ASSUME IInv, NEW p \in Ports, thread[Main].at = "idle", rx' = Removed(rx, p),
         MainDoes("invalidate", p), monitor' \in Ports, UNCHANGED <<tx, peer, cfg, diag, ops>>
  PROVE  IInv'
<1>0. Main \in Threads /\ rx \in Pools
  BY Numbers DEF IInv, Typed
<1>1. /\ Threaded' /\ Met' /\ Grows
      /\ thread'[Main].at = "invalidate" /\ thread'[Main].port = p
      /\ \A u \in Threads : u # Main => thread'[u] = thread[u]
  <2>1. "invalidate" \in MainAts  BY DEF MainAts
  <2> QED  BY <2>1, MainBegins DEF IInv
<1>2. Typed'
  <2>1. rx' \in Pools  BY <1>0, RemovedShape
  <2> QED  BY <2>1 DEF IInv, Typed
<1>3. SendInv'
  <2>1. \A u \in Threads : Apart(u, Sending)  BY <1>1 DEF Apart, Sending
  <2> QED  BY <1>1, <2>1, SendKept DEF IInv
<1>4. PeerInv'
  <2> SUFFICES ASSUME Never("peer")', NEW q \in Ports  PROVE PeerOK(q)'
    BY DEF PeerInv
  <2>1. PeerOK(q) /\ PeerOK(p)  BY <1>1 DEF IInv, PeerInv, Never, Grows
  <2>2. thread'[q] = thread[q]  BY <1>1, Numbers
  <2>3. Own(rx, p)
    <3>1. ~At(Main, {"expired"}, p)  BY DEF At
    <3> QED  BY <2>1, <3>1 DEF PeerOK
  <2>4. /\ Own(rx', p) /\ Armed(rx', p) = {}
        /\ \A r \in Ports \ {p} : rx'.handle[r] = rx.handle[r] /\ Armed(rx', r) = Armed(rx, r)
    BY <1>0, <2>3, RemovedOwn
  <2>5. CASE q # p
    <3>1. ~At(Main, {"expired", "invalidate"}, q) /\ ~At(Main, {"expired", "invalidate"}, q)'
      BY <1>1, <2>5 DEF At
    <3>2. Apart(q, {"got"})  BY <2>2 DEF Apart
    <3> QED  BY <2>1, <2>4, <2>5, <3>1, <3>2, PeerPortKept
  <2>6. CASE q = p
    <3>1. At(Main, {"expired", "invalidate"}, p)' /\ ~At(Main, {"expired"}, p)'  BY <1>1 DEF At
    <3>2. thread'[p].at # "got"  BY <1>1, <2>6, <3>1 DEF Met, Never
    <3>3. Own(rx, p)'  BY <2>4 DEF Own, Armed, Entries
    <3> QED  BY <2>6, <3>1, <3>2, <3>3 DEF PeerOK
  <2> QED  BY <2>5, <2>6
<1>5. DiagInv'
  <2> SUFFICES ASSUME NEW q \in Ports, "check" \notin crossed'[q]  PROVE DiagOK(q)'
    BY DEF DiagInv
  <2>1. DiagOK(q)  BY <1>1 DEF IInv, DiagInv, Grows
  <2>2. ASSUME CheckLoaded(q)  PROVE CheckLoaded(q)'
    <3>1. CASE q = p  BY <1>1, <2>2, <3>1 DEF CheckLoaded, At
    <3>2. CASE q # p
      <4>1. ~At(Main, {"expired", "invalidate"}, q)  BY DEF At
      <4>2. thread'[q] = thread[q]  BY <1>1, Numbers
      <4>3. rx' \in IF TRUE THEN {Removed(rx, p)} ELSE Added(Removed(rx, p), p)  OBVIOUS
      <4>4. rx.entry[q] = {q} /\ (\A u \in Ports \ {q} : rx.handle[u] # q)
              => rx'.entry[q] = {q} /\ (\A u \in Ports \ {q} : rx'.handle[u] # q)
        BY <1>0, <3>2, <4>3, LoadedTimerStays
      <4> QED  BY <2>2, <4>1, <4>2, <4>4 DEF CheckLoaded
    <3> QED  BY <3>1, <3>2
  <2>3. ~At(Main, Checks \cup {"undiag"}, q) /\ ~At(Main, Checks \cup {"undiag"}, q)'
    BY <1>1 DEF At, Checks
  <2> QED  BY <1>0, <1>1, <2>1, <2>2, <2>3, Numbers, DiagOther
<1> QED  BY <1>1, <1>2, <1>3, <1>4, <1>5 DEF IInv

\* Nothing that matters here changes.
LEMMA NothingKeeps ==
  ASSUME IInv, UNCHANGED <<rx, tx, peer, cfg, diag, thread, crossed>>, monitor' \in Ports
  PROVE  IInv'
<1>1. Threaded' /\ Met' /\ Grows  BY StaysShape DEF IInv
<1>2. Typed'  BY DEF IInv, Typed
<1>3. \A u \in Threads, S \in {Sending, {"got", "expired", "invalidate"},
        Checks \cup {"got", "indicate", "expired", "invalidate", "undiag"}} : Apart(u, S)
  BY DEF Apart
<1>4. SendInv'  BY <1>1, <1>3, SendKept DEF IInv
<1>5. PeerInv'  BY <1>1, <1>3, PeerKept DEF IInv
<1>6. DiagInv'  BY <1>1, <1>3, DiagKept DEF IInv
<1> QED  BY <1>1, <1>2, <1>4, <1>5, <1>6 DEF IInv

\* pf_lldp_trigger_linkmonitor()
LEMMA LinkMonitorKeeps ==
  ASSUME IInv, LinkMonitor
  PROVE  IInv'
<1>1. monitor \in Ports /\ thread[Main].at = "idle"  BY DEF IInv, Typed, LinkMonitor, MainFree
<1>2. monitor' \in Ports  BY <1>1, Numbers DEF LinkMonitor, Ports
<1>3. CASE link[monitor].previous /\ ~link[monitor].running
  <2>1. rx' = Removed(rx, monitor) /\ MainDoes("invalidate", monitor)
        /\ UNCHANGED <<tx, peer, cfg, diag, ops>>
    BY <1>3 DEF LinkMonitor
  <2> QED  BY <1>1, <1>2, <2>1, LinkLostKeeps
<1>4. CASE ~ (link[monitor].previous /\ ~link[monitor].running)
  <2>1. UNCHANGED <<rx, tx, peer, cfg, diag, thread, crossed>>
    BY <1>4 DEF LinkMonitor
  <2> QED  BY <1>2, <2>1, NothingKeeps
<1> QED  BY <1>3, <1>4
-----------------------------------------------------------------------------
(* The checks and the records.                                                 *)

\* A check that begins: what is wanted of the port is something.
LEMMA CheckBegins ==
  ASSUME IInv, NEW p \in Ports, thread[Main].at = "idle", MainDoes("no peer", p),
         UNCHANGED <<rx, tx, peer, diag, monitor>>,
         cfg' \in [Ports -> [wanted : AtMost(Wanted), boundary : {"none", "send", "silent"},
                             updated : BOOLEAN]],
         cfg'[p].wanted # {}, \A q \in Ports : q # p => cfg'[q] = cfg[q],
         cfg'[p].boundary = cfg[p].boundary
  PROVE  IInv'
<1>0. Main \in Threads /\ Main \notin Ports  BY Numbers
<1>1. /\ Threaded' /\ Met' /\ Grows
      /\ thread'[Main].at = "no peer" /\ thread'[Main].port = p
      /\ \A u \in Threads : u # Main => thread'[u] = thread[u]
  <2>1. "no peer" \in MainAts  BY DEF MainAts, Checks
  <2> QED  BY <2>1, MainBegins DEF IInv
<1>2. Typed'  BY DEF IInv, Typed
<1>3. SendInv'
  <2>1. \A u \in Threads : Apart(u, Sending)  BY <1>1 DEF Apart, Sending
  <2>2. \A q \in Ports : cfg'[q].boundary \in {cfg[q].boundary, "none"}  OBVIOUS
  <2> QED  BY <1>1, <2>1, <2>2, SendKept DEF IInv
<1>4. \A u \in Threads : Apart(u, {"got", "expired", "invalidate"})  BY <1>1 DEF Apart
<1>5. PeerInv'  BY <1>1, <1>4, PeerKept DEF IInv
<1>6. DiagInv'
  <2> SUFFICES ASSUME NEW q \in Ports, "check" \notin crossed'[q]  PROVE DiagOK(q)'
    BY DEF DiagInv
  <2>1. DiagOK(q)  BY <1>1 DEF IInv, DiagInv, Grows
  <2>2. CASE q # p
    <3>1. CheckLoaded(q) => CheckLoaded(q)'  BY <1>4, LoadedKept
    <3>2. ~At(Main, Checks \cup {"undiag"}, q) /\ ~At(Main, Checks \cup {"undiag"}, q)'
      BY <1>1, <2>2 DEF At, Checks
    <3>3. /\ cfg'[q].wanted = cfg[q].wanted /\ (cfg[q].updated => cfg'[q].updated)
          /\ peer'[q] = peer[q] /\ diag'[q] = diag[q] /\ Main # q
      BY <1>0, <2>2
    <3> QED  BY <1>0, <1>1, <2>1, <3>1, <3>2, <3>3, DiagOther
  <2>3. CASE q = p
    <3>1. /\ At(Main, Checks, p)' /\ ~At(Main, {"port name", "station name"}, p)'
          /\ ~At(Main, {"station name"}, p)'
      BY <1>1 DEF At, Checks
    <3>2. \A u \in Threads : ~At(u, {"undiag"}, p)'
      <4>1. \A u \in Ports : ~At(u, {"undiag"}, p)'  BY <1>1, <2>3, <3>1 DEF Met
      <4>2. ~At(Main, {"undiag"}, p)'  BY <1>1 DEF At
      <4> QED  BY <4>1, <4>2, Numbers
    <3>3. Progress(p)'  BY <3>1 DEF Progress
    <3> QED  BY <2>3, <3>2, <3>3 DEF DiagOK
  <2> QED  BY <2>2, <2>3
<1> QED  BY <1>1, <1>2, <1>3, <1>5, <1>6 DEF IInv

\* pf_pdport_write_data_check()
LEMMA WriteCheckKeeps ==
  ASSUME IInv, NEW p \in Ports, NEW w \in Wanted, WriteCheck(p, w)
  PROVE  IInv'
<1>1. /\ thread[Main].at = "idle" /\ MainDoes("no peer", p)
      /\ UNCHANGED <<rx, tx, peer, diag, monitor>> /\ cfg' = [cfg EXCEPT ![p].wanted = {w}]
  BY DEF WriteCheck, Record, MainFree
<1>2. /\ cfg' \in [Ports -> [wanted : AtMost(Wanted), boundary : {"none", "send", "silent"},
                             updated : BOOLEAN]]
      /\ cfg'[p].wanted # {} /\ cfg'[p].boundary = cfg[p].boundary
      /\ \A q \in Ports : q # p => cfg'[q] = cfg[q]
  BY <1>1 DEF IInv, Typed, AtMost
<1> QED  BY <1>1, <1>2, CheckBegins

\* pf_pdport_periodic(): a port of which nothing is wanted has nothing to check.
LEMMA PeriodicKeeps ==
  ASSUME IInv, NEW p \in Ports, Periodic(p)
  PROVE  IInv'
<1>1. /\ thread[Main].at = "idle" /\ UNCHANGED <<rx, tx, peer, diag, monitor>>
      /\ cfg' = [cfg EXCEPT ![p].updated = FALSE]
  BY DEF Periodic, MainFree
<1>2. /\ cfg' \in [Ports -> [wanted : AtMost(Wanted), boundary : {"none", "send", "silent"},
                             updated : BOOLEAN]]
      /\ cfg'[p].wanted = cfg[p].wanted /\ cfg'[p].boundary = cfg[p].boundary
      /\ \A q \in Ports : q # p => cfg'[q] = cfg[q]
  BY <1>1 DEF IInv, Typed
<1>3. CASE cfg[p].wanted # {}
  <2>1. MainDoes("no peer", p)  BY <1>3 DEF Periodic
  <2> QED  BY <1>1, <1>2, <1>3, <2>1, CheckBegins
<1>4. CASE cfg[p].wanted = {}
  <2>1. UNCHANGED <<thread, crossed>>  BY <1>4 DEF Periodic
  <2>2. Threaded' /\ Met' /\ Grows  BY <2>1, StaysShape DEF IInv
  <2>3. Typed'  BY <1>1, <1>2 DEF IInv, Typed
  <2>4. \A u \in Threads : Apart(u, Sending) /\ Apart(u, {"got", "expired", "invalidate"})
    BY <2>1 DEF Apart
  <2>5. SendInv'
    <3>1. \A q \in Ports : cfg'[q].boundary \in {cfg[q].boundary, "none"}  BY <1>2
    <3> QED  BY <1>1, <2>2, <2>4, <3>1, SendKept DEF IInv
  <2>6. PeerInv'  BY <1>1, <2>2, <2>4, PeerKept DEF IInv
  <2>7. DiagInv'
    <3> SUFFICES ASSUME NEW q \in Ports, "check" \notin crossed'[q]  PROVE DiagOK(q)'
      BY DEF DiagInv
    <3>1. DiagOK(q)  BY <2>2 DEF IInv, DiagInv, Grows
    <3>2. CASE q # p
      <4>1. CheckLoaded(q) => CheckLoaded(q)'  BY <1>1, <2>4, LoadedKept
      <4>2. cfg'[q] = cfg[q]  BY <1>2, <3>2
      <4> QED  BY <1>1, <2>1, <3>1, <4>1, <4>2, DiagPortKept
    <3>3. CASE q = p
      BY <1>1, <1>2, <1>4, <2>1, <3>1, <3>3 DEF DiagOK, At
    <3> QED  BY <3>2, <3>3
  <2> QED  BY <2>2, <2>3, <2>5, <2>6, <2>7 DEF IInv
<1> QED  BY <1>3, <1>4

\* pf_pdport_write_data_adj()
LEMMA WriteBoundaryKeeps ==
  ASSUME IInv, NEW p \in Ports, NEW silent \in BOOLEAN, WriteBoundary(p, silent)
  PROVE  IInv'
<1> DEFINE at == IF silent THEN "disable" ELSE "enable"
           b == IF silent THEN "silent" ELSE "send"
<1>0. Main \in Threads /\ thread[Main].at = "idle"  BY Numbers DEF WriteBoundary, Record, MainFree
<1>1. /\ Threaded' /\ Met' /\ Grows
      /\ thread'[Main].at = at /\ thread'[Main].port = p
      /\ \A u \in Threads : u # Main => thread'[u] = thread[u]
  <2>1. at \in MainAts /\ MainDoes(at, p)  BY DEF MainAts, CommonAts, WriteBoundary
  <2> HIDE DEF at
  <2> QED  BY <2>1, MainBegins DEF IInv
<1>2. cfg' = [cfg EXCEPT ![p].boundary = b] /\ UNCHANGED <<rx, tx, peer, diag, link, monitor>>
  BY DEF WriteBoundary
<1>3. /\ cfg' \in [Ports -> [wanted : AtMost(Wanted), boundary : {"none", "send", "silent"},
                             updated : BOOLEAN]]
      /\ cfg'[p].boundary = b /\ \A q \in Ports : q # p => cfg'[q] = cfg[q]
      /\ \A q \in Ports : cfg'[q].wanted = cfg[q].wanted /\ cfg'[q].updated = cfg[q].updated
  <2>1. b \in {"none", "send", "silent"}  OBVIOUS
  <2> HIDE DEF b
  <2> QED  BY <1>2, <2>1 DEF IInv, Typed
<1>4. Typed'  BY <1>2, <1>3 DEF IInv, Typed
<1>5. SendInv'
  <2>1. /\ thread[Main].at \notin Sending /\ thread'[Main].at \in {"disable", "enable"}
        /\ thread'[Main].at = "disable" => cfg'[p].boundary # "send"
        /\ thread'[Main].at = "enable" => cfg'[p].boundary # "silent"
    BY <1>0, <1>1, <1>3 DEF Sending
  <2> QED  BY <1>0, <1>1, <1>2, <1>3, <2>1, EnterSending DEF IInv
<1>6. PeerInv'
  <2>1. \A u \in Threads : Apart(u, {"got", "expired", "invalidate"})
    BY <1>0, <1>1 DEF Apart
  <2> QED  BY <1>1, <1>2, <2>1, PeerKept DEF IInv
<1>7. DiagInv'
  <2>1. \A u \in Threads : Apart(u, Checks \cup {"got", "indicate", "expired", "invalidate", "undiag"})
    BY <1>0, <1>1 DEF Apart, Checks
  <2> QED  BY <1>1, <1>2, <1>3, <2>1, DiagKept DEF IInv
<1> QED  BY <1>1, <1>4, <1>5, <1>6, <1>7 DEF IInv

\* A step of a check reports what it looks at, and leaves the rest.
LEMMA CheckKeeps ==
  ASSUME IInv, NEW p \in Ports, NEW d \in Diagnoses, NEW is \in BOOLEAN,
         At(Main, Checks, p), thread'[Main].at \in Checks \cup {"idle"},
         thread'[Main].at # "idle" => thread'[Main].port = p,
         \A u \in Threads : u # Main => thread'[u] = thread[u], Threaded', Met', Grows,
         diag' = diag \/ Reported(p, d, is), UNCHANGED <<rx, tx, peer, cfg, link, monitor>>,
         DiagOK(p) /\ ~cfg[p].updated /\ thread[p].at # "indicate" => Progress(p)'
  PROVE  IInv'
<1>0. Main \in Threads /\ Main \notin Ports  BY Numbers
<1>1. /\ diag' \in [Ports -> SUBSET Diagnoses] /\ \A q \in Ports : q # p => diag'[q] = diag[q]
  <2>1. diag \in [Ports -> SUBSET Diagnoses]  BY DEF IInv, Typed
  <2>2. diag[p] \cup {d} \in SUBSET Diagnoses /\ diag[p] \ {d} \in SUBSET Diagnoses
    BY <2>1
  <2>3. CASE diag' = diag  BY <2>1, <2>3
  <2>4. CASE Reported(p, d, is)
    <3> DEFINE new == IF is THEN diag[p] \cup {d} ELSE diag[p] \ {d}
    <3>1. new \in SUBSET Diagnoses /\ diag' = [diag EXCEPT ![p] = new]
      BY <2>2, <2>4 DEF Reported
    <3> HIDE DEF new
    <3> QED  BY <2>1, <3>1
  <2> QED  BY <2>3, <2>4
<1>2. Typed'  BY <1>1 DEF IInv, Typed
<1>3. SendInv'
  <2>1. \A u \in Threads : Apart(u, Sending)  BY DEF Apart, Sending, At, Checks
  <2> QED  BY <2>1, SendKept DEF IInv
<1>4. \A u \in Threads : Apart(u, {"got", "expired", "invalidate"})
  BY DEF Apart, At, Checks
<1>5. PeerInv'  BY <1>4, PeerKept DEF IInv
<1>6. DiagInv'
  <2> SUFFICES ASSUME NEW q \in Ports, "check" \notin crossed'[q]  PROVE DiagOK(q)'
    BY DEF DiagInv
  <2>1. DiagOK(q)  BY DEF IInv, DiagInv, Grows
  <2>2. CASE q # p
    <3>1. CheckLoaded(q) => CheckLoaded(q)'  BY <1>4, LoadedKept
    <3>2. ~At(Main, Checks \cup {"undiag"}, q) /\ ~At(Main, Checks \cup {"undiag"}, q)'
      BY <2>2 DEF At, Checks
    <3>3. /\ cfg'[q].wanted = cfg[q].wanted /\ (cfg[q].updated => cfg'[q].updated)
          /\ peer'[q] = peer[q] /\ diag'[q] = diag[q] /\ Main # q
      BY <1>0, <1>1, <2>2
    <3> QED  BY <1>0, <2>1, <3>1, <3>2, <3>3, DiagOther
  <2>3. CASE q = p
    <3>1. cfg[p].wanted # {} /\ \A u \in Threads : ~At(u, {"undiag"}, p)
      BY <2>1, <2>3 DEF DiagOK
    <3>2. \A u \in Threads : ~At(u, {"undiag"}, p)'
      BY <3>1 DEF At, Checks
    <3>3. thread'[p] = thread[p]  BY <1>0, Numbers
    <3> QED  BY <2>1, <2>3, <3>1, <3>2, <3>3 DEF DiagOK
  <2> QED  BY <2>2, <2>3
<1> QED  BY <1>2, <1>3, <1>5, <1>6 DEF IInv

\* What a report makes of the diagnoses of its port.
LEMMA ReportedShape ==
  ASSUME Typed, NEW p \in Ports, NEW d \in Diagnoses, NEW is \in BOOLEAN, Reported(p, d, is)
  PROVE  (d \in diag'[p] <=> is) /\ \A e \in Diagnoses \ {d} : e \in diag'[p] <=> e \in diag[p]
<1> DEFINE new == IF is THEN diag[p] \cup {d} ELSE diag[p] \ {d}
<1>1. diag' = [diag EXCEPT ![p] = new]  BY DEF Reported
<1>2. diag'[p] = new  BY <1>1 DEF Typed
<1> QED  BY <1>2

\* What goes on in the main thread during a check.
LEMMA CheckMoves ==
  ASSUME IInv, NEW p \in Ports, thread[Main].port = p, NEW at, at \in Checks,
         \/ GoesTo(Main, at) \/ Goes(Main, Idle)
  PROVE  /\ Threaded' /\ Met' /\ Grows /\ thread'[Main].at \in Checks \cup {"idle"}
         /\ GoesTo(Main, at) => thread'[Main].at = at
         /\ Goes(Main, Idle) => thread'[Main].at = "idle"
         /\ thread'[Main].at # "idle" => thread'[Main].port = p
         /\ \A u \in Threads : u # Main => thread'[u] = thread[u]
<1>0. Main \in Threads /\ at \in MainAts /\ Threaded  BY Numbers DEF MainAts, IInv
<1>1. ASSUME GoesTo(Main, at)
      PROVE  /\ Threaded' /\ Met' /\ Grows
             /\ thread'[Main].at = at /\ thread'[Main].port = thread[Main].port
             /\ \A u \in Threads : u # Main => thread'[u] = thread[u]
  BY <1>0, <1>1, GoesToShape
<1>2. ASSUME Goes(Main, Idle)
      PROVE  /\ Threaded' /\ Met' /\ Grows /\ thread'[Main].at = "idle"
             /\ \A u \in Threads : u # Main => thread'[u] = thread[u]
  BY <1>0, <1>2, IdleState, GoesShape
<1>3. "idle" \notin Checks  BY DEF Checks
<1> QED  BY <1>1, <1>2, <1>3

\* pf_pdport_check_no_peer_detected()
LEMMA CheckNoPeerKeeps ==
  ASSUME IInv, CheckNoPeer
  PROVE  IInv'
<1>0. PICK p \in Ports : p = thread[Main].port
  BY Numbers DEF IInv, Threaded, States
<1>1. /\ thread[Main].at = "no peer" /\ Reported(p, "no peer", peer[p] = {})
      /\ UNCHANGED <<rx, tx, peer, cfg, link, monitor, ops>> /\ GoesTo(Main, "port name")
  BY <1>0 DEF CheckNoPeer
<1>2. /\ Threaded' /\ Met' /\ Grows /\ thread'[Main].at = "port name" /\ thread'[Main].port = p
      /\ \A u \in Threads : u # Main => thread'[u] = thread[u]
  <2>1. "port name" \in Checks /\ "port name" # "idle"  BY DEF Checks
  <2> QED  BY <1>0, <1>1, <2>1, CheckMoves
<1>3. Progress(p)'
  <2>1. "no peer" \in diag'[p] <=> peer[p] = {}
    BY <1>1, ReportedShape DEF IInv, Diagnoses
  <2>2. NoPeerRight(p)'  BY <1>1, <2>1 DEF NoPeerRight
  <2>3. ~At(Main, {"station name"}, p)' /\ At(Main, Checks, p)'  BY <1>2 DEF At, Checks
  <2> QED  BY <2>2, <2>3 DEF Progress
<1>4. "no peer" \in Diagnoses /\ (peer[p] = {}) \in BOOLEAN /\ At(Main, Checks, p)
      /\ thread'[Main].at \in Checks \cup {"idle"}
  BY <1>0, <1>1, <1>2 DEF Diagnoses, At, Checks
<1> QED  BY <1>1, <1>2, <1>3, <1>4, CheckKeeps

\* pf_pdport_check_peer_port_name()
LEMMA CheckPortNameKeeps ==
  ASSUME IInv, CheckPortName
  PROVE  IInv'
<1>0. PICK p \in Ports : p = thread[Main].port
  BY Numbers DEF IInv, Threaded, States
<1> DEFINE known == UNION {i.port : i \in peer[p]}
           is == \E name \in known : ~PortMatches(p, name)
<1>1. /\ thread[Main].at = "port name"
      /\ IF known = {} THEN diag' = diag ELSE Reported(p, "port name", is)
      /\ UNCHANGED <<rx, tx, peer, cfg, link, monitor, ops>> /\ GoesTo(Main, "station name")
  BY <1>0 DEF CheckPortName
<1>2. /\ Threaded' /\ Met' /\ Grows /\ thread'[Main].at = "station name" /\ thread'[Main].port = p
      /\ \A u \in Threads : u # Main => thread'[u] = thread[u]
  <2>1. "station name" \in Checks /\ "station name" # "idle"  BY DEF Checks
  <2> QED  BY <1>0, <1>1, <2>1, CheckMoves
<1>3. ASSUME DiagOK(p) /\ ~cfg[p].updated /\ thread[p].at # "indicate"
      PROVE  Progress(p)'
  <2>1. At(Main, Checks, p) /\ At(Main, {"port name", "station name"}, p)
    BY <1>0, <1>1 DEF At, Checks
  <2>2. NoPeerRight(p)  BY <1>3, <2>1 DEF DiagOK, Progress
  <2>3. NoPeerRight(p)'
    <3>1. "no peer" \in diag'[p] <=> "no peer" \in diag[p]
      <4>1. CASE known = {}  BY <1>1, <4>1
      <4>2. CASE known # {}
        <5>1. Reported(p, "port name", is) /\ is \in BOOLEAN  BY <1>1, <4>2
        <5> HIDE DEF is
        <5> QED  BY <5>1, ReportedShape DEF IInv, Diagnoses
      <4> QED  BY <4>1, <4>2
    <3> QED  BY <1>1, <2>2, <3>1 DEF NoPeerRight
  <2>4. PortNameRight(p)'
    <3>1. ASSUME NEW i \in peer[p], NEW n \in i.port
          PROVE  "port name" \in diag'[p] <=> ~PortMatches(p, n)
      <4>1. peer[p] = {i} /\ i \in Infos  BY DEF IInv, Typed, AtMost
      <4>2. i.port = {n}  BY <4>1, NeighboursAssumption
      <4>3. known = {n}  BY <4>1, <4>2
      <4>4. Reported(p, "port name", is) /\ is \in BOOLEAN  BY <1>1, <4>3
      <4>5. is <=> ~PortMatches(p, n)  BY <4>3
      <4> HIDE DEF is
      <4>6. "port name" \in diag'[p] <=> is
        BY <4>4, ReportedShape DEF IInv, Diagnoses
      <4> QED  BY <4>5, <4>6
    <3>2. \A n : PortMatches(p, n)' <=> PortMatches(p, n)  BY <1>1 DEF PortMatches
    <3> QED  BY <1>1, <3>1, <3>2 DEF PortNameRight
  <2>5. At(Main, Checks, p)'  BY <1>2 DEF At, Checks
  <2> QED  BY <2>3, <2>4, <2>5 DEF Progress
<1>4. "port name" \in Diagnoses /\ is \in BOOLEAN /\ At(Main, Checks, p)
      /\ thread'[Main].at \in Checks \cup {"idle"}
      /\ (diag' = diag \/ Reported(p, "port name", is))
  BY <1>0, <1>1, <1>2 DEF Diagnoses, At, Checks
<1> HIDE DEF is
<1> QED  BY <1>1, <1>2, <1>3, <1>4, CheckKeeps

\* pf_pdport_check_peer_station_name()
LEMMA CheckStationNameKeeps ==
  ASSUME IInv, CheckStationName
  PROVE  IInv'
<1>0. PICK p \in Ports : p = thread[Main].port
  BY Numbers DEF IInv, Threaded, States
<1> DEFINE known == UNION {i.station : i \in peer[p]}
           is == \E name \in known : ~StationMatches(p, name)
<1>1. /\ thread[Main].at = "station name"
      /\ IF known = {} THEN diag' = diag ELSE Reported(p, "station name", is)
      /\ UNCHANGED <<rx, tx, peer, cfg, link, monitor, ops>> /\ Goes(Main, Idle)
  BY <1>0 DEF CheckStationName
<1>2. /\ Threaded' /\ Met' /\ Grows /\ thread'[Main].at = "idle"
      /\ \A u \in Threads : u # Main => thread'[u] = thread[u]
  <2>1. "no peer" \in Checks  BY DEF Checks
  <2> QED  BY <1>0, <1>1, <2>1, CheckMoves
<1>3. ASSUME DiagOK(p) /\ ~cfg[p].updated /\ thread[p].at # "indicate"
      PROVE  Progress(p)'
  <2>1. At(Main, Checks, p) /\ At(Main, {"port name", "station name"}, p) /\ At(Main, {"station name"}, p)
    BY <1>0, <1>1 DEF At, Checks
  <2>2. NoPeerRight(p) /\ PortNameRight(p)  BY <1>3, <2>1 DEF DiagOK, Progress
  <2>3. NoPeerRight(p)' /\ PortNameRight(p)'
    <3>1. /\ "no peer" \in diag'[p] <=> "no peer" \in diag[p]
          /\ "port name" \in diag'[p] <=> "port name" \in diag[p]
      <4>1. CASE known = {}  BY <1>1, <4>1
      <4>2. CASE known # {}
        <5>1. Reported(p, "station name", is) /\ is \in BOOLEAN  BY <1>1, <4>2
        <5> HIDE DEF is
        <5> QED  BY <5>1, ReportedShape DEF IInv, Diagnoses
      <4> QED  BY <4>1, <4>2
    <3>2. \A n : PortMatches(p, n)' <=> PortMatches(p, n)  BY <1>1 DEF PortMatches
    <3> QED  BY <1>1, <2>2, <3>1, <3>2 DEF NoPeerRight, PortNameRight
  <2>4. StationNameRight(p)'
    <3>1. ASSUME NEW i \in peer[p], NEW n \in i.station
          PROVE  "station name" \in diag'[p] <=> ~StationMatches(p, n)
      <4>1. peer[p] = {i} /\ i \in Infos  BY DEF IInv, Typed, AtMost
      <4>2. i.station = {n}  BY <4>1, NeighboursAssumption
      <4>3. known = {n}  BY <4>1, <4>2
      <4>4. Reported(p, "station name", is) /\ is \in BOOLEAN  BY <1>1, <4>3
      <4>5. is <=> ~StationMatches(p, n)  BY <4>3
      <4> HIDE DEF is
      <4>6. "station name" \in diag'[p] <=> is
        BY <4>4, ReportedShape DEF IInv, Diagnoses
      <4> QED  BY <4>5, <4>6
    <3>2. \A n : StationMatches(p, n)' <=> StationMatches(p, n)  BY <1>1 DEF StationMatches
    <3> QED  BY <1>1, <3>1, <3>2 DEF StationNameRight
  <2>5. ~At(Main, {"port name", "station name"}, p)' /\ ~At(Main, {"station name"}, p)'
    BY <1>2 DEF At
  <2> QED  BY <2>3, <2>4, <2>5 DEF Progress
<1>4. "station name" \in Diagnoses /\ is \in BOOLEAN /\ At(Main, Checks, p)
      /\ thread'[Main].at \in Checks \cup {"idle"}
      /\ (diag' = diag \/ Reported(p, "station name", is))
  BY <1>0, <1>1, <1>2 DEF Diagnoses, At, Checks
<1> HIDE DEF is
<1> QED  BY <1>1, <1>2, <1>3, <1>4, CheckKeeps
-----------------------------------------------------------------------------
(* All of it.                                                                  *)

\* The timers that run at the start.
LEMMA ArmedAtStart ==
  ASSUME NEW S \in SUBSET Ports
  PROVE  /\ ArmedOn(S) \in Pools
         /\ \A p \in Ports : /\ Own(ArmedOn(S), p)
                             /\ Armed(ArmedOn(S), p) = IF p \in S THEN {p} ELSE {}
                             /\ ArmedOn(S).handle[p] \in {0, p}
                             /\ p \in S => ArmedOn(S).entry[p] = {p}
<1> DEFINE r == ArmedOn(S)
<1>1. /\ r = [entry |-> r.entry, handle |-> r.handle]
      /\ r.entry = [i \in Entries |-> S \cap {i}]
      /\ r.handle = [p \in Ports |-> IF p \in S THEN p ELSE 0]
  BY DEF ArmedOn
<1> HIDE DEF r
<1>2. r \in Pools
  <2>1. \A i \in Entries : S \cap {i} \in AtMost(Ports)  BY DEF AtMost
  <2>2. \A p \in Ports : (IF p \in S THEN p ELSE 0) \in 0 .. MaxTimers  BY Numbers DEF Ports
  <2> QED  BY <1>1, <2>1, <2>2 DEF Pools
<1>3. ASSUME NEW p \in Ports
      PROVE  /\ Own(r, p) /\ Armed(r, p) = IF p \in S THEN {p} ELSE {}
             /\ r.handle[p] \in {0, p}
             /\ p \in S => r.entry[p] = {p}
  <2>1. p \in Entries /\ p # 0  BY Numbers
  <2>2. Armed(r, p) = IF p \in S THEN {p} ELSE {}
    BY <1>1, <2>1 DEF Armed
  <2> QED  BY <1>1, <2>1, <2>2 DEF Own
<1> QED  BY <1>2, <1>3 DEF r

\* The start.
LEMMA InitHolds == Init => IInv
<1> SUFFICES ASSUME Init  PROVE IInv
  OBVIOUS
<1> DEFINE R == {p \in Ports : cfg[p].wanted # {}}
           X == {p \in Ports : ~Forbidden(p)}
<1>1. /\ rx = ArmedOn(R) /\ tx = ArmedOn(X) /\ R \in SUBSET Ports /\ X \in SUBSET Ports
      /\ peer = [p \in Ports |-> {}] /\ diag = [p \in Ports |-> {}]
      /\ thread = [t \in Threads |-> Idle] /\ crossed = [p \in Ports |-> {}] /\ monitor = 1
  BY DEF Init
<1>2. /\ cfg \in [Ports -> [wanted : AtMost(Wanted), boundary : {"none", "send", "silent"},
                            updated : BOOLEAN]]
  BY DEF Init, AtMost
<1>3. \A t \in Threads : thread[t] = Idle /\ thread[t].at = "idle" /\ StateOf(t, thread[t])
  BY <1>1, IdleState
<1>4. Main \in Threads /\ (\A p \in Ports : p \in Threads) /\ 1 \in Ports  BY Numbers
<1>5. \A p \in Ports : /\ Own(rx, p) /\ Own(tx, p)
                       /\ Armed(tx, p) = IF p \in X THEN {p} ELSE {}
                       /\ rx.handle[p] \in {0, p} /\ (p \in R => rx.entry[p] = {p})
  BY <1>1, ArmedAtStart
<1>6. Typed
  <2>1. rx \in Pools /\ tx \in Pools  BY <1>1, ArmedAtStart
  <2>2. peer \in [Ports -> AtMost(Infos)] /\ diag \in [Ports -> SUBSET Diagnoses]
    BY <1>1 DEF AtMost
  <2> QED  BY <1>1, <1>2, <1>4, <2>1, <2>2 DEF Typed
<1>7. Threaded  BY <1>1, <1>3 DEF Threaded, StateOf
<1>8. Met  BY <1>3, <1>4 DEF Met, At, Sending, Checks
<1>9. SendInv
  <2> SUFFICES ASSUME NEW p \in Ports  PROVE SendOK(p)  BY DEF SendInv
  <2>1. \A t \in Threads : \A S \in {{"send"}, {"add"}, {"disable"}, {"enable", "add", "send"}} : ~At(t, S, p)
    BY <1>3 DEF At
  <2>2. \A t \in Threads : ~At(t, {"send"}, p) /\ ~At(t, {"add"}, p) /\ ~At(t, {"disable"}, p)
                           /\ ~At(t, {"enable", "add", "send"}, p)
    BY <2>1
  <2>3. /\ Forbidden(p) => Armed(tx, p) = {}
        /\ cfg[p].boundary = "send" => Armed(tx, p) # {}
    BY <1>5 DEF Forbidden
  <2> QED  BY <1>4, <1>5, <2>2, <2>3 DEF SendOK
<1>10. PeerInv
  <2> SUFFICES ASSUME NEW p \in Ports  PROVE PeerOK(p)  BY DEF PeerInv
  <2> QED  BY <1>1, <1>3, <1>4, <1>5 DEF PeerOK, At
<1>11. DiagInv
  <2> SUFFICES ASSUME NEW p \in Ports  PROVE DiagOK(p)  BY DEF DiagInv
  <2>1. \A t \in Threads : ~At(t, {"undiag"}, p) /\ ~At(t, Checks, p)
    BY <1>3 DEF At, Checks
  <2>2. CASE cfg[p].wanted = {}
    BY <1>1, <1>4, <2>1, <2>2 DEF DiagOK
  <2>3. CASE cfg[p].wanted # {}
    <3>1. CheckLoaded(p)
      <4>1. peer[p] = {} /\ rx.entry[p] = {p}  BY <1>1, <1>5, <2>3
      <4>2. \A q \in Ports \ {p} : rx.handle[q] # p  BY <1>5, Numbers
      <4> QED  BY <4>1, <4>2 DEF CheckLoaded
    <3>2. ~At(Main, {"port name", "station name"}, p) /\ ~At(Main, {"station name"}, p)
      BY <1>3, <1>4 DEF At
    <3> QED  BY <2>1, <2>3, <3>1, <3>2 DEF DiagOK, Progress
  <2> QED  BY <2>2, <2>3
<1> QED  BY <1>6, <1>7, <1>8, <1>9, <1>10, <1>11 DEF IInv

\* Every step of every thread.
LEMMA StepKeeps == IInv /\ [Next]_nbrVars => IInv'
<1> SUFFICES ASSUME IInv, [Next]_nbrVars  PROVE IInv'
  OBVIOUS
<1>0. Main \in Threads /\ (\A p \in Ports : p \in Threads) /\ monitor \in Ports
  BY Numbers DEF IInv, Typed
<1>1. ASSUME NEW t \in Threads, Common(t)  PROVE IInv'
  BY <1>1, RestartSendingKeeps, SendDisableKeeps, SendEnableKeeps, SendAddKeeps,
     ResetPortKeeps, ResetDiagKeeps DEF Common
<1>2. ASSUME NEW p \in Ports, EthernetThread(p)  PROVE IInv'
  <2>1. CASE Common(p)  BY <1>0, <1>1, <2>1
  <2>2. CASE StorePeer(p)  BY <2>2, StorePeerKeeps
  <2>3. CASE IndicatePeer(p)  BY <2>3, IndicatePeerKeeps
  <2>4. CASE \E info \in Infos : LldpFrame(p, info)  BY <2>4, LldpFrameKeeps
  <2>5. CASE \E reset \in BOOLEAN : DcpFrame(p, reset)  BY <2>5, RoundsKeep
  <2> QED  BY <1>2, <2>1, <2>2, <2>3, <2>4, <2>5 DEF EthernetThread
<1>3. ASSUME MainThread  PROVE IInv'
  <2>1. CASE Common(Main)  BY <1>0, <1>1, <2>1
  <2>2. CASE ResetHandle  BY <2>2, ResetHandleKeeps
  <2>3. CASE InvalidatePeer  BY <2>3, InvalidatePeerKeeps
  <2>4. CASE SendAgain  BY <2>4, SendAgainKeeps
  <2>5. CASE LinkMonitor  BY <2>5, LinkMonitorKeeps
  <2>6. CASE CheckNoPeer  BY <2>6, CheckNoPeerKeeps
  <2>7. CASE CheckPortName  BY <2>7, CheckPortNameKeeps
  <2>8. CASE CheckStationName  BY <2>8, CheckStationNameKeeps
  <2>9. ASSUME NEW p \in Ports,
               \/ Periodic(p)
               \/ \E i \in Entries : PeerTimeout(p, i) \/ SendTimeout(p, i)
               \/ \E w \in Wanted : WriteCheck(p, w)
               \/ \E silent \in BOOLEAN : WriteBoundary(p, silent)
        PROVE  IInv'
    BY <2>9, PeriodicKeeps, PeerTimeoutKeeps, SendTimeoutKeeps, WriteCheckKeeps, WriteBoundaryKeeps
  <2>10. CASE WriteInterface  BY <2>10, RoundsKeep
  <2>11. CASE \E accepted \in BOOLEAN : Connect(accepted)  BY <2>11, RoundsKeep
  <2> QED  BY <1>3, <2>1, <2>2, <2>3, <2>4, <2>5, <2>6, <2>7, <2>8, <2>9, <2>10, <2>11 DEF MainThread
<1>4. ASSUME NEW p \in Ports, LinkChanges(p)  PROVE IInv'
  <2>1. UNCHANGED <<rx, tx, peer, cfg, diag, thread, crossed>> /\ monitor' = monitor
    BY <1>4 DEF LinkChanges
  <2> QED  BY <1>0, <2>1, NothingKeeps
<1>5. CASE UNCHANGED nbrVars
  <2>1. UNCHANGED <<rx, tx, peer, cfg, diag, thread, crossed>> /\ monitor' = monitor
    BY <1>5 DEF nbrVars
  <2> QED  BY <1>0, <2>1, NothingKeeps
<1> QED  BY <1>2, <1>3, <1>4, <1>5 DEF Next

\* The invariant holds of every behaviour.
LEMMA AlwaysIInv == Spec => []IInv
<1>1. Init => IInv  BY InitHolds
<1>2. IInv /\ [Next]_nbrVars => IInv'  BY StepKeeps
<1> QED  BY <1>1, <1>2, PTL DEF Spec

\* A set with at most one element, or exactly one.
LEMMA One == \A x : Cardinality({x}) = 1 /\ Cardinality({}) = 0
BY FS_Singleton, FS_EmptySet

\* When nothing is under way that will look at its peer, what is reported of a port is
\* what is wrong with the peer (pf_pdport_periodic, pf_pdport_reset_all), however many
\* ports there are and whatever else happens on them.
THEOREM DiagnosisTrue == Spec => []DiagnosisFollowsPeer
<1>1. IInv => DiagnosisFollowsPeer
  <2> SUFFICES ASSUME IInv, NEW p \in Ports, Settled(p), "check" \notin crossed[p]
               PROVE IF cfg[p].wanted = {} THEN diag[p] = {} \/ \E t \in Threads : At(t, {"undiag"}, p)
                     ELSE /\ "no peer" \in diag[p] <=> peer[p] = {}
                          /\ \A i \in peer[p] :
                               /\ \A n \in i.port : "port name" \in diag[p] <=> ~PortMatches(p, n)
                               /\ \A n \in i.station : "station name" \in diag[p] <=> ~StationMatches(p, n)
    BY DEF DiagnosisFollowsPeer
  <2>1. DiagOK(p)  BY DEF IInv, DiagInv
  <2>2. CASE cfg[p].wanted = {}  BY <2>1, <2>2 DEF DiagOK
  <2>3. CASE cfg[p].wanted # {}
    <3>1. Progress(p)  BY <2>1, <2>3 DEF DiagOK, Settled
    <3>2. ~At(Main, Checks, p) /\ ~At(Main, {"expired", "invalidate"}, p) /\ thread[p].at # "got"
      BY DEF Settled, At, Checks
    <3>3. ~CheckLoaded(p)
      <4>1. p \in Entries  BY Numbers
      <4>2. peer[p] = {} => rx.entry[p] # {p}  BY <4>1 DEF Settled, Armed
      <4> QED  BY <3>2, <4>2 DEF CheckLoaded
    <3>4. NoPeerRight(p) /\ PortNameRight(p) /\ StationNameRight(p)
      BY <3>1, <3>2, <3>3 DEF Progress
    <3> QED  BY <2>3, <3>4 DEF NoPeerRight, PortNameRight, StationNameRight
  <2> QED  BY <2>2, <2>3
<1> QED  BY <1>1, AlwaysIInv, PTL

\* A peer is believed no longer than it asked for (pf_lldp_restart_peer_timeout,
\* pf_lldp_receive_timeout), unless a frame has been handled on some port while its
\* peer was taken away.
THEOREM PeersExpire == Spec => []PeerExpires
<1>1. IInv => PeerExpires
  <2> SUFFICES ASSUME IInv, Never("peer"), NEW p \in Ports
               PROVE  /\ Cardinality(Armed(rx, p)) <= 1
                      /\ \A i \in Armed(rx, p) : rx.handle[p] = i
                      /\ \A i \in peer[p] : \/ i.long \/ Armed(rx, p) # {} \/ thread[p].at = "got"
                                            \/ At(Main, {"expired", "invalidate"}, p)
    BY DEF PeerExpires, Never
  <2>1. PeerOK(p)  BY DEF IInv, PeerInv
  <2>2. Armed(rx, p) = {} \/ Armed(rx, p) = {rx.handle[p]}  BY <2>1 DEF PeerOK, Own
  <2>3. Cardinality(Armed(rx, p)) <= 1
    <3>1. Cardinality(Armed(rx, p)) = 0 \/ Cardinality(Armed(rx, p)) = 1  BY <2>2, One
    <3> QED  BY <3>1
  <2> QED  BY <2>1, <2>2, <2>3 DEF PeerOK
<1> QED  BY <1>1, AlwaysIInv, PTL

\* A port sends LLDP frames as its boundary says (pf_lldp_send_enable,
\* pf_lldp_send_disable), unless two threads have started or stopped the transmission
\* of some port at once.
THEOREM SendingAsTold == Spec => []SendsAsTold
<1>1. IInv => SendsAsTold
  <2> SUFFICES ASSUME IInv, Never("sending"), NEW p \in Ports,
                      \A t \in Threads : ~At(t, {"disable", "enable", "add", "send"}, p)
               PROVE  /\ Forbidden(p) => Armed(tx, p) = {}
                      /\ cfg[p].boundary = "send" => Cardinality(Armed(tx, p)) = 1
    BY DEF SendsAsTold, SendsSo, Never
  <2>1. SendOK(p)  BY DEF IInv, SendInv
  <2>2. \A t \in Threads : ~At(t, Sending, p) /\ ~At(t, {"send"}, p)  BY DEF Sending, At
  <2>3. Own(tx, p) /\ (Forbidden(p) => Armed(tx, p) = {})
        /\ (cfg[p].boundary = "send" => Armed(tx, p) # {})
    BY <2>1, <2>2, Numbers DEF SendOK
  <2>4. Armed(tx, p) # {} => Cardinality(Armed(tx, p)) = 1
    BY <2>3, One DEF Own
  <2> QED  BY <2>3, <2>4
<1> QED  BY <1>1, AlwaysIInv, PTL
=============================================================================
