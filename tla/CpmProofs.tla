----------------------------- MODULE CpmProofs -----------------------------
(***************************************************************************)
(* Proofs about Cpm: for every data hold factor, range and window of the   *)
(* cycle counter, and any number of frames and connections, no buffer      *)
(* leaks, the data stay in order, the newest are read and the data hold    *)
(* time is kept, provided that the AR is not closed inside a frame         *)
(* handler.                                                                *)
(***************************************************************************)
EXTENDS Cpm, TLAPS

\* The main thread closes an AR only between two frames.
ClosesBetweenFrames == \A r \in RaceSets : "close" \notin r

Storing == eth.pc \in {"start", "put", "tell", "reload", "run"}

\* Which steps of the two threads exclude each other.
Turns ==
  /\ "close" \notin races
  /\ main.pc \in StepsOf.close => EthIdle
  /\ main.pc \in StepsOf.stop /\ "stop" \notin races => EthIdle
  /\ main.pc = "count" /\ "count" \notin races => EthIdle
  /\ main.pc \in {"arm", "frun"} => ~ Storing
  /\ ~ EthIdle => ar.cmio # "IDLE"

\* The AR, its frame map entry and its timer.
Registered ==
  /\ mapped <=> ar.cmio # "IDLE" /\ main.pc \notin {"free", "clear"}
  /\ ar.cmio = "IDLE" => cpm = Cleared /\ MainIdle
  /\ ar.cmio = "CREATED" <=> main.pc \in {"arm", "frun"}
  /\ armed => cpm.running /\ main.pc \in {"idle", "frun", "close", "unmap"}
  /\ main.pc = "arm" => ~ cpm.running
  /\ main.pc = "frun" => armed
  /\ main.pc \in {"arm", "frun", "unmap", "free", "clear"}
       => cpm.state = "W_START"
  /\ main.pc = "count" => cpm.running
  /\ main.pc \in {"halt", "free", "clear"} => ~ cpm.running
  /\ "stop" \notin races =>
       /\ Storing => cpm.state \in {"FRUN", "RUN"}
       /\ cpm.state # "W_START" /\ MainIdle => armed

\* The buffers and their owners.
Owned ==
  /\ BuffersOwned
  /\ EthIdle => eth.frame = 0 /\ eth.buf = 0
  /\ main.pc = "clear" => live = 0

\* The frame in the handler against those taken before.
Order ==
  /\ newest <= sent
  /\ ~ EthIdle => /\ eth.frame \in Frames /\ eth.frame <= sent
                 /\ newest <= eth.frame + Reorder
  /\ eth.pc \in {"check", "start", "put"} => eth.buf = eth.frame
  /\ eth.pc \in {"tell", "reload", "run"} => newest = eth.frame
  /\ ar.cmio # "IDLE" /\ newest # 0 /\ eth.pc \notin {"tell", "reload"} =>
       cpm.cycle = newest % Modulus
  /\ eth.pc \in {"start", "put"} /\ newest # 0 =>
       CycleOk(newest % Modulus, eth.frame)

\* What the application has read against what has been taken.
Fresh ==
  ar.cmio # "IDLE" =>
    /\ read.frame = cpm.appBuf
    /\ IF cpm.newBuf THEN cpm.cpmBuf = newest /\ read.frame < newest
                     ELSE read.frame = newest

\* dht and the intervals that have really begun.
Counted ==
  LET counted == CASE main.pc = "count" -> main.dht + 1
                   [] main.pc \in {"idle", "arm", "frun"} -> cpm.dht
                   [] OTHER -> Hold + 1
  IN  /\ cpm.running \/ main.pc \in {"arm", "frun"} => quiet <= counted
      /\ "count" \notin races /\ ((cpm.running /\ MainIdle) \/ main.pc \in {"count", "arm", "frun"})
           => quiet = counted

\* CMIO was told of a frame that is there.
Told == ar.start \/ ar.ready \/ ar.cmio = "DATA" => newest # 0 \/ eth.pc = "put"

IInv == /\ TypeOK /\ Turns /\ Registered /\ Owned /\ Order /\ Fresh /\ Counted
        /\ Told

-----------------------------------------------------------------------------
(* The window of the cycle check.                                           *)

\* A number has one remainder.
LEMMA Remainder ==
  ASSUME NEW m \in Nat, m > 0, NEW q \in Int, NEW r \in 0 .. m - 1
  PROVE  (m * q + r) % m = r
BY SMT

\* A frame whose counter lies in the window after that of an earlier frame is
\* newer, as long as frames are overtaken by fewer than the rest of the range.
LEMMA WindowOrders ==
  ASSUME NEW a \in Nat, NEW n \in Nat, a <= n + Reorder,
         CycleOk(a % Modulus, n)
  PROVE  a < n
<1> DEFINE q == a \div Modulus
           d == a - n
<1>1. /\ Modulus \in Nat /\ Modulus > 0 /\ Reorder \in Nat /\ Window \in Nat
      /\ Reorder + Window < Modulus
  BY CounterAssumption DEF CounterAssumption
<1>2. q \in Int /\ a = Modulus * q + (a % Modulus)
  BY <1>1, SMT
<1>3. SUFFICES ASSUME n <= a PROVE FALSE
  OBVIOUS
<1>4. d \in 0 .. Reorder
  BY <1>1, <1>3
<1>5. (n - (a % Modulus)) % Modulus \in 1 .. Window
  BY DEF CycleOk
<1>6. CASE d = 0
  <2>1. n - (a % Modulus) = Modulus * q + 0  BY <1>1, <1>2, <1>6, SMT
  <2>2. (Modulus * q + 0) % Modulus = 0  BY <1>1, <1>2, Remainder
  <2> QED  BY <1>5, <2>1, <2>2
<1>7. CASE d # 0
  <2> DEFINE r == Modulus - d
  <2>1. r \in 0 .. Modulus - 1 /\ r > Window  BY <1>1, <1>4, <1>7
  <2>2. n - (a % Modulus) = Modulus * (q - 1) + r  BY <1>1, <1>2, SMT
  <2>3. q - 1 \in Int  BY <1>2
  <2>4. (Modulus * (q - 1) + r) % Modulus = r
    <3> HIDE DEF r, q
    <3> QED  BY <1>1, <2>1, <2>3, Remainder
  <2> QED  BY <1>1, <1>5, <2>1, <2>2, <2>4
<1> QED  BY <1>6, <1>7

\* The handler stores only frames that are newer than those before.
LEMMA StoresNewer == ASSUME IInv, eth.pc = "put" PROVE newest < eth.frame
<1>1. newest \in Nat /\ eth.frame \in Nat /\ eth.frame > 0
      /\ newest <= eth.frame + Reorder
  BY CounterAssumption DEF CounterAssumption, IInv, TypeOK, Order, EthIdle,
     Buffers, Frames, EthType
<1>2. CASE newest = 0  BY <1>1, <1>2
<1>3. CASE newest # 0
  <2>1. CycleOk(newest % Modulus, eth.frame)  BY <1>3 DEF IInv, Order
  <2> QED  BY <1>1, <2>1, WindowOrders
<1> QED  BY <1>2, <1>3

-----------------------------------------------------------------------------
(* Every step keeps the invariant.                                          *)

\* Another frame is sent.
LEMMA SendStep == ASSUME IInv, Send PROVE IInv'
<1>1. TypeOK'
  BY CounterAssumption DEF CounterAssumption, IInv, TypeOK, CpmType, ArType,
       EthType, MainType, ReadType, Buffers, Frames, Never, Cleared, Counted,
       Registered, Turns, Owned, BuffersOwned, Order, Held, Races, EthIdle,
       MainIdle, Send
<1>2. Turns'
  BY DEF IInv, Turns, Storing, StepsOf, Registered, Cleared, TypeOK, CpmType,
       ArType, EthType, MainType, ReadType, Races, EthIdle, MainIdle, Send
<1>3. Registered'
  BY DEF IInv, Registered, Storing, Turns, StepsOf, Cleared, TypeOK, CpmType,
       ArType, EthType, MainType, ReadType, EthIdle, MainIdle, Send
<1>4. Owned'
  BY DEF IInv, Owned, BuffersOwned, Held, Turns, Registered, StepsOf, Cleared,
       TypeOK, CpmType, ArType, EthType, MainType, ReadType, Buffers, Frames,
       EthIdle, MainIdle, Send
<1>5. Order'
  BY DEF IInv, Order, Turns, Registered, StepsOf, Cleared, TypeOK, CpmType,
       ArType, EthType, MainType, ReadType, CycleOk, Frames, Buffers, Never,
       Storing, EthIdle, MainIdle, Send
<1>6. Fresh'
  BY DEF IInv, Fresh, Turns, Registered, Cleared, TypeOK, CpmType, ArType,
       EthType, MainType, ReadType, Order, Buffers, Frames, Storing, StepsOf,
       EthIdle, MainIdle, Send
<1>7. Counted'
  BY DEF IInv, Counted, Turns, Registered, Storing, StepsOf, Cleared, TypeOK,
       CpmType, ArType, EthType, MainType, ReadType, Buffers, EthIdle,
       MainIdle, Send
<1>8. Told'
  BY DEF IInv, Told, Turns, Registered, Order, Cleared, TypeOK, CpmType,
       ArType, EthType, MainType, ReadType, Frames, Buffers, Storing, EthIdle,
       MainIdle, Send
<1> QED  BY <1>1, <1>2, <1>3, <1>4, <1>5, <1>6, <1>7, <1>8 DEF IInv

\* A frame arrives.
LEMMA ReceiveStep == ASSUME IInv, Receive PROVE IInv'
<1>1. TypeOK'
  BY DEF IInv, TypeOK, CpmType, ArType, EthType, MainType, ReadType, Buffers,
       Frames, Never, Cleared, Counted, Registered, Turns, Owned, BuffersOwned,
       Order, Held, Races, EthIdle, MainIdle, Receive, Alone, FramesPass
<1>2. Turns'
  BY DEF IInv, Turns, Storing, StepsOf, Registered, Cleared, TypeOK, CpmType,
       ArType, EthType, MainType, ReadType, Races, EthIdle, MainIdle, Receive,
       Alone, FramesPass
<1>3. Registered'
  BY DEF IInv, Registered, Storing, Turns, StepsOf, Cleared, TypeOK, CpmType,
       ArType, EthType, MainType, ReadType, EthIdle, MainIdle, Receive, Alone,
       FramesPass
<1>4. Owned'
  BY DEF IInv, Owned, BuffersOwned, Held, Turns, Registered, StepsOf, Cleared,
       TypeOK, CpmType, ArType, EthType, MainType, ReadType, Buffers, Frames,
       EthIdle, MainIdle, Receive, Alone, FramesPass
<1>5. Order'
  BY CounterAssumption DEF CounterAssumption, IInv, Order, Turns, Registered,
       StepsOf, Cleared, TypeOK, CpmType, ArType, EthType, MainType, ReadType,
       CycleOk, Frames, Buffers, Never, Storing, EthIdle, MainIdle, Receive,
       Alone, FramesPass
<1>6. Fresh'
  BY DEF IInv, Fresh, Turns, Registered, Cleared, TypeOK, CpmType, ArType,
       EthType, MainType, ReadType, Order, Buffers, Frames, Storing, StepsOf,
       EthIdle, MainIdle, Receive, Alone, FramesPass
<1>7. Counted'
  BY DEF IInv, Counted, Turns, Registered, Storing, StepsOf, Cleared, TypeOK,
       CpmType, ArType, EthType, MainType, ReadType, Buffers, EthIdle,
       MainIdle, Receive, Alone, FramesPass
<1>8. Told'
  BY DEF IInv, Told, Turns, Registered, Order, Cleared, TypeOK, CpmType,
       ArType, EthType, MainType, ReadType, Frames, Buffers, Storing, EthIdle,
       MainIdle, Receive, Alone, FramesPass
<1> QED  BY <1>1, <1>2, <1>3, <1>4, <1>5, <1>6, <1>7, <1>8 DEF IInv

\* The handler decides on a frame.
LEMMA CheckStep == ASSUME IInv, Check PROVE IInv'
<1>1. TypeOK'
  BY DEF IInv, TypeOK, CpmType, ArType, EthType, MainType, ReadType, Buffers,
       Frames, Never, Cleared, Counted, Registered, Turns, Owned, BuffersOwned,
       Order, Held, Races, EthIdle, MainIdle, Check
<1>2. Turns'
  BY DEF IInv, Turns, Storing, StepsOf, Registered, Cleared, TypeOK, CpmType,
       ArType, EthType, MainType, ReadType, Races, EthIdle, MainIdle, Check
<1>3. Registered'
  BY DEF IInv, Registered, Storing, Turns, StepsOf, Cleared, TypeOK, CpmType,
       ArType, EthType, MainType, ReadType, EthIdle, MainIdle, Check
<1>4. Owned'
  BY DEF IInv, Owned, BuffersOwned, Held, Turns, Registered, StepsOf, Cleared,
       TypeOK, CpmType, ArType, EthType, MainType, ReadType, Buffers, Frames,
       EthIdle, MainIdle, Check
<1>5. Order'
  BY DEF IInv, Order, Turns, Registered, StepsOf, Cleared, TypeOK, CpmType,
       ArType, EthType, MainType, ReadType, CycleOk, Frames, Buffers, Never,
       Storing, EthIdle, MainIdle, Check
<1>6. Fresh'
  BY DEF IInv, Fresh, Turns, Registered, Cleared, TypeOK, CpmType, ArType,
       EthType, MainType, ReadType, Order, Buffers, Frames, Storing, StepsOf,
       EthIdle, MainIdle, Check
<1>7. Counted'
  BY DEF IInv, Counted, Turns, Registered, Storing, StepsOf, Cleared, TypeOK,
       CpmType, ArType, EthType, MainType, ReadType, Buffers, EthIdle,
       MainIdle, Check
<1>8. Told'
  BY DEF IInv, Told, Turns, Registered, Order, Cleared, TypeOK, CpmType,
       ArType, EthType, MainType, ReadType, Frames, Buffers, Storing, EthIdle,
       MainIdle, Check
<1> QED  BY <1>1, <1>2, <1>3, <1>4, <1>5, <1>6, <1>7, <1>8 DEF IInv

\* What CMIO hears changes its flag only.
LEMMA HearsType == ASSUME ar \in ArType, NEW v \in BOOLEAN PROVE Hears(v) \in ArType
BY DEF Hears, ArType

\* CMIO hears that the CPM starts.
LEMMA StartStep == ASSUME IInv, Start PROVE IInv'
<1>1. TypeOK'
  <2>1. ar' \in ArType  BY HearsType DEF Start, IInv, TypeOK
  <2>2. eth' \in EthType  BY DEF Start, IInv, TypeOK, EthType
  <2> QED  BY <2>1, <2>2 DEF Start, IInv, TypeOK
<1>2. Turns'
  BY DEF IInv, Turns, Storing, StepsOf, Registered, Cleared, TypeOK, CpmType,
       ArType, EthType, MainType, ReadType, Races, EthIdle, MainIdle, Start,
       Hears
<1>3. Registered'
  BY DEF IInv, Registered, Storing, Turns, StepsOf, Cleared, TypeOK, CpmType,
       ArType, EthType, MainType, ReadType, EthIdle, MainIdle, Start, Hears
<1>4. Owned'
  BY DEF IInv, Owned, BuffersOwned, Held, Turns, Registered, StepsOf, Cleared,
       TypeOK, CpmType, ArType, EthType, MainType, ReadType, Buffers, Frames,
       EthIdle, MainIdle, Start, Hears
<1>5. Order'
  BY DEF IInv, Order, Turns, Registered, StepsOf, Cleared, TypeOK, CpmType,
       ArType, EthType, MainType, ReadType, CycleOk, Frames, Buffers, Never,
       Storing, EthIdle, MainIdle, Start, Hears
<1>6. Fresh'
  BY DEF IInv, Fresh, Turns, Registered, Cleared, TypeOK, CpmType, ArType,
       EthType, MainType, ReadType, Order, Buffers, Frames, Storing, StepsOf,
       EthIdle, MainIdle, Start, Hears
<1>7. Counted'
  BY DEF IInv, Counted, Turns, Registered, Storing, StepsOf, Cleared, TypeOK,
       CpmType, ArType, EthType, MainType, ReadType, Buffers, EthIdle,
       MainIdle, Start, Hears
<1>8. Told'
  BY DEF IInv, Told, Turns, Registered, Order, Cleared, TypeOK, CpmType,
       ArType, EthType, MainType, ReadType, Frames, Buffers, Storing, EthIdle,
       MainIdle, Start, Hears
<1> QED  BY <1>1, <1>2, <1>3, <1>4, <1>5, <1>6, <1>7, <1>8 DEF IInv

\* The handler stores the frame.
LEMMA PutBufStep == ASSUME IInv, PutBuf PROVE IInv'
<1>1. TypeOK'
  <2>1. cpm \in CpmType /\ eth \in EthType  BY DEF IInv, TypeOK
  <2>2. eth.buf \in Buffers /\ eth.frame \in Buffers /\ cpm.cpmBuf \in Buffers
    BY <2>1 DEF EthType, CpmType
  <2>3. cpm' \in CpmType  BY <2>1, <2>2 DEF PutBuf, Swapped, CpmType
  <2>4. eth' \in EthType  BY <2>1, <2>2 DEF PutBuf, EthType
  <2>5. newest' \in Buffers  BY <2>2 DEF PutBuf
  <2> QED  BY <2>3, <2>4, <2>5 DEF PutBuf, IInv, TypeOK
<1>2. Turns'
  BY DEF IInv, Turns, Storing, StepsOf, Registered, Cleared, TypeOK, CpmType,
       ArType, EthType, MainType, ReadType, Races, EthIdle, MainIdle, PutBuf,
       Swapped
<1>3. Registered'
  BY DEF IInv, Registered, Storing, Turns, StepsOf, Cleared, TypeOK, CpmType,
       ArType, EthType, MainType, ReadType, EthIdle, MainIdle, PutBuf, Swapped
<1>4. Owned'
  BY DEF IInv, Owned, BuffersOwned, Held, Turns, Registered, StepsOf, Cleared,
       TypeOK, CpmType, ArType, EthType, MainType, ReadType, Buffers, Frames,
       EthIdle, MainIdle, PutBuf, Swapped
<1>5. Order'
  <2>1. newest < eth.frame  BY StoresNewer DEF PutBuf
  <2>2. newest \in Nat /\ sent \in Nat /\ eth.frame \in Frames /\ eth.frame \in Nat
        /\ eth.frame <= sent /\ Reorder \in Nat
    BY CounterAssumption DEF CounterAssumption, IInv, TypeOK, EthType, Order, EthIdle,
       Buffers, Frames, PutBuf
  <2> QED
    BY <2>1, <2>2 DEF IInv, Order, TypeOK, CpmType, EthType, Registered, Turns, PutBuf, Swapped,
       EthIdle, MainIdle
<1>6. Fresh'
  <2>1. newest < eth.frame  BY StoresNewer DEF PutBuf
  <2>2. newest \in Nat /\ eth.frame \in Nat /\ read.frame \in Nat
    BY DEF IInv, TypeOK, EthType, ReadType, Buffers, EthIdle
  <2>3. eth.buf = eth.frame
    BY DEF IInv, Order, PutBuf
  <2> QED
    BY <2>1, <2>2, <2>3 DEF IInv, Fresh, TypeOK, CpmType, EthType, ReadType, Registered, Turns, PutBuf,
       Swapped, EthIdle, MainIdle
<1>7. Counted'
  BY DEF IInv, Counted, Turns, Registered, Storing, StepsOf, Cleared, TypeOK,
       CpmType, ArType, EthType, MainType, ReadType, Buffers, EthIdle,
       MainIdle, PutBuf, Swapped
<1>8. Told'
  BY DEF IInv, Told, Turns, Registered, Order, Cleared, TypeOK, CpmType,
       ArType, EthType, MainType, ReadType, Frames, Buffers, Storing, EthIdle,
       MainIdle, PutBuf, Swapped
<1> QED  BY <1>1, <1>2, <1>3, <1>4, <1>5, <1>6, <1>7, <1>8 DEF IInv

\* CMIO hears of new data.
LEMMA TellStep == ASSUME IInv, Tell PROVE IInv'
<1>1. TypeOK'
  <2>1. ar' \in ArType  BY HearsType DEF Tell, IInv, TypeOK
  <2>2. eth' \in EthType  BY DEF Tell, IInv, TypeOK, EthType
  <2> QED  BY <2>1, <2>2 DEF Tell, IInv, TypeOK
<1>2. Turns'
  BY DEF IInv, Turns, Storing, StepsOf, Registered, Cleared, TypeOK, CpmType,
       ArType, EthType, MainType, ReadType, Races, EthIdle, MainIdle, Tell,
       Hears
<1>3. Registered'
  BY DEF IInv, Registered, Storing, Turns, StepsOf, Cleared, TypeOK, CpmType,
       ArType, EthType, MainType, ReadType, EthIdle, MainIdle, Tell, Hears
<1>4. Owned'
  BY DEF IInv, Owned, BuffersOwned, Held, Turns, Registered, StepsOf, Cleared,
       TypeOK, CpmType, ArType, EthType, MainType, ReadType, Buffers, Frames,
       EthIdle, MainIdle, Tell, Hears
<1>5. Order'
  BY DEF IInv, Order, Turns, Registered, StepsOf, Cleared, TypeOK, CpmType,
       ArType, EthType, MainType, ReadType, CycleOk, Frames, Buffers, Never,
       Storing, EthIdle, MainIdle, Tell, Hears
<1>6. Fresh'
  BY DEF IInv, Fresh, Turns, Registered, Cleared, TypeOK, CpmType, ArType,
       EthType, MainType, ReadType, Order, Buffers, Frames, Storing, StepsOf,
       EthIdle, MainIdle, Tell, Hears
<1>7. Counted'
  BY DEF IInv, Counted, Turns, Registered, Storing, StepsOf, Cleared, TypeOK,
       CpmType, ArType, EthType, MainType, ReadType, Buffers, EthIdle,
       MainIdle, Tell, Hears
<1>8. Told'
  BY DEF IInv, Told, Turns, Registered, Order, Cleared, TypeOK, CpmType,
       ArType, EthType, MainType, ReadType, Frames, Buffers, Storing, EthIdle,
       MainIdle, Tell, Hears
<1> QED  BY <1>1, <1>2, <1>3, <1>4, <1>5, <1>6, <1>7, <1>8 DEF IInv

\* The handler resets dht and keeps the counter.
LEMMA ReloadStep == ASSUME IInv, Reload PROVE IInv'
<1>1. TypeOK'
  <2>1. 0 \in 0 .. Hold /\ 0 \in 0 .. Hold - 1 /\ 0 \in 0 .. Hold + 1 /\ 0 \in Buffers
    BY CounterAssumption DEF CounterAssumption, Buffers
  <2>2. eth.frame % Modulus \in 0 .. Modulus - 1
    BY CounterAssumption DEF CounterAssumption, IInv, TypeOK, EthType, Buffers
  <2>3. cpm' \in CpmType
    BY <2>1, <2>2 DEF IInv, TypeOK, CpmType, Reload, Reloaded
  <2>4. eth' \in EthType
    BY <2>1, <2>2 DEF IInv, TypeOK, EthType, Reload, Reloaded
  <2> QED
    BY <2>1, <2>2, <2>3, <2>4 DEF IInv, TypeOK, Reload, Reloaded
<1>2. Turns'
  BY DEF IInv, Turns, Storing, StepsOf, Registered, Cleared, TypeOK, CpmType,
       ArType, EthType, MainType, ReadType, Races, EthIdle, MainIdle, Reload,
       Reloaded
<1>3. Registered'
  BY DEF IInv, Registered, Storing, Turns, StepsOf, Cleared, TypeOK, CpmType,
       ArType, EthType, MainType, ReadType, EthIdle, MainIdle, Reload, Reloaded
<1>4. Owned'
  BY DEF IInv, Owned, BuffersOwned, Held, Turns, Registered, StepsOf, Cleared,
       TypeOK, CpmType, ArType, EthType, MainType, ReadType, Buffers, Frames,
       EthIdle, MainIdle, Reload, Reloaded
<1>5. Order'
  BY DEF IInv, Order, Turns, Registered, StepsOf, Cleared, TypeOK, CpmType,
       ArType, EthType, MainType, ReadType, CycleOk, Frames, Buffers, Never,
       Storing, EthIdle, MainIdle, Reload, Reloaded
<1>6. Fresh'
  BY DEF IInv, Fresh, Turns, Registered, Cleared, TypeOK, CpmType, ArType,
       EthType, MainType, ReadType, Order, Buffers, Frames, Storing, StepsOf,
       EthIdle, MainIdle, Reload, Reloaded
<1>7. Counted'
  BY CounterAssumption DEF CounterAssumption, IInv, Counted, Turns, Registered,
       Storing, StepsOf, Cleared, TypeOK, CpmType, ArType, EthType, MainType,
       ReadType, Buffers, EthIdle, MainIdle, Reload, Reloaded
<1>8. Told'
  BY DEF IInv, Told, Turns, Registered, Order, Cleared, TypeOK, CpmType,
       ArType, EthType, MainType, ReadType, Frames, Buffers, Storing, EthIdle,
       MainIdle, Reload, Reloaded
<1> QED  BY <1>1, <1>2, <1>3, <1>4, <1>5, <1>6, <1>7, <1>8 DEF IInv

\* The handler sets RUN.
LEMMA RunStep == ASSUME IInv, Run PROVE IInv'
<1>1. TypeOK'
  BY DEF IInv, TypeOK, CpmType, ArType, EthType, MainType, ReadType, Buffers,
       Frames, Never, Cleared, Counted, Registered, Turns, Owned, BuffersOwned,
       Order, Held, Races, EthIdle, MainIdle, Run
<1>2. Turns'
  BY DEF IInv, Turns, Storing, StepsOf, Registered, Cleared, TypeOK, CpmType,
       ArType, EthType, MainType, ReadType, Races, EthIdle, MainIdle, Run
<1>3. Registered'
  BY DEF IInv, Registered, Storing, Turns, StepsOf, Cleared, TypeOK, CpmType,
       ArType, EthType, MainType, ReadType, EthIdle, MainIdle, Run
<1>4. Owned'
  BY DEF IInv, Owned, BuffersOwned, Held, Turns, Registered, StepsOf, Cleared,
       TypeOK, CpmType, ArType, EthType, MainType, ReadType, Buffers, Frames,
       EthIdle, MainIdle, Run
<1>5. Order'
  BY DEF IInv, Order, Turns, Registered, StepsOf, Cleared, TypeOK, CpmType,
       ArType, EthType, MainType, ReadType, CycleOk, Frames, Buffers, Never,
       Storing, EthIdle, MainIdle, Run
<1>6. Fresh'
  BY DEF IInv, Fresh, Turns, Registered, Cleared, TypeOK, CpmType, ArType,
       EthType, MainType, ReadType, Order, Buffers, Frames, Storing, StepsOf,
       EthIdle, MainIdle, Run
<1>7. Counted'
  BY DEF IInv, Counted, Turns, Registered, Storing, StepsOf, Cleared, TypeOK,
       CpmType, ArType, EthType, MainType, ReadType, Buffers, EthIdle,
       MainIdle, Run
<1>8. Told'
  BY DEF IInv, Told, Turns, Registered, Order, Cleared, TypeOK, CpmType,
       ArType, EthType, MainType, ReadType, Frames, Buffers, Storing, EthIdle,
       MainIdle, Run
<1> QED  BY <1>1, <1>2, <1>3, <1>4, <1>5, <1>6, <1>7, <1>8 DEF IInv

\* The handler frees the older buffer.
LEMMA FreeBufStep == ASSUME IInv, FreeBuf PROVE IInv'
<1>1. TypeOK'
  <2>1. 0 \in 0 .. Hold /\ 0 \in 0 .. Hold - 1 /\ 0 \in 0 .. Hold + 1 /\ 0 \in Buffers
    BY CounterAssumption DEF CounterAssumption, Buffers
  <2>2. live - Held(eth.buf) \in Nat
    BY CounterAssumption DEF CounterAssumption, IInv, TypeOK, CpmType, EthType,
         Turns, Owned, BuffersOwned, StepsOf, EthIdle, Held, FreeBuf, Buffers
  <2>3. eth' \in EthType
    BY <2>1, <2>2 DEF IInv, TypeOK, EthType, FreeBuf
  <2> QED
    BY <2>1, <2>2, <2>3 DEF IInv, TypeOK, FreeBuf
<1>2. Turns'
  BY DEF IInv, Turns, Storing, StepsOf, Registered, Cleared, TypeOK, CpmType,
       ArType, EthType, MainType, ReadType, Races, EthIdle, MainIdle, FreeBuf
<1>3. Registered'
  BY DEF IInv, Registered, Storing, Turns, StepsOf, Cleared, TypeOK, CpmType,
       ArType, EthType, MainType, ReadType, EthIdle, MainIdle, FreeBuf
<1>4. Owned'
  BY DEF IInv, Owned, BuffersOwned, Held, Turns, Registered, StepsOf, Cleared,
       TypeOK, CpmType, ArType, EthType, MainType, ReadType, Buffers, Frames,
       EthIdle, MainIdle, FreeBuf
<1>5. Order'
  BY DEF IInv, Order, Turns, Registered, StepsOf, Cleared, TypeOK, CpmType,
       ArType, EthType, MainType, ReadType, CycleOk, Frames, Buffers, Never,
       Storing, EthIdle, MainIdle, FreeBuf
<1>6. Fresh'
  BY DEF IInv, Fresh, Turns, Registered, Cleared, TypeOK, CpmType, ArType,
       EthType, MainType, ReadType, Order, Buffers, Frames, Storing, StepsOf,
       EthIdle, MainIdle, FreeBuf
<1>7. Counted'
  BY DEF IInv, Counted, Turns, Registered, Storing, StepsOf, Cleared, TypeOK,
       CpmType, ArType, EthType, MainType, ReadType, Buffers, EthIdle,
       MainIdle, FreeBuf
<1>8. Told'
  BY DEF IInv, Told, Turns, Registered, Order, Cleared, TypeOK, CpmType,
       ArType, EthType, MainType, ReadType, Frames, Buffers, Storing, EthIdle,
       MainIdle, FreeBuf
<1> QED  BY <1>1, <1>2, <1>3, <1>4, <1>5, <1>6, <1>7, <1>8 DEF IInv

\* The AR opens.
LEMMA ActivateStep == ASSUME IInv, Activate PROVE IInv'
<1>1. TypeOK'
  <2>1. 0 \in 0 .. Hold /\ 0 \in 0 .. Hold - 1 /\ 0 \in 0 .. Hold + 1 /\ 0 \in Buffers
    BY CounterAssumption DEF CounterAssumption, Buffers
  <2>2. cpm' \in CpmType
    BY <2>1 DEF IInv, TypeOK, CpmType, Activate, NoAr, Cleared
  <2>3. ar' \in ArType
    BY <2>1 DEF IInv, TypeOK, ArType, Activate, NoAr, Cleared
  <2>4. main' \in MainType
    BY <2>1 DEF IInv, TypeOK, MainType, Activate, NoAr, Cleared
  <2>5. read' \in ReadType
    BY <2>1 DEF IInv, TypeOK, ReadType, Activate, NoAr, Cleared
  <2> QED
    BY <2>1, <2>2, <2>3, <2>4, <2>5 DEF IInv, TypeOK, Activate, NoAr, Cleared
<1>2. Turns'
  BY DEF IInv, Turns, Storing, StepsOf, Registered, Cleared, TypeOK, CpmType,
       ArType, EthType, MainType, ReadType, Races, EthIdle, MainIdle, Activate,
       NoAr
<1>3. Registered'
  BY DEF IInv, Registered, Storing, Turns, StepsOf, Cleared, TypeOK, CpmType,
       ArType, EthType, MainType, ReadType, EthIdle, MainIdle, Activate, NoAr
<1>4. Owned'
  BY DEF IInv, Owned, BuffersOwned, Held, Turns, Registered, StepsOf, Cleared,
       TypeOK, CpmType, ArType, EthType, MainType, ReadType, Buffers, Frames,
       EthIdle, MainIdle, Activate, NoAr
<1>5. Order'
  BY DEF IInv, Order, Turns, Registered, StepsOf, Cleared, TypeOK, CpmType,
       ArType, EthType, MainType, ReadType, CycleOk, Frames, Buffers, Never,
       Storing, EthIdle, MainIdle, Activate, NoAr
<1>6. Fresh'
  BY DEF IInv, Fresh, Turns, Registered, Cleared, TypeOK, CpmType, ArType,
       EthType, MainType, ReadType, Order, Buffers, Frames, Storing, StepsOf,
       EthIdle, MainIdle, Activate, NoAr
<1>7. Counted'
  BY DEF IInv, Counted, Turns, Registered, Storing, StepsOf, Cleared, TypeOK,
       CpmType, ArType, EthType, MainType, ReadType, Buffers, EthIdle,
       MainIdle, Activate, NoAr
<1>8. Told'
  BY DEF IInv, Told, Turns, Registered, Order, Cleared, TypeOK, CpmType,
       ArType, EthType, MainType, ReadType, Frames, Buffers, Storing, EthIdle,
       MainIdle, Activate, NoAr
<1> QED  BY <1>1, <1>2, <1>3, <1>4, <1>5, <1>6, <1>7, <1>8 DEF IInv

\* The control interval is armed.
LEMMA ArmStep == ASSUME IInv, Arm PROVE IInv'
<1>1. TypeOK'
  BY DEF IInv, TypeOK, CpmType, ArType, EthType, MainType, ReadType, Buffers,
       Frames, Never, Cleared, Counted, Registered, Turns, Owned, BuffersOwned,
       Order, Held, Races, EthIdle, MainIdle, Arm
<1>2. Turns'
  BY DEF IInv, Turns, Storing, StepsOf, Registered, Cleared, TypeOK, CpmType,
       ArType, EthType, MainType, ReadType, Races, EthIdle, MainIdle, Arm
<1>3. Registered'
  BY DEF IInv, Registered, Storing, Turns, StepsOf, Cleared, TypeOK, CpmType,
       ArType, EthType, MainType, ReadType, EthIdle, MainIdle, Arm
<1>4. Owned'
  BY DEF IInv, Owned, BuffersOwned, Held, Turns, Registered, StepsOf, Cleared,
       TypeOK, CpmType, ArType, EthType, MainType, ReadType, Buffers, Frames,
       EthIdle, MainIdle, Arm
<1>5. Order'
  BY DEF IInv, Order, Turns, Registered, StepsOf, Cleared, TypeOK, CpmType,
       ArType, EthType, MainType, ReadType, CycleOk, Frames, Buffers, Never,
       Storing, EthIdle, MainIdle, Arm
<1>6. Fresh'
  BY DEF IInv, Fresh, Turns, Registered, Cleared, TypeOK, CpmType, ArType,
       EthType, MainType, ReadType, Order, Buffers, Frames, Storing, StepsOf,
       EthIdle, MainIdle, Arm
<1>7. Counted'
  BY DEF IInv, Counted, Turns, Registered, Storing, StepsOf, Cleared, TypeOK,
       CpmType, ArType, EthType, MainType, ReadType, Buffers, EthIdle,
       MainIdle, Arm
<1>8. Told'
  BY DEF IInv, Told, Turns, Registered, Order, Cleared, TypeOK, CpmType,
       ArType, EthType, MainType, ReadType, Frames, Buffers, Storing, EthIdle,
       MainIdle, Arm
<1> QED  BY <1>1, <1>2, <1>3, <1>4, <1>5, <1>6, <1>7, <1>8 DEF IInv

\* The CPM waits for its first frame.
LEMMA FrunStep == ASSUME IInv, Frun PROVE IInv'
<1>1. TypeOK'
  BY DEF IInv, TypeOK, CpmType, ArType, EthType, MainType, ReadType, Buffers,
       Frames, Never, Cleared, Counted, Registered, Turns, Owned, BuffersOwned,
       Order, Held, Races, EthIdle, MainIdle, Frun
<1>2. Turns'
  BY DEF IInv, Turns, Storing, StepsOf, Registered, Cleared, TypeOK, CpmType,
       ArType, EthType, MainType, ReadType, Races, EthIdle, MainIdle, Frun
<1>3. Registered'
  BY DEF IInv, Registered, Storing, Turns, StepsOf, Cleared, TypeOK, CpmType,
       ArType, EthType, MainType, ReadType, EthIdle, MainIdle, Frun
<1>4. Owned'
  BY DEF IInv, Owned, BuffersOwned, Held, Turns, Registered, StepsOf, Cleared,
       TypeOK, CpmType, ArType, EthType, MainType, ReadType, Buffers, Frames,
       EthIdle, MainIdle, Frun
<1>5. Order'
  BY DEF IInv, Order, Turns, Registered, StepsOf, Cleared, TypeOK, CpmType,
       ArType, EthType, MainType, ReadType, CycleOk, Frames, Buffers, Never,
       Storing, EthIdle, MainIdle, Frun
<1>6. Fresh'
  BY DEF IInv, Fresh, Turns, Registered, Cleared, TypeOK, CpmType, ArType,
       EthType, MainType, ReadType, Order, Buffers, Frames, Storing, StepsOf,
       EthIdle, MainIdle, Frun
<1>7. Counted'
  BY DEF IInv, Counted, Turns, Registered, Storing, StepsOf, Cleared, TypeOK,
       CpmType, ArType, EthType, MainType, ReadType, Buffers, EthIdle,
       MainIdle, Frun
<1>8. Told'
  BY DEF IInv, Told, Turns, Registered, Order, Cleared, TypeOK, CpmType,
       ArType, EthType, MainType, ReadType, Frames, Buffers, Storing, EthIdle,
       MainIdle, Frun
<1> QED  BY <1>1, <1>2, <1>3, <1>4, <1>5, <1>6, <1>7, <1>8 DEF IInv

\* The start-up goes on.
LEMMA PrmEndStep == ASSUME IInv, PrmEnd PROVE IInv'
<1>1. TypeOK'
  BY DEF IInv, TypeOK, CpmType, ArType, EthType, MainType, ReadType, Buffers,
       Frames, Never, Cleared, Counted, Registered, Turns, Owned, BuffersOwned,
       Order, Held, Races, EthIdle, MainIdle, PrmEnd
<1>2. Turns'
  BY DEF IInv, Turns, Storing, StepsOf, Registered, Cleared, TypeOK, CpmType,
       ArType, EthType, MainType, ReadType, Races, EthIdle, MainIdle, PrmEnd
<1>3. Registered'
  BY DEF IInv, Registered, Storing, Turns, StepsOf, Cleared, TypeOK, CpmType,
       ArType, EthType, MainType, ReadType, EthIdle, MainIdle, PrmEnd
<1>4. Owned'
  BY DEF IInv, Owned, BuffersOwned, Held, Turns, Registered, StepsOf, Cleared,
       TypeOK, CpmType, ArType, EthType, MainType, ReadType, Buffers, Frames,
       EthIdle, MainIdle, PrmEnd
<1>5. Order'
  BY DEF IInv, Order, Turns, Registered, StepsOf, Cleared, TypeOK, CpmType,
       ArType, EthType, MainType, ReadType, CycleOk, Frames, Buffers, Never,
       Storing, EthIdle, MainIdle, PrmEnd
<1>6. Fresh'
  BY DEF IInv, Fresh, Turns, Registered, Cleared, TypeOK, CpmType, ArType,
       EthType, MainType, ReadType, Order, Buffers, Frames, Storing, StepsOf,
       EthIdle, MainIdle, PrmEnd
<1>7. Counted'
  BY DEF IInv, Counted, Turns, Registered, Storing, StepsOf, Cleared, TypeOK,
       CpmType, ArType, EthType, MainType, ReadType, Buffers, EthIdle,
       MainIdle, PrmEnd
<1>8. Told'
  BY DEF IInv, Told, Turns, Registered, Order, Cleared, TypeOK, CpmType,
       ArType, EthType, MainType, ReadType, Frames, Buffers, Storing, EthIdle,
       MainIdle, PrmEnd
<1> QED  BY <1>1, <1>2, <1>3, <1>4, <1>5, <1>6, <1>7, <1>8 DEF IInv

\* CMIO polls.
LEMMA PollStep == ASSUME IInv, Poll PROVE IInv'
<1>1. TypeOK'
  BY DEF IInv, TypeOK, CpmType, ArType, EthType, MainType, ReadType, Buffers,
       Frames, Never, Cleared, Counted, Registered, Turns, Owned, BuffersOwned,
       Order, Held, Races, EthIdle, MainIdle, Poll, Polled
<1>2. Turns'
  BY DEF IInv, Turns, Storing, StepsOf, Registered, Cleared, TypeOK, CpmType,
       ArType, EthType, MainType, ReadType, Races, EthIdle, MainIdle, Poll,
       Polled
<1>3. Registered'
  BY DEF IInv, Registered, Storing, Turns, StepsOf, Cleared, TypeOK, CpmType,
       ArType, EthType, MainType, ReadType, EthIdle, MainIdle, Poll, Polled
<1>4. Owned'
  BY DEF IInv, Owned, BuffersOwned, Held, Turns, Registered, StepsOf, Cleared,
       TypeOK, CpmType, ArType, EthType, MainType, ReadType, Buffers, Frames,
       EthIdle, MainIdle, Poll, Polled
<1>5. Order'
  BY DEF IInv, Order, Turns, Registered, StepsOf, Cleared, TypeOK, CpmType,
       ArType, EthType, MainType, ReadType, CycleOk, Frames, Buffers, Never,
       Storing, EthIdle, MainIdle, Poll, Polled
<1>6. Fresh'
  BY DEF IInv, Fresh, Turns, Registered, Cleared, TypeOK, CpmType, ArType,
       EthType, MainType, ReadType, Order, Buffers, Frames, Storing, StepsOf,
       EthIdle, MainIdle, Poll, Polled
<1>7. Counted'
  BY DEF IInv, Counted, Turns, Registered, Storing, StepsOf, Cleared, TypeOK,
       CpmType, ArType, EthType, MainType, ReadType, Buffers, EthIdle,
       MainIdle, Poll, Polled
<1>8. Told'
  BY DEF IInv, Told, Turns, Registered, Order, Cleared, TypeOK, CpmType,
       ArType, EthType, MainType, ReadType, Frames, Buffers, Storing, EthIdle,
       MainIdle, Poll, Polled
<1> QED  BY <1>1, <1>2, <1>3, <1>4, <1>5, <1>6, <1>7, <1>8 DEF IInv

\* The AR reaches DATA.
LEMMA DataStep == ASSUME IInv, Data PROVE IInv'
<1>1. TypeOK'
  BY DEF IInv, TypeOK, CpmType, ArType, EthType, MainType, ReadType, Buffers,
       Frames, Never, Cleared, Counted, Registered, Turns, Owned, BuffersOwned,
       Order, Held, Races, EthIdle, MainIdle, Data
<1>2. Turns'
  BY DEF IInv, Turns, Storing, StepsOf, Registered, Cleared, TypeOK, CpmType,
       ArType, EthType, MainType, ReadType, Races, EthIdle, MainIdle, Data
<1>3. Registered'
  BY DEF IInv, Registered, Storing, Turns, StepsOf, Cleared, TypeOK, CpmType,
       ArType, EthType, MainType, ReadType, EthIdle, MainIdle, Data
<1>4. Owned'
  BY DEF IInv, Owned, BuffersOwned, Held, Turns, Registered, StepsOf, Cleared,
       TypeOK, CpmType, ArType, EthType, MainType, ReadType, Buffers, Frames,
       EthIdle, MainIdle, Data
<1>5. Order'
  BY DEF IInv, Order, Turns, Registered, StepsOf, Cleared, TypeOK, CpmType,
       ArType, EthType, MainType, ReadType, CycleOk, Frames, Buffers, Never,
       Storing, EthIdle, MainIdle, Data
<1>6. Fresh'
  BY DEF IInv, Fresh, Turns, Registered, Cleared, TypeOK, CpmType, ArType,
       EthType, MainType, ReadType, Order, Buffers, Frames, Storing, StepsOf,
       EthIdle, MainIdle, Data
<1>7. Counted'
  BY DEF IInv, Counted, Turns, Registered, Storing, StepsOf, Cleared, TypeOK,
       CpmType, ArType, EthType, MainType, ReadType, Buffers, EthIdle,
       MainIdle, Data
<1>8. Told'
  BY DEF IInv, Told, Turns, Registered, Order, Cleared, TypeOK, CpmType,
       ArType, EthType, MainType, ReadType, Frames, Buffers, Storing, EthIdle,
       MainIdle, Data
<1> QED  BY <1>1, <1>2, <1>3, <1>4, <1>5, <1>6, <1>7, <1>8 DEF IInv

\* The callback reads dht.
LEMMA ExpireCountStep == ASSUME IInv, ExpireCount PROVE IInv'
<1>1. TypeOK'
  <2>1. 0 \in 0 .. Hold /\ 0 \in 0 .. Hold - 1 /\ 0 \in 0 .. Hold + 1 /\ 0 \in Buffers
    BY CounterAssumption DEF CounterAssumption, Buffers
  <2>2. cpm.dht \in 0 .. Hold - 1
    BY CounterAssumption DEF CounterAssumption, IInv, TypeOK, CpmType,
         ExpireCount, HoldExpired
  <2>3. quiet + 1 \in 0 .. Hold + 1
    BY CounterAssumption DEF CounterAssumption, IInv, TypeOK, CpmType, Counted,
         MainIdle, ExpireCount, Expired, HoldExpired
  <2>4. main' \in MainType
    BY <2>1, <2>2, <2>3 DEF IInv, TypeOK, MainType, ExpireCount
  <2> QED
    BY <2>1, <2>2, <2>3, <2>4 DEF IInv, TypeOK, ExpireCount
<1>2. Turns'
  BY DEF IInv, Turns, Storing, StepsOf, Registered, Cleared, TypeOK, CpmType,
       ArType, EthType, MainType, ReadType, Races, EthIdle, MainIdle,
       ExpireCount, Expired, HoldExpired, Alone
<1>3. Registered'
  BY DEF IInv, Registered, Storing, Turns, StepsOf, Cleared, TypeOK, CpmType,
       ArType, EthType, MainType, ReadType, EthIdle, MainIdle, ExpireCount,
       Expired, HoldExpired, Alone
<1>4. Owned'
  BY DEF IInv, Owned, BuffersOwned, Held, Turns, Registered, StepsOf, Cleared,
       TypeOK, CpmType, ArType, EthType, MainType, ReadType, Buffers, Frames,
       EthIdle, MainIdle, ExpireCount, Expired, HoldExpired, Alone
<1>5. Order'
  BY DEF IInv, Order, Turns, Registered, StepsOf, Cleared, TypeOK, CpmType,
       ArType, EthType, MainType, ReadType, CycleOk, Frames, Buffers, Never,
       Storing, EthIdle, MainIdle, ExpireCount, Expired, HoldExpired, Alone
<1>6. Fresh'
  BY DEF IInv, Fresh, Turns, Registered, Cleared, TypeOK, CpmType, ArType,
       EthType, MainType, ReadType, Order, Buffers, Frames, Storing, StepsOf,
       EthIdle, MainIdle, ExpireCount, Expired, HoldExpired, Alone
<1>7. Counted'
  BY DEF IInv, Counted, Turns, Registered, Storing, StepsOf, Cleared, TypeOK,
       CpmType, ArType, EthType, MainType, ReadType, Buffers, EthIdle,
       MainIdle, ExpireCount, Expired, HoldExpired, Alone
<1>8. Told'
  BY DEF IInv, Told, Turns, Registered, Order, Cleared, TypeOK, CpmType,
       ArType, EthType, MainType, ReadType, Frames, Buffers, Storing, EthIdle,
       MainIdle, ExpireCount, Expired, HoldExpired, Alone
<1> QED  BY <1>1, <1>2, <1>3, <1>4, <1>5, <1>6, <1>7, <1>8 DEF IInv

\* The callback of a waiting CPM.
LEMMA ExpireWaitStep == ASSUME IInv, ExpireWait PROVE IInv'
<1>1. TypeOK'
  <2>1. 0 \in 0 .. Hold /\ 0 \in 0 .. Hold - 1 /\ 0 \in 0 .. Hold + 1 /\ 0 \in Buffers
    BY CounterAssumption DEF CounterAssumption, Buffers
  <2>2. main' \in MainType
    BY <2>1 DEF IInv, TypeOK, MainType, ExpireWait, Rearm
  <2> QED
    BY <2>1, <2>2 DEF IInv, TypeOK, ExpireWait, Rearm
<1>2. Turns'
  BY DEF IInv, Turns, Storing, StepsOf, Registered, Cleared, TypeOK, CpmType,
       ArType, EthType, MainType, ReadType, Races, EthIdle, MainIdle,
       ExpireWait, Expired, Rearm, Alone
<1>3. Registered'
  BY DEF IInv, Registered, Storing, Turns, StepsOf, Cleared, TypeOK, CpmType,
       ArType, EthType, MainType, ReadType, EthIdle, MainIdle, ExpireWait,
       Expired, Rearm, Alone
<1>4. Owned'
  BY DEF IInv, Owned, BuffersOwned, Held, Turns, Registered, StepsOf, Cleared,
       TypeOK, CpmType, ArType, EthType, MainType, ReadType, Buffers, Frames,
       EthIdle, MainIdle, ExpireWait, Expired, Rearm, Alone
<1>5. Order'
  BY DEF IInv, Order, Turns, Registered, StepsOf, Cleared, TypeOK, CpmType,
       ArType, EthType, MainType, ReadType, CycleOk, Frames, Buffers, Never,
       Storing, EthIdle, MainIdle, ExpireWait, Expired, Rearm, Alone
<1>6. Fresh'
  BY DEF IInv, Fresh, Turns, Registered, Cleared, TypeOK, CpmType, ArType,
       EthType, MainType, ReadType, Order, Buffers, Frames, Storing, StepsOf,
       EthIdle, MainIdle, ExpireWait, Expired, Rearm, Alone
<1>7. Counted'
  BY DEF IInv, Counted, Turns, Registered, Storing, StepsOf, Cleared, TypeOK,
       CpmType, ArType, EthType, MainType, ReadType, Buffers, EthIdle,
       MainIdle, ExpireWait, Expired, Rearm, Alone
<1>8. Told'
  BY DEF IInv, Told, Turns, Registered, Order, Cleared, TypeOK, CpmType,
       ArType, EthType, MainType, ReadType, Frames, Buffers, Storing, EthIdle,
       MainIdle, ExpireWait, Expired, Rearm, Alone
<1> QED  BY <1>1, <1>2, <1>3, <1>4, <1>5, <1>6, <1>7, <1>8 DEF IInv

\* The data hold time has expired.
LEMMA ExpireStopStep == ASSUME IInv, ExpireStop PROVE IInv'
<1>1. TypeOK'
  <2>1. 0 \in 0 .. Hold /\ 0 \in 0 .. Hold - 1 /\ 0 \in 0 .. Hold + 1 /\ 0 \in Buffers
    BY CounterAssumption DEF CounterAssumption, Buffers
  <2>2. quiet + 1 \in 0 .. Hold + 1
    BY CounterAssumption DEF CounterAssumption, IInv, TypeOK, CpmType, Counted,
         MainIdle, ExpireStop, Expired
  <2>3. main' \in MainType
    BY <2>1, <2>2 DEF IInv, TypeOK, MainType, ExpireStop
  <2> QED
    BY <2>1, <2>2, <2>3 DEF IInv, TypeOK, ExpireStop
<1>2. Turns'
  BY DEF IInv, Turns, Storing, StepsOf, Registered, Cleared, TypeOK, CpmType,
       ArType, EthType, MainType, ReadType, Races, EthIdle, MainIdle,
       ExpireStop, Expired, HoldExpired, Alone
<1>3. Registered'
  BY DEF IInv, Registered, Storing, Turns, StepsOf, Cleared, TypeOK, CpmType,
       ArType, EthType, MainType, ReadType, EthIdle, MainIdle, ExpireStop,
       Expired, HoldExpired, Alone
<1>4. Owned'
  BY DEF IInv, Owned, BuffersOwned, Held, Turns, Registered, StepsOf, Cleared,
       TypeOK, CpmType, ArType, EthType, MainType, ReadType, Buffers, Frames,
       EthIdle, MainIdle, ExpireStop, Expired, HoldExpired, Alone
<1>5. Order'
  BY DEF IInv, Order, Turns, Registered, StepsOf, Cleared, TypeOK, CpmType,
       ArType, EthType, MainType, ReadType, CycleOk, Frames, Buffers, Never,
       Storing, EthIdle, MainIdle, ExpireStop, Expired, HoldExpired, Alone
<1>6. Fresh'
  BY DEF IInv, Fresh, Turns, Registered, Cleared, TypeOK, CpmType, ArType,
       EthType, MainType, ReadType, Order, Buffers, Frames, Storing, StepsOf,
       EthIdle, MainIdle, ExpireStop, Expired, HoldExpired, Alone
<1>7. Counted'
  BY CounterAssumption DEF CounterAssumption, IInv, Counted, Turns, Registered,
       Storing, StepsOf, Cleared, TypeOK, CpmType, ArType, EthType, MainType,
       ReadType, Buffers, EthIdle, MainIdle, ExpireStop, Expired, HoldExpired,
       Alone
<1>8. Told'
  BY DEF IInv, Told, Turns, Registered, Order, Cleared, TypeOK, CpmType,
       ArType, EthType, MainType, ReadType, Frames, Buffers, Storing, EthIdle,
       MainIdle, ExpireStop, Expired, HoldExpired, Alone
<1> QED  BY <1>1, <1>2, <1>3, <1>4, <1>5, <1>6, <1>7, <1>8 DEF IInv

\* The callback writes dht.
LEMMA CountStep == ASSUME IInv, Count PROVE IInv'
<1>1. TypeOK'
  <2>1. 0 \in 0 .. Hold /\ 0 \in 0 .. Hold - 1 /\ 0 \in 0 .. Hold + 1 /\ 0 \in Buffers
    BY CounterAssumption DEF CounterAssumption, Buffers
  <2>2. main.dht + 1 \in 0 .. Hold
    BY CounterAssumption DEF CounterAssumption, IInv, TypeOK, MainType
  <2>3. cpm' \in CpmType
    BY <2>1, <2>2 DEF IInv, TypeOK, CpmType, Count, Rearm
  <2>4. main' \in MainType
    BY <2>1, <2>2 DEF IInv, TypeOK, MainType, Count, Rearm
  <2> QED
    BY <2>1, <2>2, <2>3, <2>4 DEF IInv, TypeOK, Count, Rearm
<1>2. Turns'
  BY DEF IInv, Turns, Storing, StepsOf, Registered, Cleared, TypeOK, CpmType,
       ArType, EthType, MainType, ReadType, Races, EthIdle, MainIdle, Count,
       Rearm, Alone
<1>3. Registered'
  BY DEF IInv, Registered, Storing, Turns, StepsOf, Cleared, TypeOK, CpmType,
       ArType, EthType, MainType, ReadType, EthIdle, MainIdle, Count, Rearm,
       Alone
<1>4. Owned'
  BY DEF IInv, Owned, BuffersOwned, Held, Turns, Registered, StepsOf, Cleared,
       TypeOK, CpmType, ArType, EthType, MainType, ReadType, Buffers, Frames,
       EthIdle, MainIdle, Count, Rearm, Alone
<1>5. Order'
  BY DEF IInv, Order, Turns, Registered, StepsOf, Cleared, TypeOK, CpmType,
       ArType, EthType, MainType, ReadType, CycleOk, Frames, Buffers, Never,
       Storing, EthIdle, MainIdle, Count, Rearm, Alone
<1>6. Fresh'
  BY DEF IInv, Fresh, Turns, Registered, Cleared, TypeOK, CpmType, ArType,
       EthType, MainType, ReadType, Order, Buffers, Frames, Storing, StepsOf,
       EthIdle, MainIdle, Count, Rearm, Alone
<1>7. Counted'
  BY DEF IInv, Counted, Turns, Registered, Storing, StepsOf, Cleared, TypeOK,
       CpmType, ArType, EthType, MainType, ReadType, Buffers, EthIdle,
       MainIdle, Count, Rearm, Alone
<1>8. Told'
  BY DEF IInv, Told, Turns, Registered, Order, Cleared, TypeOK, CpmType,
       ArType, EthType, MainType, ReadType, Frames, Buffers, Storing, EthIdle,
       MainIdle, Count, Rearm, Alone
<1> QED  BY <1>1, <1>2, <1>3, <1>4, <1>5, <1>6, <1>7, <1>8 DEF IInv

\* CMIO hears that the CPM stops.
LEMMA StopStep == ASSUME IInv, Stop PROVE IInv'
<1>1. TypeOK'
  <2>1. 0 \in 0 .. Hold /\ 0 \in 0 .. Hold - 1 /\ 0 \in 0 .. Hold + 1 /\ 0 \in Buffers
    BY CounterAssumption DEF CounterAssumption, Buffers
  <2>2. cpm' \in CpmType
    BY <2>1 DEF IInv, TypeOK, CpmType, Stop, Hears
  <2>3. main' \in MainType
    BY <2>1 DEF IInv, TypeOK, MainType, Stop, Hears
  <2>4. ar' \in ArType
    BY <2>1 DEF IInv, TypeOK, ArType, Stop, Hears
  <2> QED
    BY <2>1, <2>2, <2>3, <2>4 DEF IInv, TypeOK, Stop, Hears
<1>2. Turns'
  BY DEF IInv, Turns, Storing, StepsOf, Registered, Cleared, TypeOK, CpmType,
       ArType, EthType, MainType, ReadType, Races, EthIdle, MainIdle, Stop,
       Hears, Aborts, Alone
<1>3. Registered'
  BY DEF IInv, Registered, Storing, Turns, StepsOf, Cleared, TypeOK, CpmType,
       ArType, EthType, MainType, ReadType, EthIdle, MainIdle, Stop, Hears,
       Aborts, Alone
<1>4. Owned'
  BY DEF IInv, Owned, BuffersOwned, Held, Turns, Registered, StepsOf, Cleared,
       TypeOK, CpmType, ArType, EthType, MainType, ReadType, Buffers, Frames,
       EthIdle, MainIdle, Stop, Hears, Aborts, Alone
<1>5. Order'
  BY DEF IInv, Order, Turns, Registered, StepsOf, Cleared, TypeOK, CpmType,
       ArType, EthType, MainType, ReadType, CycleOk, Frames, Buffers, Never,
       Storing, EthIdle, MainIdle, Stop, Hears, Aborts, Alone
<1>6. Fresh'
  BY DEF IInv, Fresh, Turns, Registered, Cleared, TypeOK, CpmType, ArType,
       EthType, MainType, ReadType, Order, Buffers, Frames, Storing, StepsOf,
       EthIdle, MainIdle, Stop, Hears, Aborts, Alone
<1>7. Counted'
  BY DEF IInv, Counted, Turns, Registered, Storing, StepsOf, Cleared, TypeOK,
       CpmType, ArType, EthType, MainType, ReadType, Buffers, EthIdle,
       MainIdle, Stop, Hears, Aborts, Alone
<1>8. Told'
  BY DEF IInv, Told, Turns, Registered, Order, Cleared, TypeOK, CpmType,
       ArType, EthType, MainType, ReadType, Frames, Buffers, Storing, EthIdle,
       MainIdle, Stop, Hears, Aborts, Alone
<1> QED  BY <1>1, <1>2, <1>3, <1>4, <1>5, <1>6, <1>7, <1>8 DEF IInv

\* The CPM waits for another connection.
LEMMA HaltStep == ASSUME IInv, Halt PROVE IInv'
<1>1. TypeOK'
  BY DEF IInv, TypeOK, CpmType, ArType, EthType, MainType, ReadType, Buffers,
       Frames, Never, Cleared, Counted, Registered, Turns, Owned, BuffersOwned,
       Order, Held, Races, EthIdle, MainIdle, Halt
<1>2. Turns'
  BY DEF IInv, Turns, Storing, StepsOf, Registered, Cleared, TypeOK, CpmType,
       ArType, EthType, MainType, ReadType, Races, EthIdle, MainIdle, Halt
<1>3. Registered'
  BY DEF IInv, Registered, Storing, Turns, StepsOf, Cleared, TypeOK, CpmType,
       ArType, EthType, MainType, ReadType, EthIdle, MainIdle, Halt
<1>4. Owned'
  BY DEF IInv, Owned, BuffersOwned, Held, Turns, Registered, StepsOf, Cleared,
       TypeOK, CpmType, ArType, EthType, MainType, ReadType, Buffers, Frames,
       EthIdle, MainIdle, Halt
<1>5. Order'
  BY DEF IInv, Order, Turns, Registered, StepsOf, Cleared, TypeOK, CpmType,
       ArType, EthType, MainType, ReadType, CycleOk, Frames, Buffers, Never,
       Storing, EthIdle, MainIdle, Halt
<1>6. Fresh'
  BY DEF IInv, Fresh, Turns, Registered, Cleared, TypeOK, CpmType, ArType,
       EthType, MainType, ReadType, Order, Buffers, Frames, Storing, StepsOf,
       EthIdle, MainIdle, Halt
<1>7. Counted'
  BY CounterAssumption DEF CounterAssumption, IInv, Counted, Turns, Registered,
       Storing, StepsOf, Cleared, TypeOK, CpmType, ArType, EthType, MainType,
       ReadType, Buffers, EthIdle, MainIdle, Halt
<1>8. Told'
  BY DEF IInv, Told, Turns, Registered, Order, Cleared, TypeOK, CpmType,
       ArType, EthType, MainType, ReadType, Frames, Buffers, Storing, EthIdle,
       MainIdle, Halt
<1> QED  BY <1>1, <1>2, <1>3, <1>4, <1>5, <1>6, <1>7, <1>8 DEF IInv

\* The AR is to close.
LEMMA AbortStep == ASSUME IInv, Abort PROVE IInv'
<1>1. TypeOK'
  BY DEF IInv, TypeOK, CpmType, ArType, EthType, MainType, ReadType, Buffers,
       Frames, Never, Cleared, Counted, Registered, Turns, Owned, BuffersOwned,
       Order, Held, Races, EthIdle, MainIdle, Abort, Alone
<1>2. Turns'
  BY DEF IInv, Turns, Storing, StepsOf, Registered, Cleared, TypeOK, CpmType,
       ArType, EthType, MainType, ReadType, Races, EthIdle, MainIdle, Abort,
       Alone
<1>3. Registered'
  BY DEF IInv, Registered, Storing, Turns, StepsOf, Cleared, TypeOK, CpmType,
       ArType, EthType, MainType, ReadType, EthIdle, MainIdle, Abort, Alone
<1>4. Owned'
  BY DEF IInv, Owned, BuffersOwned, Held, Turns, Registered, StepsOf, Cleared,
       TypeOK, CpmType, ArType, EthType, MainType, ReadType, Buffers, Frames,
       EthIdle, MainIdle, Abort, Alone
<1>5. Order'
  BY DEF IInv, Order, Turns, Registered, StepsOf, Cleared, TypeOK, CpmType,
       ArType, EthType, MainType, ReadType, CycleOk, Frames, Buffers, Never,
       Storing, EthIdle, MainIdle, Abort, Alone
<1>6. Fresh'
  BY DEF IInv, Fresh, Turns, Registered, Cleared, TypeOK, CpmType, ArType,
       EthType, MainType, ReadType, Order, Buffers, Frames, Storing, StepsOf,
       EthIdle, MainIdle, Abort, Alone
<1>7. Counted'
  BY DEF IInv, Counted, Turns, Registered, Storing, StepsOf, Cleared, TypeOK,
       CpmType, ArType, EthType, MainType, ReadType, Buffers, EthIdle,
       MainIdle, Abort, Alone
<1>8. Told'
  BY DEF IInv, Told, Turns, Registered, Order, Cleared, TypeOK, CpmType,
       ArType, EthType, MainType, ReadType, Frames, Buffers, Storing, EthIdle,
       MainIdle, Abort, Alone
<1> QED  BY <1>1, <1>2, <1>3, <1>4, <1>5, <1>6, <1>7, <1>8 DEF IInv

\* The CPM stops taking frames.
LEMMA CloseStep == ASSUME IInv, Close PROVE IInv'
<1>1. TypeOK'
  BY DEF IInv, TypeOK, CpmType, ArType, EthType, MainType, ReadType, Buffers,
       Frames, Never, Cleared, Counted, Registered, Turns, Owned, BuffersOwned,
       Order, Held, Races, EthIdle, MainIdle, Close
<1>2. Turns'
  BY DEF IInv, Turns, Storing, StepsOf, Registered, Cleared, TypeOK, CpmType,
       ArType, EthType, MainType, ReadType, Races, EthIdle, MainIdle, Close
<1>3. Registered'
  BY DEF IInv, Registered, Storing, Turns, StepsOf, Cleared, TypeOK, CpmType,
       ArType, EthType, MainType, ReadType, EthIdle, MainIdle, Close
<1>4. Owned'
  BY DEF IInv, Owned, BuffersOwned, Held, Turns, Registered, StepsOf, Cleared,
       TypeOK, CpmType, ArType, EthType, MainType, ReadType, Buffers, Frames,
       EthIdle, MainIdle, Close
<1>5. Order'
  BY DEF IInv, Order, Turns, Registered, StepsOf, Cleared, TypeOK, CpmType,
       ArType, EthType, MainType, ReadType, CycleOk, Frames, Buffers, Never,
       Storing, EthIdle, MainIdle, Close
<1>6. Fresh'
  BY DEF IInv, Fresh, Turns, Registered, Cleared, TypeOK, CpmType, ArType,
       EthType, MainType, ReadType, Order, Buffers, Frames, Storing, StepsOf,
       EthIdle, MainIdle, Close
<1>7. Counted'
  BY DEF IInv, Counted, Turns, Registered, Storing, StepsOf, Cleared, TypeOK,
       CpmType, ArType, EthType, MainType, ReadType, Buffers, EthIdle,
       MainIdle, Close
<1>8. Told'
  BY DEF IInv, Told, Turns, Registered, Order, Cleared, TypeOK, CpmType,
       ArType, EthType, MainType, ReadType, Frames, Buffers, Storing, EthIdle,
       MainIdle, Close
<1> QED  BY <1>1, <1>2, <1>3, <1>4, <1>5, <1>6, <1>7, <1>8 DEF IInv

\* Its timer and its frame map entry go.
LEMMA UnmapStep == ASSUME IInv, Unmap PROVE IInv'
<1>1. TypeOK'
  <2>1. cpm \in CpmType /\ main \in MainType  BY DEF IInv, TypeOK
  <2>2. cpm' \in CpmType  BY <2>1 DEF Unmap, CpmType
  <2>3. main' \in MainType  BY <2>1 DEF Unmap, MainType
  <2> QED  BY <2>2, <2>3 DEF Unmap, IInv, TypeOK
<1>2. Turns'
  BY DEF IInv, Turns, Storing, StepsOf, Registered, Cleared, TypeOK, CpmType,
       ArType, EthType, MainType, ReadType, Races, EthIdle, MainIdle, Unmap
<1>3. Registered'
  BY DEF IInv, Registered, Storing, Turns, StepsOf, Cleared, TypeOK, CpmType,
       ArType, EthType, MainType, ReadType, EthIdle, MainIdle, Unmap
<1>4. Owned'
  BY DEF IInv, Owned, BuffersOwned, Held, Turns, Registered, StepsOf, Cleared,
       TypeOK, CpmType, ArType, EthType, MainType, ReadType, Buffers, Frames,
       EthIdle, MainIdle, Unmap
<1>5. Order'
  BY DEF IInv, Order, Turns, Registered, StepsOf, Cleared, TypeOK, CpmType,
       ArType, EthType, MainType, ReadType, CycleOk, Frames, Buffers, Never,
       Storing, EthIdle, MainIdle, Unmap
<1>6. Fresh'
  BY DEF IInv, Fresh, Turns, Registered, Cleared, TypeOK, CpmType, ArType,
       EthType, MainType, ReadType, Order, Buffers, Frames, Storing, StepsOf,
       EthIdle, MainIdle, Unmap
<1>7. Counted'
  BY DEF IInv, Counted, Turns, Registered, Storing, StepsOf, Cleared, TypeOK,
       CpmType, ArType, EthType, MainType, ReadType, Buffers, EthIdle,
       MainIdle, Unmap
<1>8. Told'
  BY DEF IInv, Told, Turns, Registered, Order, Cleared, TypeOK, CpmType,
       ArType, EthType, MainType, ReadType, Frames, Buffers, Storing, EthIdle,
       MainIdle, Unmap
<1> QED  BY <1>1, <1>2, <1>3, <1>4, <1>5, <1>6, <1>7, <1>8 DEF IInv

\* Its buffers are freed.
LEMMA FreeBufsStep == ASSUME IInv, FreeBufs PROVE IInv'
<1>1. TypeOK'
  BY DEF IInv, TypeOK, CpmType, ArType, EthType, MainType, ReadType, Buffers,
       Frames, Never, Cleared, Counted, Registered, Turns, Owned, BuffersOwned,
       Order, Held, Races, EthIdle, MainIdle, FreeBufs, Returned
<1>2. Turns'
  BY DEF IInv, Turns, Storing, StepsOf, Registered, Cleared, TypeOK, CpmType,
       ArType, EthType, MainType, ReadType, Races, EthIdle, MainIdle, FreeBufs,
       Returned
<1>3. Registered'
  BY DEF IInv, Registered, Storing, Turns, StepsOf, Cleared, TypeOK, CpmType,
       ArType, EthType, MainType, ReadType, EthIdle, MainIdle, FreeBufs,
       Returned
<1>4. Owned'
  BY DEF IInv, Owned, BuffersOwned, Held, Turns, Registered, StepsOf, Cleared,
       TypeOK, CpmType, ArType, EthType, MainType, ReadType, Buffers, Frames,
       EthIdle, MainIdle, FreeBufs, Returned
<1>5. Order'
  BY DEF IInv, Order, Turns, Registered, StepsOf, Cleared, TypeOK, CpmType,
       ArType, EthType, MainType, ReadType, CycleOk, Frames, Buffers, Never,
       Storing, EthIdle, MainIdle, FreeBufs, Returned
<1>6. Fresh'
  BY DEF IInv, Fresh, Turns, Registered, Cleared, TypeOK, CpmType, ArType,
       EthType, MainType, ReadType, Order, Buffers, Frames, Storing, StepsOf,
       EthIdle, MainIdle, FreeBufs, Returned
<1>7. Counted'
  BY DEF IInv, Counted, Turns, Registered, Storing, StepsOf, Cleared, TypeOK,
       CpmType, ArType, EthType, MainType, ReadType, Buffers, EthIdle,
       MainIdle, FreeBufs, Returned
<1>8. Told'
  BY DEF IInv, Told, Turns, Registered, Order, Cleared, TypeOK, CpmType,
       ArType, EthType, MainType, ReadType, Frames, Buffers, Storing, EthIdle,
       MainIdle, FreeBufs, Returned
<1> QED  BY <1>1, <1>2, <1>3, <1>4, <1>5, <1>6, <1>7, <1>8 DEF IInv

\* Its record is cleared.
LEMMA ClearStep == ASSUME IInv, Clear PROVE IInv'
<1>1. TypeOK'
  BY CounterAssumption DEF CounterAssumption, IInv, TypeOK, CpmType, ArType,
       EthType, MainType, ReadType, Buffers, Frames, Never, Cleared, Counted,
       Registered, Turns, Owned, BuffersOwned, Order, Held, Races, EthIdle,
       MainIdle, Clear, NoAr
<1>2. Turns'
  BY DEF IInv, Turns, Storing, StepsOf, Registered, Cleared, TypeOK, CpmType,
       ArType, EthType, MainType, ReadType, Races, EthIdle, MainIdle, Clear,
       NoAr
<1>3. Registered'
  BY DEF IInv, Registered, Storing, Turns, StepsOf, Cleared, TypeOK, CpmType,
       ArType, EthType, MainType, ReadType, EthIdle, MainIdle, Clear, NoAr
<1>4. Owned'
  BY DEF IInv, Owned, BuffersOwned, Held, Turns, Registered, StepsOf, Cleared,
       TypeOK, CpmType, ArType, EthType, MainType, ReadType, Buffers, Frames,
       EthIdle, MainIdle, Clear, NoAr
<1>5. Order'
  BY DEF IInv, Order, Turns, Registered, StepsOf, Cleared, TypeOK, CpmType,
       ArType, EthType, MainType, ReadType, CycleOk, Frames, Buffers, Never,
       Storing, EthIdle, MainIdle, Clear, NoAr
<1>6. Fresh'
  BY DEF IInv, Fresh, Turns, Registered, Cleared, TypeOK, CpmType, ArType,
       EthType, MainType, ReadType, Order, Buffers, Frames, Storing, StepsOf,
       EthIdle, MainIdle, Clear, NoAr
<1>7. Counted'
  BY DEF IInv, Counted, Turns, Registered, Storing, StepsOf, Cleared, TypeOK,
       CpmType, ArType, EthType, MainType, ReadType, Buffers, EthIdle,
       MainIdle, Clear, NoAr
<1>8. Told'
  BY DEF IInv, Told, Turns, Registered, Order, Cleared, TypeOK, CpmType,
       ArType, EthType, MainType, ReadType, Frames, Buffers, Storing, EthIdle,
       MainIdle, Clear, NoAr
<1> QED  BY <1>1, <1>2, <1>3, <1>4, <1>5, <1>6, <1>7, <1>8 DEF IInv

\* The application reads data.
LEMMA ReadOutputStep == ASSUME IInv, ReadOutput PROVE IInv'
<1>1. TypeOK'
  <2>1. 0 \in 0 .. Hold /\ 0 \in 0 .. Hold - 1 /\ 0 \in 0 .. Hold + 1 /\ 0 \in Buffers
    BY CounterAssumption DEF CounterAssumption, Buffers
  <2>2. cpm' \in CpmType
    BY <2>1 DEF IInv, TypeOK, CpmType, ReadOutput, Fetched
  <2>3. read' \in ReadType
    BY <2>1 DEF IInv, TypeOK, ReadType, ReadOutput, Fetched, CpmType
  <2> QED
    BY <2>1, <2>2, <2>3 DEF IInv, TypeOK, ReadOutput
<1>2. Turns'
  BY DEF IInv, Turns, Storing, StepsOf, Registered, Cleared, TypeOK, CpmType,
       ArType, EthType, MainType, ReadType, Races, EthIdle, MainIdle,
       ReadOutput, Fetched
<1>3. Registered'
  BY DEF IInv, Registered, Storing, Turns, StepsOf, Cleared, TypeOK, CpmType,
       ArType, EthType, MainType, ReadType, EthIdle, MainIdle, ReadOutput,
       Fetched
<1>4. Owned'
  BY DEF IInv, Owned, BuffersOwned, Held, Turns, Registered, StepsOf, Cleared,
       TypeOK, CpmType, ArType, EthType, MainType, ReadType, Buffers, Frames,
       EthIdle, MainIdle, ReadOutput, Fetched
<1>5. Order'
  BY DEF IInv, Order, Turns, Registered, StepsOf, Cleared, TypeOK, CpmType,
       ArType, EthType, MainType, ReadType, CycleOk, Frames, Buffers, Never,
       Storing, EthIdle, MainIdle, ReadOutput, Fetched
<1>6. Fresh'
  BY DEF IInv, Fresh, Turns, Registered, Cleared, TypeOK, CpmType, ArType,
       EthType, MainType, ReadType, Order, Buffers, Frames, Storing, StepsOf,
       EthIdle, MainIdle, ReadOutput, Fetched
<1>7. Counted'
  BY DEF IInv, Counted, Turns, Registered, Storing, StepsOf, Cleared, TypeOK,
       CpmType, ArType, EthType, MainType, ReadType, Buffers, EthIdle,
       MainIdle, ReadOutput, Fetched
<1>8. Told'
  BY DEF IInv, Told, Turns, Registered, Order, Cleared, TypeOK, CpmType,
       ArType, EthType, MainType, ReadType, Frames, Buffers, Storing, EthIdle,
       MainIdle, ReadOutput, Fetched
<1> QED  BY <1>1, <1>2, <1>3, <1>4, <1>5, <1>6, <1>7, <1>8 DEF IInv

\* The application reads a status.
LEMMA ReadIocsStep == ASSUME IInv, ReadIocs PROVE IInv'
<1>1. TypeOK'
  <2>1. 0 \in 0 .. Hold /\ 0 \in 0 .. Hold - 1 /\ 0 \in 0 .. Hold + 1 /\ 0 \in Buffers
    BY CounterAssumption DEF CounterAssumption, Buffers
  <2>2. cpm' \in CpmType
    BY <2>1 DEF IInv, TypeOK, CpmType, ReadIocs, Fetched
  <2>3. read' \in ReadType
    BY <2>1 DEF IInv, TypeOK, ReadType, ReadIocs, Fetched, CpmType
  <2> QED
    BY <2>1, <2>2, <2>3 DEF IInv, TypeOK, ReadIocs
<1>2. Turns'
  BY DEF IInv, Turns, Storing, StepsOf, Registered, Cleared, TypeOK, CpmType,
       ArType, EthType, MainType, ReadType, Races, EthIdle, MainIdle, ReadIocs,
       Fetched
<1>3. Registered'
  BY DEF IInv, Registered, Storing, Turns, StepsOf, Cleared, TypeOK, CpmType,
       ArType, EthType, MainType, ReadType, EthIdle, MainIdle, ReadIocs,
       Fetched
<1>4. Owned'
  BY DEF IInv, Owned, BuffersOwned, Held, Turns, Registered, StepsOf, Cleared,
       TypeOK, CpmType, ArType, EthType, MainType, ReadType, Buffers, Frames,
       EthIdle, MainIdle, ReadIocs, Fetched
<1>5. Order'
  BY DEF IInv, Order, Turns, Registered, StepsOf, Cleared, TypeOK, CpmType,
       ArType, EthType, MainType, ReadType, CycleOk, Frames, Buffers, Never,
       Storing, EthIdle, MainIdle, ReadIocs, Fetched
<1>6. Fresh'
  BY DEF IInv, Fresh, Turns, Registered, Cleared, TypeOK, CpmType, ArType,
       EthType, MainType, ReadType, Order, Buffers, Frames, Storing, StepsOf,
       EthIdle, MainIdle, ReadIocs, Fetched
<1>7. Counted'
  BY DEF IInv, Counted, Turns, Registered, Storing, StepsOf, Cleared, TypeOK,
       CpmType, ArType, EthType, MainType, ReadType, Buffers, EthIdle,
       MainIdle, ReadIocs, Fetched
<1>8. Told'
  BY DEF IInv, Told, Turns, Registered, Order, Cleared, TypeOK, CpmType,
       ArType, EthType, MainType, ReadType, Frames, Buffers, Storing, EthIdle,
       MainIdle, ReadIocs, Fetched
<1> QED  BY <1>1, <1>2, <1>3, <1>4, <1>5, <1>6, <1>7, <1>8 DEF IInv

-----------------------------------------------------------------------------
(* The invariant holds, and what it says.                                   *)

\* It holds at the start.
LEMMA Initially == ASSUME ClosesBetweenFrames, Init PROVE IInv
<1>1. 0 \in 0 .. Hold /\ 0 \in 0 .. Hold - 1 /\ 0 \in 0 .. Hold + 1
      /\ 0 \in Buffers /\ 0 \in {Never} \cup 0 .. Modulus - 1
  BY CounterAssumption DEF CounterAssumption, Buffers
<1>2. races \in SUBSET Races /\ "close" \notin races
  BY RaceAssumption DEF RaceAssumption, ClosesBetweenFrames, Init
<1>3. TypeOK
  <2>1. cpm \in CpmType  BY <1>1 DEF Init, Cleared, CpmType
  <2>2. ar \in ArType  BY DEF Init, NoAr, ArType
  <2>3. eth \in EthType  BY <1>1 DEF Init, EthType
  <2>4. main \in MainType  BY <1>1 DEF Init, MainType
  <2>5. read \in ReadType  BY <1>1 DEF Init, ReadType
  <2> QED  BY <1>1, <1>2, <2>1, <2>2, <2>3, <2>4, <2>5 DEF Init, TypeOK
<1>4. Turns  BY <1>2 DEF Init, Turns, Storing, StepsOf, EthIdle, NoAr
<1>5. Registered
  BY DEF Init, Registered, Storing, MainIdle, Cleared, NoAr
<1>6. Owned  BY DEF Init, Owned, BuffersOwned, Held, EthIdle, Cleared
<1>7. Order  BY DEF Init, Order, EthIdle, NoAr
<1>8. Fresh /\ Told  BY DEF Init, Fresh, Told, NoAr
<1>9. Counted  BY DEF Init, Counted, Cleared, MainIdle
<1> QED  BY <1>3, <1>4, <1>5, <1>6, <1>7, <1>8, <1>9 DEF IInv

\* Every step keeps it.
LEMMA EveryStep == ASSUME IInv, [Next]_vars PROVE IInv'
<1>1. CASE Send  BY <1>1, SendStep
<1>2. CASE Receive  BY <1>2, ReceiveStep
<1>3. CASE Check  BY <1>3, CheckStep
<1>4. CASE Start  BY <1>4, StartStep
<1>5. CASE PutBuf  BY <1>5, PutBufStep
<1>6. CASE Tell  BY <1>6, TellStep
<1>7. CASE Reload  BY <1>7, ReloadStep
<1>8. CASE Run  BY <1>8, RunStep
<1>9. CASE FreeBuf  BY <1>9, FreeBufStep
<1>10. CASE Activate  BY <1>10, ActivateStep
<1>11. CASE Arm  BY <1>11, ArmStep
<1>12. CASE Frun  BY <1>12, FrunStep
<1>13. CASE PrmEnd  BY <1>13, PrmEndStep
<1>14. CASE Poll  BY <1>14, PollStep
<1>15. CASE Data  BY <1>15, DataStep
<1>16. CASE ExpireCount  BY <1>16, ExpireCountStep
<1>17. CASE ExpireWait  BY <1>17, ExpireWaitStep
<1>18. CASE ExpireStop  BY <1>18, ExpireStopStep
<1>19. CASE Count  BY <1>19, CountStep
<1>20. CASE Stop  BY <1>20, StopStep
<1>21. CASE Halt  BY <1>21, HaltStep
<1>22. CASE Abort  BY <1>22, AbortStep
<1>23. CASE Close  BY <1>23, CloseStep
<1>24. CASE Unmap  BY <1>24, UnmapStep
<1>25. CASE FreeBufs  BY <1>25, FreeBufsStep
<1>26. CASE Clear  BY <1>26, ClearStep
<1>27. CASE ReadOutput  BY <1>27, ReadOutputStep
<1>28. CASE ReadIocs  BY <1>28, ReadIocsStep
<1>29. CASE UNCHANGED vars
  BY <1>29 DEF vars, IInv, TypeOK, Turns, Registered, Owned, BuffersOwned,
     Order, Fresh, Counted, Told, Storing, EthIdle, MainIdle, Held
<1> QED
  BY <1>1, <1>2, <1>3, <1>4, <1>5, <1>6, <1>7, <1>8, <1>9,
     <1>10, <1>11, <1>12, <1>13, <1>14, <1>15, <1>16, <1>17, <1>18,
     <1>19, <1>20, <1>21, <1>22, <1>23, <1>24, <1>25, <1>26, <1>27,
     <1>28, <1>29
     DEF Next, Handler, Callback

\* The invariant of every behaviour.
LEMMA Invariance == ASSUME ClosesBetweenFrames PROVE Spec => []IInv
<1>1. Init => IInv  BY Initially
<1>2. IInv /\ [Next]_vars => IInv'  BY EveryStep
<1> QED  BY <1>1, <1>2, PTL DEF Spec

\* The variables keep their types.
THEOREM TypeCorrect == ASSUME ClosesBetweenFrames PROVE Spec => []TypeOK
<1>1. IInv => TypeOK  BY DEF IInv
<1> QED  BY <1>1, Invariance, PTL

\* No frame buffer leaks or is freed twice, at whichever accesses of the frame
\* handler the main thread reads the data, counts dht or stops the CPM.
THEOREM NoBufferLeaks == ASSUME ClosesBetweenFrames PROVE Spec => []BuffersOwned
<1>1. IInv => BuffersOwned  BY DEF IInv, Owned
<1> QED  BY <1>1, Invariance, PTL

\* The control interval and the frame map entry come and go with the AR, and RUN
\* is watched where a stop does not fall into a frame handler.
THEOREM RunWatched == ASSUME ClosesBetweenFrames PROVE Spec => []Supervised
<1>1. IInv => Supervised
  BY DEF IInv, Registered, Supervised, RunIsWatched, MainIdle, Cleared
<1> QED  BY <1>1, Invariance, PTL

\* No AR is in DATA before a frame of its connection was taken.
THEOREM DataIsThere == ASSUME ClosesBetweenFrames PROVE Spec => []DataHasArrived
<1>1. IInv => DataHasArrived  BY DEF IInv, Told, DataHasArrived
<1> QED  BY <1>1, Invariance, PTL

\* Only the handler's store and the opening of a connection touch newest.
LEMMA StoreStep ==
  ASSUME IInv, [Next]_vars, newest' # newest
  PROVE  newest' = 0 \/ newest' > newest
<1>1. CASE PutBuf
  <2>1. newest < eth.frame  BY <1>1, StoresNewer DEF PutBuf
  <2>2. newest \in Int /\ eth.frame \in Int
    BY DEF IInv, TypeOK, EthType, Buffers
  <2> QED  BY <1>1, <2>1, <2>2 DEF PutBuf
<1>2. CASE Activate  BY <1>2 DEF Activate
<1>3. CASE UNCHANGED newest  BY <1>3
<1>4. PutBuf \/ Activate \/ UNCHANGED newest
  BY DEF Next, Handler, Callback, vars, 
     Send, Receive, Check, Start, Tell, Reload, Run, FreeBuf, Arm, Frun,
     PrmEnd, Poll, Data, ExpireCount, ExpireWait, ExpireStop, Count, Stop,
     Halt, Abort, Close, Unmap, FreeBufs, Clear, ReadOutput, ReadIocs
<1> QED  BY <1>1, <1>2, <1>3, <1>4

\* Within a connection the frames are taken in the order in which they were
\* sent, for every range, window and wrap of the counter.
THEOREM FramesInOrder == ASSUME ClosesBetweenFrames PROVE Spec => InOrder
<1>1. IInv /\ [Next]_vars =>
        [newest' # newest => newest' = 0 \/ newest' > newest]_vars
  BY StoreStep
<1> QED  BY <1>1, Invariance, PTL DEF Spec, InOrder

\* The application always reads the newest frame, and knows whether it is new.
THEOREM ReadsNewest == ASSUME ClosesBetweenFrames PROVE Spec => NewestRead
<1>1. IInv => [ReadOutput => /\ read'.frame = newest
                             /\ read'.new <=> newest # read.frame]_vars
  <2> SUFFICES ASSUME IInv, ReadOutput
               PROVE  /\ read'.frame = newest
                      /\ read'.new <=> newest # read.frame
    OBVIOUS
  <2>1. ar.cmio # "IDLE"
    BY DEF IInv, Registered, ReadOutput, Cleared
  <2>2. cpm \in CpmType /\ newest \in Int /\ read.frame \in Int
    BY DEF IInv, TypeOK, ReadType, Buffers
  <2> QED
    BY <2>1, <2>2 DEF IInv, Fresh, ReadOutput, Fetched, CpmType
<1> QED  BY <1>1, Invariance, PTL DEF NewestRead

\* The CPM stops after exactly the data hold time without a frame, where dht++
\* does not fall into a frame handler.
THEOREM HoldKept == ASSUME ClosesBetweenFrames PROVE Spec => HoldRespected
<1>1. IInv /\ [Next]_vars =>
        [main'.pc = "stop" /\ main.pc # "stop" /\ "count" \notin races
           => quiet' = Hold + 1]_vars
  <2> SUFFICES ASSUME IInv, Next, main'.pc = "stop", main.pc # "stop",
                      "count" \notin races
               PROVE  quiet' = Hold + 1
    OBVIOUS
  <2>1. ExpireStop
    <3>1. main \in MainType  BY DEF IInv, TypeOK
    <3>2. CASE UNCHANGED main  BY <3>2
    <3>3. CASE Activate \/ Arm \/ Frun
      BY <3>1, <3>3 DEF Activate, Arm, Frun, MainType
    <3>4. CASE ExpireCount \/ ExpireWait \/ Count
      BY <3>4 DEF ExpireCount, ExpireWait, Count, Rearm
    <3>5. CASE Stop \/ Halt  BY <3>1, <3>5 DEF Stop, Halt, MainType
    <3>6. CASE Abort \/ Close \/ Unmap \/ FreeBufs \/ Clear
      BY <3>1, <3>6 DEF Abort, Close, Unmap, FreeBufs, Clear, MainType
    <3>7. Send \/ Receive \/ Handler \/ PrmEnd \/ Poll \/ Data \/ ReadOutput
          \/ ReadIocs => UNCHANGED main
      BY DEF Send, Receive, Handler, Check, Start, PutBuf, Tell, Reload, Run,
         FreeBuf, PrmEnd, Poll, Data, ReadOutput, ReadIocs
    <3> QED
      BY <3>2, <3>3, <3>4, <3>5, <3>6, <3>7 DEF Next, Callback
  <2>2. quiet = cpm.dht
    BY <2>1 DEF IInv, Counted, ExpireStop, Expired, MainIdle
  <2>3. cpm.dht = Hold /\ Hold \in Nat
    BY <2>1, CounterAssumption DEF CounterAssumption, IInv, TypeOK, CpmType,
       ExpireStop, HoldExpired
  <2> QED  BY <2>1, <2>2, <2>3 DEF ExpireStop
<1> QED  BY <1>1, Invariance, PTL DEF Spec, HoldRespected

\* What the application has is real, in order and the newest, at any interleaving
\* of the frame handler with the reads.
THEOREM DataIsTrue == ASSUME ClosesBetweenFrames PROVE Spec => DataTrue
BY DataIsThere, FramesInOrder, ReadsNewest, PTL DEF DataTrue
=============================================================================
