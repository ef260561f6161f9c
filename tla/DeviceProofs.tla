---------------------------- MODULE DeviceProofs ----------------------------
(***************************************************************************)
(* Proofs about Diag with Ppm and about DeviceTree, for any number of      *)
(* providers, diagnoses, slots, submodules and connections.                *)
(*                                                                         *)
(* A provider is silent only when a frame was refused, its frames are      *)
(* whole and in order, and they go out on schedule as long as it keeps up  *)
(* with it.  The lists of the diagnoses, the summaries and the alarms      *)
(* agree when one thread adds and removes them.  A submodule that a        *)
(* connection has got is kept or handed to the next, its differences are   *)
(* reported as they are, and no connection forgets what it owns.           *)
(*                                                                         *)
(* The two have no state in common: each part is about one of them and     *)
(* takes nothing from the other.                                           *)
(***************************************************************************)
EXTENDS Diag, DeviceTree, ListLemmas, FiniteSetTheorems

-----------------------------------------------------------------------------
(* The providers.                                                          *)

Bits == FirstStatus \cup {"PROVIDER", "REDUNDANCY"}
PpmType == [state : {"W_START", "RUN"}, created : BOOLEAN, running : BOOLEAN, armed : BOOLEAN,
            due : Nat, next : Nat, cycle : Nat, status : SUBSET Bits, first : BOOLEAN,
            began : Nat, sent : Nat, ran : Nat]
FrameType == [data : Nat, iops : Nat, cycle : Nat, status : SUBSET Bits]
BufferType == [data : Nat, iops : Nat]

Typed ==
  /\ now \in Nat /\ writer \in Ars \cup {Nobody} /\ writes \in Nat
  /\ instances \in Nat /\ lock \in BOOLEAN
  /\ ppm \in [Ars -> PpmType]
  /\ buffer \in [Ars -> BufferType]
  /\ frame \in [Ars -> FrameType]

\* What holds of a provider r with its buffer b and its last frame f, w
\* saying that the application writes to it, x that the driver refused one.
Provider(r, b, f, w, x) ==
  /\ r.created \/ (~r.running /\ ~r.armed /\ ~w)
  /\ r.armed => r.running
  /\ r.running /\ ~r.armed => x
  /\ r.running <=> r.state = "RUN"
  /\ r.created /\ ~r.running => f = NoFrame /\ r.sent = 0
  /\ r.armed /\ f # NoFrame => f.cycle = r.cycle
  /\ w \/ b.data = b.iops
  /\ f.data = f.iops

Providers ==
  \A a \in Ars : Provider(ppm[a], buffer[a], frame[a], writer = a, a \in refused)

Created == {a \in Ars : ppm[a].created}

\* The lock and the count belong to the providers there are.
Counted == instances = Cardinality(Created) /\ lock = (Created # {})

PInv == Typed /\ Providers /\ Counted

-----------------------------------------------------------------------------
(* The counter and the delay.                                              *)

\* The counter steps forward by at most a step, also where its range ends.
LEMMA CounterStep ==
  ASSUME NEW c \in Nat
  PROVE  NextCycle(c) \in 0 .. CycleMod - 1 /\ Newer(NextCycle(c), c)
<1> DEFINE q == c \div Step
           e == c % Step
           n == (q + 1) * Step
           k == n \div CycleMod
           r == n % CycleMod
<1>1. /\ Step \in Nat \ {0} /\ CycleMod \in Nat \ {0} /\ 2 * Step < CycleMod
  BY PpmAssumption
<1>2. q \in Int /\ e \in 0 .. Step - 1 /\ e = c - Step * q  BY <1>1, c \in Int, Remainder
<1>3. q * Step = Step * q  BY <1>1, <1>2
<1>4. NextCycle(c) = r  BY DEF NextCycle
<1> HIDE DEF q, e
<1>5. n \in Int /\ n = c + (Step - e)  BY <1>1, <1>2, <1>3
<1> HIDE DEF n
<1>6. k \in Int /\ r \in 0 .. CycleMod - 1 /\ r = n - CycleMod * k  BY <1>1, <1>5, Remainder
<1> HIDE DEF k, r
<1>7. /\ Step - e \in 0 .. CycleMod - 1 /\ -k \in Int /\ r - c \in Int
      /\ r - c = (Step - e) + CycleMod * (-k)
  BY <1>1, <1>2, <1>5, <1>6
<1>8. (r - c) % CycleMod = Step - e  BY <1>1, <1>7, RemainderIs
<1>9. CycleMod \div 16 \in Nat /\ 16 * (CycleMod \div 16) <= CycleMod
  <2>1. /\ CycleMod \div 16 \in Int /\ CycleMod % 16 \in 0 .. 15
        /\ CycleMod % 16 = CycleMod - 16 * (CycleMod \div 16)
    BY <1>1, 16 \in Nat \ {0}, Remainder
  <2> QED  BY <1>1, <2>1
<1>10. Step - e \in 1 .. CycleMod - CycleMod \div 16  BY <1>1, <1>2, <1>9
<1> QED  BY <1>4, <1>6, <1>8, <1>10 DEF Newer

\* A delay is rounded to the nearest tick, at least one.
LEMMA Ticks ==
  ASSUME NEW w \in Nat
  PROVE  /\ TicksTo(w) \in Nat /\ TicksTo(w) >= 1
         /\ w > MaxDelay \/ w <= 3 => TicksTo(w) = 1
         /\ w <= MaxDelay /\ w > 3 => 2 * TicksTo(w) = w \/ 2 * TicksTo(w) = w + 1
<1>1. /\ (w + 1) \div 2 \in Int /\ (w + 1) % 2 \in 0 .. 1
      /\ (w + 1) % 2 = (w + 1) - 2 * ((w + 1) \div 2)
  BY w + 1 \in Int, 2 \in Nat \ {0}, Remainder
<1>2. MaxDelay \in Nat  BY PpmAssumption
<1> QED  BY <1>1, <1>2 DEF TicksTo

-----------------------------------------------------------------------------
(* One lemma per action of a provider.                                     *)

\* The sizes and intervals, as the prover uses them.
LEMMA Sizes ==
  /\ Step \in Nat \ {0} /\ CycleMod \in Nat \ {0} /\ ClockMod \in Nat \ {0}
  /\ MaxDelay \in Nat \ {0} /\ MaxLate \in Nat \ {0} /\ ClockMod > MaxDelay + 4
  /\ \A a \in Ars : Interval[a] \in Nat /\ Interval[a] >= 2 /\ Interval[a] < MaxDelay
BY PpmAssumption

\* A provider that is not created, or is just created, without a frame.
LEMMA NoPpmType ==
  /\ NoPpm \in PpmType /\ NoFrame \in FrameType /\ NoFrame.data = NoFrame.iops
  /\ ~NoPpm.created /\ ~NoPpm.running /\ ~NoPpm.armed /\ NoPpm.state = "W_START"
BY DEF NoPpm, NoFrame, PpmType, FrameType

\* A step of one provider leaves the others as they are.
LEMMA OneProvider ==
  ASSUME Typed, Providers, NEW a \in Ars,
         NEW r \in PpmType, ppm' = [ppm EXCEPT ![a] = r],
         NEW b \in BufferType, buffer' = [buffer EXCEPT ![a] = b],
         NEW f \in FrameType, frame' = [frame EXCEPT ![a] = f],
         \A c \in Ars : c # a => (writer' = c <=> writer = c),
         \A c \in refused : c # a => c \in refused',
         Provider(r, b, f, writer' = a, a \in refused')
  PROVE  /\ Providers'
         /\ ppm' \in [Ars -> PpmType] /\ buffer' \in [Ars -> BufferType]
         /\ frame' \in [Ars -> FrameType]
<1>1. ppm' \in [Ars -> PpmType] /\ buffer' \in [Ars -> BufferType]
      /\ frame' \in [Ars -> FrameType]
  BY DEF Typed
<1>2. ASSUME NEW c \in Ars
      PROVE  Provider(ppm'[c], buffer'[c], frame'[c], writer' = c, c \in refused')
  <2>1. CASE c = a
    <3>1. ppm'[c] = r /\ buffer'[c] = b /\ frame'[c] = f  BY <2>1 DEF Typed
    <3> QED  BY <2>1, <3>1
  <2>2. CASE c # a
    <3>1. ppm'[c] = ppm[c] /\ buffer'[c] = buffer[c] /\ frame'[c] = frame[c]
      BY <2>2 DEF Typed
    <3>2. (writer' = c <=> writer = c) /\ (c \in refused => c \in refused')
      BY <2>2
    <3>3. Provider(ppm[c], buffer[c], frame[c], writer = c, c \in refused)
      BY DEF Providers
    <3> QED  BY <3>1, <3>2, <3>3 DEF Provider
  <2> QED  BY <2>1, <2>2
<1> QED  BY <1>1, <1>2 DEF Providers

\* Nobody writes to a provider that is not there.
LEMMA WriterCreated ==
  ASSUME Providers, NEW a \in Ars, ~ppm[a].created
  PROVE  writer # a
BY DEF Providers, Provider

\* The count after one was created or ended.
LEMMA CountChanges ==
  ASSUME Typed, Counted, NEW a \in Ars, NEW r \in PpmType,
         ppm' = [ppm EXCEPT ![a] = r]
  PROVE  /\ r.created /\ ~ppm[a].created /\ instances' = instances + 1
              /\ lock' = (lock \/ instances = 0) => Counted' /\ instances' \in Nat
         /\ ~r.created /\ ppm[a].created /\ instances' = instances - 1
              /\ lock' = (lock /\ instances # 1) => Counted' /\ instances' \in Nat
         /\ r.created = ppm[a].created /\ UNCHANGED <<instances, lock>> => Counted'
<1>1. \A c \in Ars : ppm'[c] = IF c = a THEN r ELSE ppm[c]  BY DEF Typed
<1>2. IsFiniteSet(Created) /\ Cardinality(Created) \in Nat
  <2>1. Created \in SUBSET Ars  BY DEF Created
  <2>2. IsFiniteSet(Ars)  BY PpmAssumption
  <2>3. IsFiniteSet(Created)  BY <2>1, <2>2, FS_Subset
  <2> QED  BY <2>3, FS_CardinalityType
<1>3. Cardinality(Created) = 0 <=> Created = {}  BY <1>2, FS_EmptySet
<1>4. ASSUME r.created, ~ppm[a].created, instances' = instances + 1,
             lock' = (lock \/ instances = 0)
      PROVE  Counted' /\ instances' \in Nat
  <2>1. Created' = Created \cup {a} /\ a \notin Created  BY <1>1, <1>4 DEF Created
  <2>2. Cardinality(Created \cup {a}) = Cardinality(Created) + 1
    BY <1>2, <2>1, FS_AddElement
  <2>3. lock' = TRUE  BY <1>3, <1>4 DEF Counted
  <2>4. Created' # {}  BY <2>1
  <2>5. lock' = (Created' # {})  BY <2>3, <2>4, Zenon
  <2>6. instances' = Cardinality(Created')  BY <1>4, <2>1, <2>2 DEF Counted
  <2> QED  BY <1>2, <1>4, <2>5, <2>6 DEF Counted
<1>5. ASSUME ~r.created, ppm[a].created, instances' = instances - 1,
             lock' = (lock /\ instances # 1)
      PROVE  Counted' /\ instances' \in Nat
  <2>1. Created' = Created \ {a} /\ a \in Created  BY <1>1, <1>5 DEF Created
  <2>2. IsFiniteSet(Created \ {a}) /\ Cardinality(Created \ {a}) = Cardinality(Created) - 1
    BY <1>2, <2>1, FS_RemoveElement
  <2>3. Cardinality(Created \ {a}) = 0 <=> Created \ {a} = {}  BY <2>2, FS_EmptySet
  <2>4. Cardinality(Created \ {a}) \in Nat  BY <2>2, FS_CardinalityType
  <2>5. lock' = (Created' # {})
    <3>1. instances = Cardinality(Created) /\ lock = (Created # {})  BY DEF Counted
    <3>2. lock  BY <2>1, <3>1, Zenon
    <3>3. instances # 1 <=> Created' # {}  BY <1>2, <2>1, <2>2, <2>3, <3>1
    <3> QED  BY <1>5, <3>2, <3>3, Zenon
  <2> QED  BY <1>5, <2>1, <2>2, <2>4, <2>5 DEF Counted
<1>6. ASSUME r.created = ppm[a].created, UNCHANGED <<instances, lock>> PROVE Counted'
  <2>1. Created' = Created  BY <1>1, <1>6 DEF Created
  <2> QED  BY <1>6, <2>1 DEF Counted
<1> QED  BY <1>4, <1>5, <1>6

\* A provider is created, without a frame.
LEMMA CreateInv == ASSUME PInv, NEW a \in Ars, Create(a) PROVE PInv'
<1> DEFINE r == [NoPpm EXCEPT !.created = TRUE, !.status = FirstStatus]
           b == [data |-> 0, iops |-> 0]
<1>1. /\ Typed /\ Providers /\ Counted /\ ~ppm[a].created
      /\ ppm' = [ppm EXCEPT ![a] = r] /\ buffer' = [buffer EXCEPT ![a] = b]
      /\ frame' = [frame EXCEPT ![a] = NoFrame] /\ refused' = refused \ {a}
      /\ instances' = instances + 1 /\ lock' = (lock \/ instances = 0)
      /\ UNCHANGED <<now, writer, writes>>
  BY DEF PInv, Create
<1>2. r \in PpmType /\ r.created /\ ~r.running /\ ~r.armed /\ r.state = "W_START" /\ r.sent = 0
  BY NoPpmType DEF NoPpm, PpmType, Bits
<1>3. b \in BufferType /\ b.data = b.iops  BY DEF BufferType
<1> HIDE DEF r, b
<1>4. Provider(r, b, NoFrame, writer' = a, a \in refused')
  BY <1>2, <1>3, NoPpmType DEF Provider
<1>5. \A c \in Ars : c # a => (writer' = c <=> writer = c)  BY <1>1
<1>6. /\ Providers' /\ ppm' \in [Ars -> PpmType] /\ buffer' \in [Ars -> BufferType]
      /\ frame' \in [Ars -> FrameType]
  BY <1>1, <1>2, <1>3, <1>4, <1>5, NoPpmType, OneProvider
<1>7. Counted' /\ instances' \in Nat  BY <1>1, <1>2, CountChanges
<1>8. lock' \in BOOLEAN  BY <1>1
<1>9. Typed'  BY <1>1, <1>6, <1>7, <1>8 DEF Typed
<1> QED  BY <1>6, <1>7, <1>9 DEF PInv

\* A provider ends, with or without a last frame.
LEMMA ClosedInv ==
  ASSUME PInv, NEW a \in Ars, ppm[a].created, writer = Nobody, Closed(a),
         NEW f \in FrameType, f.data = f.iops, frame' = [frame EXCEPT ![a] = f],
         UNCHANGED <<now, buffer, writer, writes, refused>>
  PROVE  PInv'
<1>1. Typed /\ Providers /\ Counted  BY DEF PInv
<1>2. /\ ppm' = [ppm EXCEPT ![a] = NoPpm]
      /\ instances' = instances - 1 /\ lock' = (lock /\ instances # 1)
  BY DEF Closed
<1> DEFINE b == buffer[a]
<1>3. b \in BufferType /\ buffer' = [buffer EXCEPT ![a] = b]  BY <1>1 DEF Typed
<1>4. writer # a  BY PpmAssumption
<1>5. b.data = b.iops  BY <1>1, <1>4 DEF Providers, Provider
<1> HIDE DEF b
<1>6. Provider(NoPpm, b, f, writer' = a, a \in refused')
  BY <1>4, <1>5, NoPpmType DEF Provider
<1>7. /\ Providers' /\ ppm' \in [Ars -> PpmType] /\ buffer' \in [Ars -> BufferType]
      /\ frame' \in [Ars -> FrameType]
  BY <1>1, <1>2, <1>3, <1>6, NoPpmType, OneProvider
<1>8. Counted' /\ instances' \in Nat  BY <1>1, <1>2, NoPpmType, CountChanges
<1>9. Typed'  BY <1>1, <1>2, <1>7, <1>8 DEF Typed
<1> QED  BY <1>7, <1>8, <1>9 DEF PInv

\* What is filled in is whole when nobody writes, and one step further.
LEMMA FinishedIs ==
  ASSUME PInv, NEW a \in Ars, writer # a
  PROVE  /\ Finished(a) \in FrameType /\ Finished(a).data = Finished(a).iops
         /\ Finished(a).cycle = NextCycle(ppm[a].cycle)
         /\ NextCycle(ppm[a].cycle) \in Nat
<1>1. Typed /\ Providers  BY DEF PInv
<1>2. ppm[a] \in PpmType /\ buffer[a] \in BufferType  BY <1>1 DEF Typed
<1>3. ppm[a].cycle \in Nat /\ ppm[a].status \in SUBSET Bits  BY <1>2 DEF PpmType
<1>4. NextCycle(ppm[a].cycle) \in Nat  BY <1>3, Sizes, CounterStep
<1>5. buffer[a].data = buffer[a].iops /\ buffer[a].data \in Nat
  BY <1>1, <1>2 DEF Providers, Provider, BufferType
<1> QED  BY <1>3, <1>4, <1>5 DEF Finished, FrameType

\* A step of one provider that keeps the others, the count and what they write.
LEMMA StepOfOne ==
  ASSUME PInv, NEW a \in Ars,
         NEW r \in PpmType, ppm' = [ppm EXCEPT ![a] = r], r.created = ppm[a].created,
         NEW b \in BufferType, buffer' = [buffer EXCEPT ![a] = b],
         NEW f \in FrameType, frame' = [frame EXCEPT ![a] = f],
         writer' \in Ars \cup {Nobody}, \A c \in Ars : c # a => (writer' = c <=> writer = c),
         \A c \in refused : c # a => c \in refused', writes' \in Nat,
         Provider(r, b, f, writer' = a, a \in refused'),
         UNCHANGED <<now, instances, lock>>
  PROVE  PInv'
<1>1. Typed /\ Providers /\ Counted  BY DEF PInv
<1>2. /\ Providers' /\ ppm' \in [Ars -> PpmType] /\ buffer' \in [Ars -> BufferType]
      /\ frame' \in [Ars -> FrameType]
  BY <1>1, OneProvider
<1>3. Counted'  BY <1>1, CountChanges
<1>4. Typed'  BY <1>1, <1>2 DEF Typed
<1> QED  BY <1>2, <1>3, <1>4 DEF PInv

\* It is activated: nothing was sent yet.
LEMMA ActivateInv == ASSUME PInv, NEW a \in Ars, Activate(a) PROVE PInv'
<1> DEFINE p == ppm[a]
           b == buffer[a]
           f == frame[a]
           n == (Clock + Interval[a]) % ClockMod
           d == now + TicksTo(Interval[a])
           c == NextCycle(p.cycle)
           r == [p EXCEPT !.state = "RUN", !.running = TRUE, !.next = n, !.cycle = c,
                          !.armed = TRUE, !.due = d, !.began = 2 * now, !.ran = now]
<1>1. Typed /\ Providers /\ p.created /\ p.state = "W_START" /\ writer # a
  BY DEF PInv, Activate
<1>2. ppm' = [ppm EXCEPT ![a] = r]  BY <1>1, Zenon DEF Activate, Typed
<1>3. UNCHANGED <<now, buffer, frame, writer, writes, instances, lock, refused>>
  BY DEF Activate
<1>4. p \in PpmType /\ b \in BufferType /\ f \in FrameType /\ now \in Nat  BY <1>1 DEF Typed
<1>5. buffer' = [buffer EXCEPT ![a] = b] /\ frame' = [frame EXCEPT ![a] = f]
  BY <1>1, <1>3 DEF Typed
<1>6. n \in Nat
  <2>1. Clock \in Nat  BY <1>4, Sizes DEF Clock
  <2> QED  BY <2>1, Sizes
<1>7. d \in Nat /\ 2 * now \in Nat  BY <1>4, Sizes, Ticks
<1>8. c \in Nat
  <2>1. p.cycle \in Nat  BY <1>4 DEF PpmType
  <2> QED  BY <2>1, Sizes, CounterStep
<1>9. Provider(p, b, f, FALSE, a \in refused)  BY <1>1 DEF Providers
<1> HIDE DEF p, b, f, n, d, c
<1>10. r \in PpmType /\ r.created = p.created /\ r.armed /\ r.running /\ r.state = "RUN"
  BY <1>4, <1>6, <1>7, <1>8 DEF PpmType
<1> HIDE DEF r
<1>11. Provider(r, b, f, writer' = a, a \in refused')
  BY <1>1, <1>3, <1>9, <1>10 DEF Provider
<1> QED  BY <1>1, <1>2, <1>3, <1>4, <1>5, <1>10, <1>11, StepOfOne DEF p, Typed

\* The timer sends a frame that is whole, with the next value of the counter.
LEMMA SendInv == ASSUME PInv, NEW a \in Ars, Send(a) PROVE PInv'
<1> DEFINE p == ppm[a]
           b == buffer[a]
           f == Finished(a)
           n == NextExec(a)
           d == now + TicksTo((n - Clock) % ClockMod)
           c == NextCycle(p.cycle)
           r == [p EXCEPT !.cycle = c, !.next = n, !.first = TRUE, !.due = d,
                          !.sent = p.sent + 1, !.ran = now]
<1>1. Typed /\ Providers /\ p.armed /\ p.running /\ writer # a
  BY DEF PInv, Send, Expired, MayCopy
<1>2. ppm' = [ppm EXCEPT ![a] = r]  BY <1>1, Zenon DEF Send, Typed
<1>3. /\ frame' = [frame EXCEPT ![a] = f]
      /\ UNCHANGED <<now, buffer, writer, writes, instances, lock, refused>>
  BY DEF Send
<1>4. p \in PpmType /\ b \in BufferType /\ now \in Nat  BY <1>1 DEF Typed
<1>5. buffer' = [buffer EXCEPT ![a] = b]  BY <1>1, <1>3 DEF Typed
<1>6. n \in Nat
  <2>1. p.next \in Nat  BY <1>4 DEF PpmType
  <2> QED  BY <2>1, Sizes DEF NextExec
<1>7. d \in Nat
  <2>1. Clock \in Nat  BY <1>4, Sizes DEF Clock
  <2>2. (n - Clock) % ClockMod \in Nat  BY <1>6, <2>1, Sizes
  <2> QED  BY <1>4, <2>2, Ticks
<1>8. f \in FrameType /\ f.data = f.iops /\ f.cycle = c /\ c \in Nat
  BY <1>1, FinishedIs
<1>9. Provider(p, b, frame[a], FALSE, a \in refused)  BY <1>1 DEF Providers
<1> HIDE DEF p, b, f, n, d, c
<1>10. p.sent \in Nat  BY <1>4 DEF PpmType
<1>11. /\ r \in PpmType /\ r.created = p.created /\ r.armed = p.armed
       /\ r.running = p.running /\ r.state = p.state /\ r.cycle = c
  <2>1. p.sent + 1 \in Nat  BY <1>10
  <2>2. r \in PpmType  BY <1>4, <1>6, <1>7, <1>8, <2>1 DEF PpmType
  <2> QED  BY <1>4, <2>2 DEF PpmType
<1> HIDE DEF r
<1>12. Provider(r, b, f, writer' = a, a \in refused')
  BY <1>1, <1>3, <1>8, <1>9, <1>11 DEF Provider
<1> QED  BY <1>1, <1>2, <1>3, <1>4, <1>5, <1>8, <1>11, <1>12, StepOfOne DEF p, Typed

\* A frame that is refused leaves the provider without a timer.
LEMMA SendRefusedInv == ASSUME PInv, NEW a \in Ars, SendRefused(a) PROVE PInv'
<1> DEFINE p == ppm[a]
           b == buffer[a]
           f == frame[a]
           c == NextCycle(p.cycle)
           r == [p EXCEPT !.armed = FALSE, !.cycle = c]
<1>1. Typed /\ Providers /\ p.armed /\ p.running /\ writer # a
  BY DEF PInv, SendRefused, Expired, MayCopy
<1>2. ppm' = [ppm EXCEPT ![a] = r]  BY <1>1, Zenon DEF SendRefused, Typed
<1>3. /\ refused' = refused \cup {a}
      /\ UNCHANGED <<now, buffer, frame, writer, writes, instances, lock>>
  BY DEF SendRefused
<1>4. p \in PpmType /\ b \in BufferType /\ f \in FrameType  BY <1>1 DEF Typed
<1>5. buffer' = [buffer EXCEPT ![a] = b] /\ frame' = [frame EXCEPT ![a] = f]
  BY <1>1, <1>3 DEF Typed
<1>6. c \in Nat
  <2>1. p.cycle \in Nat  BY <1>4 DEF PpmType
  <2> QED  BY <2>1, Sizes, CounterStep
<1>7. Provider(p, b, f, FALSE, a \in refused)  BY <1>1 DEF Providers
<1> HIDE DEF p, b, f, c
<1>8. /\ r \in PpmType /\ r.created = p.created /\ ~r.armed
      /\ r.running = p.running /\ r.state = p.state
  BY <1>4, <1>6 DEF PpmType
<1> HIDE DEF r
<1>9. Provider(r, b, f, writer' = a, a \in refused')
  BY <1>1, <1>3, <1>7, <1>8 DEF Provider
<1> QED  BY <1>1, <1>2, <1>3, <1>4, <1>5, <1>8, <1>9, StepOfOne DEF p, Typed

\* The provider is closed when no timer is left for the next frame, when it
\* could not be activated, and by CMSU.
LEMMA CloseInv ==
  ASSUME PInv, NEW a \in Ars, Close(a) \/ ActivateFails(a) \/ SendLast(a)
  PROVE  PInv'
<1>1. Typed /\ Providers  BY DEF PInv
<1>2. Closed(a) /\ writer = Nobody /\ UNCHANGED <<now, buffer, writer, writes, refused>>
  BY DEF Close, ActivateFails, SendLast
<1>3. ppm[a].created
  BY <1>1 DEF Close, ActivateFails, SendLast, Expired, Providers, Provider
<1>4. CASE SendLast(a)
  <2>1. frame' = [frame EXCEPT ![a] = Finished(a)]  BY <1>4 DEF SendLast
  <2>2. writer # a  BY <1>2, PpmAssumption
  <2> QED  BY <1>2, <1>3, <2>1, <2>2, FinishedIs, ClosedInv
<1>5. CASE Close(a) \/ ActivateFails(a)
  <2> DEFINE f == frame[a]
  <2>1. frame' = frame  BY <1>5 DEF Close, ActivateFails
  <2>2. f \in FrameType /\ frame' = [frame EXCEPT ![a] = f]  BY <1>1, <2>1 DEF Typed
  <2>3. f.data = f.iops  BY <1>1 DEF Providers, Provider
  <2> HIDE DEF f
  <2> QED  BY <1>2, <1>3, <2>2, <2>3, ClosedInv
<1> QED  BY <1>4, <1>5

\* The application writes the data and then the status.
LEMMA WriteInv ==
  ASSUME PInv, (\E a \in Ars : SetData(a)) \/ SetIops
  PROVE  PInv'
<1>1. Typed /\ Providers /\ ppm' = ppm /\ frame' = frame
      /\ UNCHANGED <<now, instances, lock, refused>>
  BY DEF PInv, SetData, SetIops
<1>2. ASSUME NEW a \in Ars, NEW b \in BufferType, buffer' = [buffer EXCEPT ![a] = b],
             ppm[a].created, writer' = a \/ b.data = b.iops,
             writer' \in Ars \cup {Nobody}, \A c \in Ars : c # a => (writer' = c <=> writer = c),
             writes' \in Nat
      PROVE  PInv'
  <2> DEFINE p == ppm[a]
             f == frame[a]
  <2>1. /\ p \in PpmType /\ f \in FrameType
        /\ ppm' = [ppm EXCEPT ![a] = p] /\ frame' = [frame EXCEPT ![a] = f]
    BY <1>1 DEF Typed
  <2>2. Provider(p, buffer[a], f, writer = a, a \in refused)  BY <1>1 DEF Providers
  <2> HIDE DEF p, f
  <2>3. Provider(p, b, f, writer' = a, a \in refused')
    BY <1>1, <1>2, <2>2 DEF Provider, p
  <2> QED  BY <1>1, <1>2, <2>1, <2>3, StepOfOne DEF p
<1>3. ASSUME NEW a \in Ars, SetData(a) PROVE PInv'
  <2> DEFINE b == [buffer[a] EXCEPT !.data = writes + 1]
  <2>1. /\ writer = Nobody /\ ppm[a].created /\ writes' = writes + 1 /\ writer' = a
        /\ buffer' = [buffer EXCEPT ![a] = b]
    BY <1>1, <1>3, Zenon DEF SetData, Typed
  <2>2. b \in BufferType /\ writes' \in Nat  BY <1>1, <2>1 DEF Typed, BufferType
  <2> HIDE DEF b
  <2>3. \A c \in Ars : c # a => (writer' = c <=> writer = c)  BY <2>1, PpmAssumption
  <2> QED  BY <1>2, <2>1, <2>2, <2>3
<1>4. ASSUME SetIops PROVE PInv'
  <2> DEFINE a == writer
             b == [buffer[a] EXCEPT !.iops = buffer[a].data]
  <2>1. a \in Ars /\ writer' = Nobody /\ writes' = writes  BY <1>1, <1>4 DEF SetIops, Typed
  <2>2. buffer' = [buffer EXCEPT ![a] = b]  BY <1>1, <1>4, <2>1, Zenon DEF SetIops, Typed
  <2>3. ppm[a].created  BY <1>1, <2>1, WriterCreated
  <2>4. b \in BufferType /\ b.data = b.iops  BY <1>1, <2>1 DEF Typed, BufferType
  <2>5. \A c \in Ars : c # a => (writer' = c <=> writer = c)  BY <2>1, PpmAssumption
  <2>6. writes' \in Nat  BY <1>1, <2>1 DEF Typed
  <2> HIDE DEF b, a
  <2> QED  BY <1>2, <2>1, <2>2, <2>3, <2>4, <2>5, <2>6
<1> QED  BY <1>3, <1>4

-----------------------------------------------------------------------------
(* A change of the status alone, and the steps of the whole.               *)

WithStatus(r, st) == [r EXCEPT !.status = st]
StatusOnly ==
  /\ ppm' = [a \in Ars |-> ppm'[a]]
  /\ \A a \in Ars : \E st \in SUBSET Bits : ppm'[a] = WithStatus(ppm[a], st)

\* Nothing but the status is different.
LEMMA WithStatusIs ==
  ASSUME NEW r \in PpmType, NEW st \in SUBSET Bits, NEW q, q = WithStatus(r, st)
  PROVE  /\ q \in PpmType /\ q.created = r.created /\ q.running = r.running
         /\ q.armed = r.armed /\ q.state = r.state /\ q.cycle = r.cycle
         /\ q.due = r.due /\ q.next = r.next /\ q.began = r.began
         /\ q.sent = r.sent /\ q.ran = r.ran
<1>1. q \in PpmType  BY DEF WithStatus, PpmType
<1> QED  BY <1>1 DEF WithStatus, PpmType

\* What the diagnosis and the application say in the status.
LEMMA StatusInv ==
  ASSUME PInv, StatusOnly, UNCHANGED <<now, buffer, frame, writer, writes, instances, lock, refused>>
  PROVE  PInv'
<1>1. Typed /\ Providers /\ Counted  BY DEF PInv
<1>2. ASSUME NEW a \in Ars
      PROVE  /\ ppm'[a] \in PpmType /\ ppm'[a].created = ppm[a].created
             /\ Provider(ppm'[a], buffer[a], frame[a], writer = a, a \in refused)
  <2>1. PICK st \in SUBSET Bits : ppm'[a] = WithStatus(ppm[a], st)  BY DEF StatusOnly
  <2>2. ppm[a] \in PpmType  BY <1>1 DEF Typed
  <2>3. /\ ppm'[a] \in PpmType /\ ppm'[a].created = ppm[a].created
        /\ ppm'[a].running = ppm[a].running /\ ppm'[a].armed = ppm[a].armed
        /\ ppm'[a].state = ppm[a].state /\ ppm'[a].cycle = ppm[a].cycle
        /\ ppm'[a].sent = ppm[a].sent
    BY <2>1, <2>2, WithStatusIs
  <2>4. Provider(ppm[a], buffer[a], frame[a], writer = a, a \in refused)
    BY <1>1 DEF Providers
  <2> QED  BY <2>3, <2>4 DEF Provider
<1>3. ppm' \in [Ars -> PpmType]
  <2>1. ppm' = [a \in Ars |-> ppm'[a]]  BY DEF StatusOnly
  <2> QED  BY <1>2, <2>1
<1>4. Providers'  BY <1>2 DEF Providers
<1>5. Created' = Created  BY <1>2 DEF Created
<1>6. Counted'  BY <1>1, <1>5 DEF Counted
<1>7. Typed'  BY <1>1, <1>3 DEF Typed
<1> QED  BY <1>4, <1>6, <1>7 DEF PInv

\* The problem indicator of the frames of one AR.
LEMMA IndicateStatus ==
  ASSUME Typed, NEW x, NEW items, NEW h, ppm' = Indicate(x, items, h)
  PROVE  StatusOnly
<1>1. ASSUME NEW r \in PpmType
      PROVE  \E st \in SUBSET Bits : r = WithStatus(r, st)
  <2>1. r.status \in SUBSET Bits /\ r = WithStatus(r, r.status)
    BY DEF PpmType, WithStatus
  <2> QED  BY <2>1
<1>2. \A a \in Ars : \E st \in SUBSET Bits : ppm[a] = WithStatus(ppm[a], st)
  BY <1>1 DEF Typed
<1>3. CASE x = NoAr \/ x \notin Ars \/ ~ppm[x].created
  <2>1. ppm' = ppm  BY <1>3 DEF Indicate, Typed
  <2> QED  BY <1>2, <2>1 DEF StatusOnly, Typed
<1>4. CASE x # NoAr /\ x \in Ars /\ ppm[x].created
  <2> DEFINE problem == Problem(items, h)
             q == WithProblem(ppm[x], problem)
             st == IF problem THEN ppm[x].status \ {"NO_PROBLEM"}
                              ELSE ppm[x].status \cup {"NO_PROBLEM"}
  <2>1. ppm' = [ppm EXCEPT ![x] = q]  BY <1>4, Zenon DEF Indicate, Typed
  <2>2. q = WithStatus(ppm[x], st)  BY DEF WithProblem, WithStatus
  <2>3. st \in SUBSET Bits
    <3>1. ppm[x].status \in SUBSET Bits  BY <1>4 DEF Typed, PpmType
    <3> QED  BY <3>1 DEF Bits, FirstStatus
  <2> HIDE DEF q, st, problem
  <2> QED  BY <1>2, <2>1, <2>2, <2>3 DEF StatusOnly, Typed
<1> QED  BY <1>3, <1>4

\* A call of the diagnosis changes no more of a provider than its status.
LEMMA DiagStatus ==
  ASSUME Typed, NEW t \in Callers, DiagStep(t)
  PROVE  UNCHANGED ppm \/ StatusOnly
<1>1. UNCHANGED ppm \/ \E x, items, h : ppm' = Indicate(x, items, h)
  <2>1. ASSUME NEW s, NEW ix, NEW i, NEW items, NEW h, NEW tell, Put(s, ix, i, items, h, tell)
        PROVE  \E x, its, g : ppm' = Indicate(x, its, g)
    BY <2>1 DEF Put
  <2>2. ASSUME NEW s \in Subs, NEW name \in Names, NEW sev \in Severities, Add(t, s, name, sev)
        PROVE  UNCHANGED ppm \/ \E x, items, h : ppm' = Indicate(x, items, h)
    <3>1. CASE AddNew(t, s, name, sev)  BY <2>1, <3>1 DEF AddNew
    <3>2. CASE Overwrite(t, s, name, sev)  BY <2>1, <3>2, Zenon DEF Overwrite
    <3>3. CASE Update(t, s, name)  BY <2>1, <3>3, Zenon DEF Update
    <3>4. CASE AddRefused(t, s, name)  BY <3>4 DEF AddRefused
    <3> QED  BY <2>2, <3>1, <3>2, <3>3, <3>4 DEF Add
  <2>3. ASSUME NEW s \in Subs, NEW name \in Names, Unlink(t, s, name) PROVE UNCHANGED ppm
    BY <2>3 DEF Unlink
  <2>4. Tell(t) \/ Link(t) => UNCHANGED ppm  BY DEF Tell, Link
  <2>5. Free(t) => \E x, items, h : ppm' = Indicate(x, items, h)
    BY Zenon DEF Free
  <2> QED  BY <2>2, <2>3, <2>4, <2>5, Zenon DEF DiagStep
<1> QED  BY <1>1, IndicateStatus

\* The status bits the application sets.
LEMMA SetStatusStatus ==
  ASSUME Typed, NEW bit \in Bits, NEW on \in BOOLEAN, SetStatus(bit, on)
  PROVE  StatusOnly
<1>1. ASSUME NEW a \in Ars
      PROVE  \E st \in SUBSET Bits : ppm'[a] = WithStatus(ppm[a], st)
  <2> DEFINE r == ppm[a]
             st == IF ~r.created THEN r.status
                   ELSE IF on THEN r.status \cup {bit} ELSE r.status \ {bit}
  <2>1. r \in PpmType  BY DEF Typed
  <2>2. st \in SUBSET Bits  BY <2>1 DEF PpmType
  <2>3. ppm'[a] = IF ~r.created THEN r
                  ELSE [r EXCEPT !.status = IF on THEN r.status \cup {bit} ELSE r.status \ {bit}]
    BY DEF SetStatus
  <2>4. r = [r EXCEPT !.status = r.status]  BY <2>1 DEF PpmType
  <2>5. ppm'[a] = WithStatus(r, st)  BY <2>3, <2>4 DEF WithStatus
  <2> QED  BY <2>2, <2>5
<1>2. ppm' = [a \in Ars |-> ppm'[a]]  BY DEF SetStatus
<1> QED  BY <1>1, <1>2, Zenon DEF StatusOnly

\* Nobody is connected at the start.
LEMMA ProviderInit == ASSUME PpmInit PROVE PInv
<1>1. /\ ppm = [a \in Ars |-> NoPpm] /\ frame = [a \in Ars |-> NoFrame]
      /\ buffer = [a \in Ars |-> [data |-> 0, iops |-> 0]]
      /\ now = 0 /\ writer = Nobody /\ writes = 0 /\ instances = 0
      /\ lock = FALSE /\ refused = {}
  BY DEF PpmInit
<1>2. Typed  BY <1>1, NoPpmType DEF Typed, BufferType
<1>3. \A a \in Ars : writer # a  BY <1>1, PpmAssumption
<1>4. Providers
  <2> SUFFICES ASSUME NEW a \in Ars
               PROVE  Provider(ppm[a], buffer[a], frame[a], writer = a, a \in refused)
    BY DEF Providers
  <2>1. ppm[a] = NoPpm /\ frame[a] = NoFrame /\ buffer[a].data = buffer[a].iops  BY <1>1
  <2> QED  BY <1>3, <2>1, NoPpmType DEF Provider
<1>5. Created = {}  BY <1>1, NoPpmType DEF Created
<1>6. Counted
  <2>1. Cardinality(Created) = 0  BY <1>5, FS_EmptySet
  <2>2. lock = (Created # {})  BY <1>1, <1>5, Zenon
  <2> QED  BY <1>1, <2>1, <2>2 DEF Counted
<1> QED  BY <1>2, <1>4, <1>6 DEF PInv

\* Every step that the provider takes part in.
LEMMA ProviderStep == ASSUME PInv, [Next]_vars PROVE PInv'
<1>1. Typed  BY DEF PInv
<1>2. ASSUME NEW a \in Ars, Create(a) PROVE PInv'  BY <1>2, CreateInv
<1>3. ASSUME NEW n \in 1 .. MaxLate, Tick(n) PROVE PInv'
  <2>1. /\ now' = now + n
        /\ UNCHANGED <<ppm, buffer, frame, writer, writes, instances, lock, refused>>
    BY <1>3 DEF Tick
  <2>2. now' \in Nat  BY <1>1, <2>1, Sizes DEF Typed
  <2>3. Typed'  BY <1>1, <2>1, <2>2 DEF Typed
  <2> QED  BY <2>1, <2>3 DEF PInv, Providers, Counted, Created
<1>4. ASSUME NEW bit \in {"PROVIDER"}, NEW on \in BOOLEAN, SetStatus(bit, on) PROVE PInv'
  <2>1. StatusOnly  BY <1>1, <1>4, SetStatusStatus DEF Bits
  <2> QED  BY <1>4, <2>1, StatusInv DEF SetStatus
<1>5. ASSUME Connections PROVE PInv'
  BY <1>3, <1>4, <1>5, ActivateInv, SendInv, SendRefusedInv, CloseInv, WriteInv DEF Connections
<1>6. ASSUME UNCHANGED ppmVars PROVE PInv'
  BY <1>6 DEF PInv, Typed, Providers, Counted, Created, ppmVars
<1>7. ASSUME NEW t \in Callers, DiagStep(t) PROVE PInv'
  <2>1. UNCHANGED <<now, buffer, frame, writer, writes, instances, lock, refused>>
    BY <1>7 DEF DiagStep
  <2>2. CASE UNCHANGED ppm  BY <1>6, <2>1, <2>2 DEF ppmVars
  <2>3. CASE StatusOnly  BY <2>1, <2>3, StatusInv
  <2> QED  BY <1>1, <1>7, <2>2, <2>3, DiagStatus
<1> QED  BY <1>2, <1>5, <1>6, <1>7 DEF Next, Connect, Replug, vars

\* The lock, the count and the timers agree in every state.
THEOREM ProviderAlways == Spec => []PInv
<1>1. Init => PInv  BY ProviderInit DEF Init
<1>2. PInv /\ [Next]_vars => PInv'  BY ProviderStep
<1> QED  BY <1>1, <1>2, PTL DEF Spec

\* A provider that runs is silent only after the driver refused a frame, for
\* any number of providers that come and go.
THEOREM SilenceExplained == Spec => []SilentOnlyWhenRefused
<1>1. PInv => SilentOnlyWhenRefused
  <2> SUFFICES ASSUME PInv PROVE SilentOnlyWhenRefused  OBVIOUS
  <2>1. Typed /\ Providers /\ Counted  BY DEF PInv
  <2>2. \A a \in Ars : ppm[a].running /\ ~ppm[a].armed => a \in refused
    BY <2>1 DEF Providers, Provider
  <2>3. (Created # {}) <=> (\E a \in Ars : ppm[a].created)  BY DEF Created
  <2>4. lock = (\E a \in Ars : ppm[a].created)
    BY <2>1, <2>3, Zenon DEF Counted
  <2>5. instances = Cardinality({a \in Ars : ppm[a].created})
    BY <2>1 DEF Counted, Created
  <2> QED  BY <2>2, <2>4, <2>5 DEF SilentOnlyWhenRefused
<1> QED  BY <1>1, ProviderAlways, PTL

-----------------------------------------------------------------------------
(* The frames and their deadlines.                                         *)

\* The deadline of the next frame, in the cycle that began with the activation.
Due(r, i) == r.began + (r.sent + 1) * i

SameTimer(r, q) ==
  /\ q.armed = r.armed /\ q.due = r.due /\ q.next = r.next
  /\ q.began = r.began /\ q.sent = r.sent /\ q.ran = r.ran

\* What a step does to the timer of one provider.
LEMMA TimerStep ==
  ASSUME PInv, [Next]_vars, NEW a \in Ars
  PROVE  \/ Send(a) \/ Activate(a) \/ SameTimer(ppm[a], ppm'[a])
         \/ ~ppm'[a].armed /\ (ppm'[a].sent = ppm[a].sent \/ ppm'[a].sent = 0)
<1> DEFINE Claim == \/ Send(a) \/ Activate(a) \/ SameTimer(ppm[a], ppm'[a])
                    \/ ~ppm'[a].armed /\ (ppm'[a].sent = ppm[a].sent \/ ppm'[a].sent = 0)
<1>1. Typed /\ ppm[a] \in PpmType  BY DEF PInv, Typed
<1>2. CASE ppm' = ppm  BY <1>2 DEF SameTimer
<1>3. CASE StatusOnly
  <2>1. PICK st \in SUBSET Bits : ppm'[a] = WithStatus(ppm[a], st)  BY <1>3 DEF StatusOnly
  <2> QED  BY <1>1, <2>1, WithStatusIs DEF SameTimer
<1>4. ASSUME NEW c \in Ars, NEW r, ppm' = [ppm EXCEPT ![c] = r],
             c = a => ~r.armed /\ (r.sent = ppm[a].sent \/ r.sent = 0)
      PROVE  Claim
  BY <1>1, <1>4 DEF SameTimer, Typed
<1>5. ASSUME NEW c \in Ars, Create(c) PROVE Claim
  <2> DEFINE r == [NoPpm EXCEPT !.created = TRUE, !.status = FirstStatus]
  <2>1. ppm' = [ppm EXCEPT ![c] = r]  BY <1>5 DEF Create
  <2>2. ~r.armed /\ r.sent = 0  BY DEF NoPpm
  <2> HIDE DEF r, Claim
  <2> QED  BY <1>4, <2>1, <2>2
<1>6. ASSUME NEW c \in Ars, Closed(c) PROVE Claim
  <2>1. ppm' = [ppm EXCEPT ![c] = NoPpm]  BY <1>6 DEF Closed
  <2>2. ~NoPpm.armed /\ NoPpm.sent = 0  BY DEF NoPpm
  <2> HIDE DEF Claim
  <2> QED  BY <1>4, <2>1, <2>2
<1>7. ASSUME NEW c \in Ars, SendRefused(c) PROVE Claim
  <2> DEFINE r == [ppm[c] EXCEPT !.armed = FALSE, !.cycle = NextCycle(ppm[c].cycle)]
  <2>1. ppm' = [ppm EXCEPT ![c] = r]  BY <1>1, <1>7, Zenon DEF SendRefused, Typed
  <2>2. c = a => ~r.armed /\ r.sent = ppm[a].sent  BY <1>1 DEF PpmType
  <2> HIDE DEF r, Claim
  <2> QED  BY <1>4, <2>1, <2>2
<1>8. ASSUME NEW c \in Ars, Send(c) \/ Activate(c) PROVE Claim
  <2>1. c # a => ppm'[a] = ppm[a]  BY <1>1, <1>8 DEF Send, Activate, Typed
  <2> QED  BY <1>8, <2>1 DEF SameTimer
<1>9. ASSUME NEW bit \in {"PROVIDER"}, NEW on \in BOOLEAN, SetStatus(bit, on) PROVE Claim
  <2>1. StatusOnly  BY <1>1, <1>9, SetStatusStatus DEF Bits
  <2> QED  BY <1>3, <2>1
<1>10. ASSUME Connections PROVE Claim
  <2>1. ASSUME NEW c \in Ars, Close(c) \/ ActivateFails(c) \/ SendLast(c) PROVE Claim
    BY <1>6, <2>1 DEF Close, ActivateFails, SendLast
  <2>2. ASSUME \/ \E c \in Ars : SetData(c)
               \/ \E n \in 1 .. MaxLate : Tick(n)
               \/ SetIops
        PROVE  ppm' = ppm
    BY <2>2 DEF SetData, Tick, SetIops
  <2> HIDE DEF Claim
  <2>3. ppm' = ppm => Claim  BY <1>2 DEF Claim
  <2> QED  BY <1>7, <1>8, <1>9, <1>10, <2>1, <2>2, <2>3 DEF Connections
<1>11. ASSUME NEW t \in Callers, DiagStep(t) PROVE Claim
  <2>1. ppm' = ppm \/ StatusOnly  BY <1>1, <1>11, DiagStatus
  <2> QED  BY <1>2, <1>3, <2>1
<1>12. UNCHANGED ppmVars => Claim  BY <1>2 DEF ppmVars
<1> HIDE DEF Claim
<1>13. Claim  BY <1>5, <1>10, <1>11, <1>12 DEF Next, Connect, Replug, vars
<1> QED  BY <1>13 DEF Claim

\* A frame is sent with a counter that is newer than that of the last.
LEMMA SentIsNewer ==
  ASSUME PInv, [Next]_vars, NEW a \in Ars,
         ppm'[a].sent = ppm[a].sent + 1, frame[a] # NoFrame
  PROVE  Newer(frame'[a].cycle, frame[a].cycle)
<1>1. Typed /\ Providers /\ ppm[a] \in PpmType  BY DEF PInv, Typed
<1>2. ppm[a].sent \in Nat /\ ppm[a].cycle \in Nat  BY <1>1 DEF PpmType
<1>3. Send(a)
  <2>1. ~SameTimer(ppm[a], ppm'[a])  BY <1>2 DEF SameTimer
  <2>2. ppm'[a].sent # ppm[a].sent /\ ppm'[a].sent # 0  BY <1>2
  <2>3. Activate(a) => ppm'[a].sent = ppm[a].sent
    <3>1. a \in DOMAIN ppm  BY <1>1 DEF Typed
    <3> QED  BY <1>1, <3>1 DEF Activate, PpmType
  <2> QED  BY <2>1, <2>2, <2>3, TimerStep
<1>4. ppm[a].armed /\ writer # a  BY <1>3 DEF Send, Expired, MayCopy
<1>5. frame[a].cycle = ppm[a].cycle  BY <1>1, <1>4 DEF Providers, Provider
<1>6. frame'[a] = Finished(a)  BY <1>1, <1>3 DEF Send, Typed
<1>7. frame'[a].cycle = NextCycle(ppm[a].cycle)  BY <1>4, <1>6, FinishedIs
<1> QED  BY <1>2, <1>5, <1>7, CounterStep

\* Frames are whole, and each is newer than the one before it, for any cycle
\* and any range of the counter more than two of its steps.
THEOREM FramesWholeAndNewer == Spec => FramesRight
<1>1. PInv => FrameWhole  BY DEF PInv, Providers, Provider, FrameWhole
<1>2. PInv /\ [Next]_vars =>
        [\A a \in Ars : ppm'[a].sent = ppm[a].sent + 1 /\ frame[a] # NoFrame
            => Newer(frame'[a].cycle, frame[a].cycle)]_ppmVars
  BY SentIsNewer
<1> QED  BY <1>1, <1>2, ProviderAlways, PTL DEF Spec, FramesRight, CountersAdvance

-----------------------------------------------------------------------------
(* The schedule.  Lateness adds up when the main thread is always late; as *)
(* long as no provider is behind its deadline by what the range of the     *)
(* clock leaves beside the longest delay, over an hour, a deadline that    *)
(* was missed is told from one to come.                                    *)

OnTime(r, i) ==
  r.armed => /\ r.next = Due(r, i) % ClockMod
             /\ 2 * r.due >= Due(r, i) - 1
             /\ 2 * r.due <= Due(r, i) + 1 \/ r.due = r.ran + 1

Keeps(r, i, t) == r.armed => 2 * t - Due(r, i) < ClockMod - MaxDelay
KeepsUp == \A a \in Ars : Keeps(ppm[a], Interval[a], now)

Scheduled == PInv /\ \A a \in Ars : OnTime(ppm[a], Interval[a])

\* The types of the times.
LEMMA Times ==
  ASSUME PInv, NEW a \in Ars
  PROVE  /\ now \in Nat /\ ppm[a] \in PpmType
         /\ ppm[a].due \in Nat /\ ppm[a].next \in Nat /\ ppm[a].began \in Nat
         /\ ppm[a].sent \in Nat /\ ppm[a].ran \in Nat
         /\ Interval[a] \in Nat /\ Interval[a] >= 2 /\ Interval[a] < MaxDelay
         /\ Due(ppm[a], Interval[a]) \in Nat
<1>1. now \in Nat /\ ppm[a] \in PpmType  BY DEF PInv, Typed
<1>2. /\ ppm[a].due \in Nat /\ ppm[a].next \in Nat /\ ppm[a].began \in Nat
      /\ ppm[a].sent \in Nat /\ ppm[a].ran \in Nat
  BY <1>1 DEF PpmType
<1>3. Interval[a] \in Nat /\ Interval[a] >= 2 /\ Interval[a] < MaxDelay  BY Sizes
<1>4. (ppm[a].sent + 1) * Interval[a] \in Nat  BY <1>2, <1>3
<1> QED  BY <1>1, <1>2, <1>3, <1>4 DEF Due

\* The delay to a deadline that is not missed by more than KeepsUp allows,
\* nor further off than the longest delay, is rounded to half a tick.
LEMMA Rounded ==
  ASSUME NEW d \in Int, NEW t \in Nat, NEW n \in Int, n = d % ClockMod,
         d - 2 * t <= MaxDelay, 2 * t - d < ClockMod - MaxDelay
  PROVE  LET u == t + TicksTo((n - ((2 * t) % ClockMod)) % ClockMod)
         IN /\ u \in Nat /\ u >= t + 1
            /\ 2 * u >= d - 1
            /\ 2 * u <= d + 1 \/ u = t + 1
            /\ d - 2 * t >= 1 => 2 * u <= d + 1
<1> DEFINE x == d - 2 * t
           w == (n - ((2 * t) % ClockMod)) % ClockMod
<1>1. /\ ClockMod \in Nat \ {0} /\ MaxDelay \in Nat /\ ClockMod > MaxDelay /\ 2 * t \in Int
      /\ x \in Int
  BY Sizes
<1>2. w = x % ClockMod
  <2> DEFINE e == 2 * t
  <2>1. e \in Int /\ x = d - e  BY <1>1
  <2> HIDE DEF e, x
  <2>2. ((d % ClockMod) - (e % ClockMod)) % ClockMod = (d - e) % ClockMod
    BY <1>1, <2>1, ReducedDifference
  <2> QED  BY <2>1, <2>2 DEF e
<1> HIDE DEF w
<1>3. CASE x >= 0
  <2>1. x \in 0 .. ClockMod - 1 /\ 0 \in Int /\ x = x + ClockMod * 0  BY <1>1, <1>3
  <2>2. w = x  BY <1>1, <1>2, <2>1, RemainderIs
  <2>3. w \in Nat /\ w <= MaxDelay  BY <1>3, <2>2, <1>1
  <2>4. /\ TicksTo(w) \in Nat /\ TicksTo(w) >= 1
        /\ w <= 3 => TicksTo(w) = 1
        /\ w > 3 => 2 * TicksTo(w) = w \/ 2 * TicksTo(w) = w + 1
    BY <2>3, Ticks
  <2> QED  BY <1>3, <2>2, <2>3, <2>4 DEF w
<1>4. CASE x < 0
  <2>1. /\ x + ClockMod \in 0 .. ClockMod - 1 /\ -1 \in Int
        /\ x = (x + ClockMod) + ClockMod * (-1)
    BY <1>1, <1>4
  <2>2. w = x + ClockMod  BY <1>1, <1>2, <2>1, RemainderIs
  <2>3. w \in Nat /\ w > MaxDelay  BY <1>1, <2>1, <2>2
  <2>4. TicksTo(w) = 1  BY <2>3, Ticks
  <2> QED  BY <1>1, <1>4, <2>4 DEF w
<1> QED  BY <1>1, <1>3, <1>4

\* At the activation the first deadline is a cycle away.
LEMMA ActivateOnTime ==
  ASSUME PInv, NEW a \in Ars, Activate(a)
  PROVE  /\ OnTime(ppm'[a], Interval[a]) /\ ppm'[a].due >= now + 1
         /\ 2 * ppm'[a].due <= Due(ppm'[a], Interval[a]) + 1
<1> DEFINE p == ppm[a]
           q == ppm'[a]
           i == Interval[a]
           d == 2 * now + i
           m == (2 * now) % ClockMod
<1>1. Typed /\ Providers /\ p.created /\ p.state = "W_START"  BY DEF PInv, Activate
<1>2. /\ q.next = (m + i) % ClockMod /\ q.due = now + TicksTo(i)
      /\ q.began = 2 * now /\ q.sent = p.sent /\ q.ran = now
  <2>1. a \in DOMAIN ppm /\ ppm[a] \in PpmType  BY <1>1 DEF Typed
  <2>2. /\ q.next = (Clock + i) % ClockMod /\ q.due = now + TicksTo(i)
        /\ q.began = 2 * now /\ q.sent = p.sent /\ q.ran = now
    BY <2>1 DEF Activate, PpmType
  <2> QED  BY <2>2 DEF Clock
<1>3. p.sent = 0  BY <1>1 DEF Providers, Provider
<1>4. now \in Nat /\ i \in Nat /\ i >= 2 /\ i < MaxDelay  BY Times
<1> HIDE DEF p, q, i
<1>5. Due(q, i) = d /\ d \in Nat  BY <1>2, <1>3, <1>4 DEF Due
<1>6. /\ TicksTo(i) \in Nat /\ TicksTo(i) >= 1
      /\ i <= 3 => TicksTo(i) = 1
      /\ i > 3 => 2 * TicksTo(i) = i \/ 2 * TicksTo(i) = i + 1
  BY <1>4, Sizes, Ticks
<1>7. q.next = d % ClockMod
  <2> DEFINE e == 2 * now
  <2>1. e \in Int /\ i \in Int /\ d = e + i  BY <1>4
  <2> HIDE DEF e
  <2>2. ((e % ClockMod) + i) % ClockMod = (e + i) % ClockMod
    BY <2>1, Sizes, ReducedSum
  <2> QED  BY <1>2, <2>1, <2>2 DEF e
<1> HIDE DEF m
<1>8. /\ 2 * q.due >= d - 1 /\ 2 * q.due <= d + 1 /\ q.due >= now + 1
  BY <1>2, <1>4, <1>6
<1> QED  BY <1>5, <1>7, <1>8 DEF OnTime, q, i

\* A frame moves the deadline by one cycle.
LEMMA SendOnTime ==
  ASSUME PInv, NEW a \in Ars, Send(a), OnTime(ppm[a], Interval[a]),
         2 * now - Due(ppm[a], Interval[a]) - Interval[a] < ClockMod - MaxDelay
  PROVE  /\ OnTime(ppm'[a], Interval[a]) /\ ppm'[a].due >= now + 1
         /\ Due(ppm'[a], Interval[a]) = Due(ppm[a], Interval[a]) + Interval[a]
         /\ Due(ppm'[a], Interval[a]) - 2 * now >= 1
               => 2 * ppm'[a].due <= Due(ppm'[a], Interval[a]) + 1
<1> DEFINE p == ppm[a]
           q == ppm'[a]
           i == Interval[a]
           d == Due(p, i)
           n == (p.next + i) % ClockMod
           e == d + i
<1>1. Typed /\ p.armed /\ p.due <= now  BY DEF PInv, Send, Expired
<1>2. /\ q.next = n /\ q.due = now + TicksTo((n - ((2 * now) % ClockMod)) % ClockMod)
      /\ q.began = p.began /\ q.sent = p.sent + 1 /\ q.ran = now
  <2>1. a \in DOMAIN ppm /\ ppm[a] \in PpmType  BY <1>1 DEF Typed
  <2>2. /\ q.cycle = NextCycle(p.cycle) /\ q.next = NextExec(a) /\ q.first = TRUE
        /\ q.due = now + TicksTo((NextExec(a) - Clock) % ClockMod)
        /\ q.sent = p.sent + 1 /\ q.ran = now /\ q.began = p.began
    BY <2>1 DEF Send, PpmType
  <2> QED  BY <2>2 DEF Clock, NextExec
<1>3. /\ now \in Nat /\ i \in Nat /\ i >= 2 /\ i < MaxDelay /\ p.due \in Nat
      /\ p.began \in Nat /\ p.sent \in Nat /\ d \in Nat
  BY Times
<1>4. p.next = d % ClockMod /\ 2 * p.due >= d - 1 /\ 2 * now - d - i < ClockMod - MaxDelay
  BY <1>1 DEF OnTime
<1>5. Due(q, i) = e
  <2> HIDE DEF q, p, i
  <2>1. (p.sent + 1 + 1) * i = (p.sent + 1) * i + i  BY <1>3
  <2>2. (p.sent + 1) * i \in Nat  BY <1>3
  <2> QED  BY <1>2, <1>3, <2>1, <2>2 DEF Due
<1> HIDE DEF d, p, q, i
<1>6. n = e % ClockMod
  <2>1. d \in Int /\ i \in Int  BY <1>3
  <2>2. ((d % ClockMod) + i) % ClockMod = (d + i) % ClockMod  BY <2>1, Sizes, ReducedSum
  <2> QED  BY <1>4, <2>2
<1>7. n \in Int  BY <1>3, <1>6, Sizes
<1>8. /\ e \in Int /\ e - 2 * now <= MaxDelay /\ 2 * now - e < ClockMod - MaxDelay
  BY <1>1, <1>3, <1>4, Sizes
<1> HIDE DEF n, e
<1>9. /\ q.due \in Nat /\ q.due >= now + 1
      /\ 2 * q.due >= e - 1
      /\ 2 * q.due <= e + 1 \/ q.due = now + 1
      /\ e - 2 * now >= 1 => 2 * q.due <= e + 1
  BY <1>2, <1>3, <1>6, <1>7, <1>8, Rounded
<1> QED  BY <1>2, <1>5, <1>6, <1>9 DEF OnTime, q, i, e, d, p

\* A step keeps the schedule where no provider is too late after it.
LEMMA ScheduleStep ==
  ASSUME Scheduled, KeepsUp', [Next]_vars
  PROVE  Scheduled'
<1>1. PInv /\ PInv'  BY ProviderStep DEF Scheduled
<1>2. ASSUME NEW a \in Ars PROVE OnTime(ppm'[a], Interval[a])
  <2>1. OnTime(ppm[a], Interval[a])  BY DEF Scheduled
  <2>2. CASE Send(a)
    <3> DEFINE i == Interval[a]
               d == Due(ppm[a], i)
    <3>1. Keeps(ppm'[a], i, now') /\ now' = now  BY <2>2 DEF KeepsUp, Send
    <3>2. ppm'[a].armed /\ ppm'[a].began = ppm[a].began /\ ppm'[a].sent = ppm[a].sent + 1
      <4>1. Typed /\ ppm[a].armed  BY <1>1, <2>2 DEF PInv, Send, Expired
      <4> QED  BY <2>2, <4>1 DEF Send, Typed, PpmType
    <3>3. /\ now \in Nat /\ i \in Nat /\ ppm[a].began \in Nat /\ ppm[a].sent \in Nat
          /\ d \in Nat
      BY <1>1, Times
    <3> HIDE DEF i
    <3>4. Due(ppm'[a], i) = d + i
      <4>1. (ppm[a].sent + 1 + 1) * i = (ppm[a].sent + 1) * i + i  BY <3>3
      <4>2. (ppm[a].sent + 1) * i \in Nat  BY <3>3
      <4> QED  BY <3>2, <3>3, <4>1, <4>2 DEF Due
    <3> HIDE DEF d
    <3>5. 2 * now - d - i < ClockMod - MaxDelay
      BY <3>1, <3>2, <3>3, <3>4, Sizes DEF Keeps
    <3> QED  BY <1>1, <2>1, <2>2, <3>5, SendOnTime DEF d, i
  <2>3. CASE Activate(a)  BY <1>1, <2>3, ActivateOnTime
  <2>4. CASE SameTimer(ppm[a], ppm'[a])  BY <2>1, <2>4 DEF SameTimer, OnTime, Due
  <2>5. CASE ~ppm'[a].armed  BY <2>5 DEF OnTime
  <2> QED  BY <1>1, <2>2, <2>3, <2>4, <2>5, TimerStep
<1> QED  BY <1>1, <1>2 DEF Scheduled

\* At the start no timer runs.
LEMMA ScheduleInit == ASSUME Init PROVE Scheduled
<1>1. PInv  BY ProviderInit DEF Init
<1>2. \A a \in Ars : ~ppm[a].armed  BY NoPpmType DEF Init, PpmInit
<1> QED  BY <1>1, <1>2 DEF Scheduled, OnTime

\* Each frame goes out half a tick around its place in the cycle, or one tick
\* after the last where the main thread is late, for any intervals below the
\* longest delay and any range of the clock that the lateness leaves room in.
THEOREM ScheduleKept == Spec /\ []KeepsUp => []OnSchedule
<1>1. Scheduled => OnSchedule
  BY DEF Scheduled, OnTime, OnSchedule, Due
<1>2. Init => Scheduled  BY ScheduleInit
<1>3. Scheduled /\ KeepsUp' /\ [Next]_vars => Scheduled'  BY ScheduleStep
<1> QED  BY <1>1, <1>2, <1>3, PTL DEF Spec

-----------------------------------------------------------------------------
(* A main thread that runs in every tick is never late by more than half   *)
(* of one, so that it keeps up without an assumption.                      *)

Punctual(r, i, t) == r.armed => t <= r.due /\ 2 * r.due <= Due(r, i) + 1
AllPunctual == \A a \in Ars : Punctual(ppm[a], Interval[a], now)

\* Only a tick moves the clock.
LEMMA ClockStep ==
  ASSUME [Next]_vars
  PROVE  now' = now \/ \E n \in 1 .. MaxLate : Tick(n)
<1>1. ASSUME Connections PROVE now' = now \/ \E n \in 1 .. MaxLate : Tick(n)
  <2>1. ASSUME NEW a \in Ars,
               \/ Close(a) \/ Activate(a) \/ ActivateFails(a)
               \/ Send(a) \/ SendRefused(a) \/ SendLast(a) \/ SetData(a)
        PROVE  now' = now
    BY <2>1 DEF Close, Activate, ActivateFails, Send, SendRefused, SendLast, SetData
  <2>2. SetIops => now' = now  BY DEF SetIops
  <2>3. ASSUME NEW bit, NEW on, SetStatus(bit, on) PROVE now' = now  BY <2>3 DEF SetStatus
  <2> QED  BY <1>1, <2>1, <2>2, <2>3, Zenon DEF Connections
<1>2. ASSUME NEW a \in Ars, Connect(a) PROVE now' = now  BY <1>2 DEF Connect, Create
<1>3. ASSUME NEW t \in Callers, DiagStep(t) PROVE now' = now  BY <1>3 DEF DiagStep
<1>4. ASSUME NEW s \in Subs, Replug(s) PROVE now' = now  BY <1>4 DEF Replug, ppmVars
<1>5. UNCHANGED vars => now' = now  BY DEF vars, ppmVars
<1> QED  BY <1>1, <1>2, <1>3, <1>4, <1>5 DEF Next

\* Who is punctual keeps up: nobody waits for longer than a cycle.
LEMMA PunctualKeeps ==
  ASSUME NEW i \in Nat, i >= 2, i < MaxDelay, NEW t \in Nat, NEW r, r.due \in Nat,
         Due(r, i) \in Nat, Punctual(r, i, t)
  PROVE  Keeps(r, i, t)
  BY Sizes DEF Punctual, Keeps

\* No step makes it late.
LEMMA PunctualStep ==
  ASSUME MaxLate = 1, Scheduled, AllPunctual, [Next]_vars
  PROVE  AllPunctual'
<1> SUFFICES ASSUME NEW a \in Ars PROVE Punctual(ppm'[a], Interval[a], now')
  BY DEF AllPunctual
<1>1. PInv /\ OnTime(ppm[a], Interval[a]) /\ Punctual(ppm[a], Interval[a], now)
  BY DEF Scheduled, AllPunctual
<1> DEFINE i == Interval[a]
           d == Due(ppm[a], i)
<1>2. /\ now \in Nat /\ ppm[a].due \in Nat /\ d \in Nat /\ i \in Nat /\ i >= 2 /\ i < MaxDelay
  BY <1>1, Times
<1>3. CASE \E n \in 1 .. MaxLate : Tick(n)
  <2>1. ~Expired(a) /\ now' = now + 1 /\ ppm' = ppm  BY <1>3 DEF Tick
  <2> QED  BY <1>1, <1>2, <2>1 DEF Expired, Punctual
<1>4. CASE now' = now
  <2>1. CASE Send(a)
    <3>1. ppm[a].armed  BY <2>1 DEF Send, Expired
    <3>2. 2 * now <= d + 1  BY <1>1, <1>2, <3>1 DEF Punctual
    <3>3. 2 * now - d - i < ClockMod - MaxDelay  BY <1>2, <3>2, Sizes
    <3>4. /\ ppm'[a].due >= now + 1 /\ Due(ppm'[a], i) = d + i
          /\ Due(ppm'[a], i) - 2 * now >= 1 => 2 * ppm'[a].due <= Due(ppm'[a], i) + 1
      BY <1>1, <2>1, <3>3, SendOnTime
    <3>5. ppm'[a].due \in Nat  BY <1>1, ProviderStep, Times DEF PInv, Typed, PpmType
    <3> HIDE DEF d, i
    <3>6. now' <= ppm'[a].due /\ 2 * ppm'[a].due <= Due(ppm'[a], i) + 1
      BY <1>2, <1>4, <3>2, <3>4, <3>5
    <3> QED  BY <3>6 DEF Punctual, i
  <2>2. CASE Activate(a)
    <3>1. ppm'[a].due >= now + 1 /\ 2 * ppm'[a].due <= Due(ppm'[a], i) + 1
      BY <1>1, <2>2, ActivateOnTime
    <3>2. ppm'[a].due \in Nat  BY <1>1, ProviderStep, Times DEF PInv, Typed, PpmType
    <3> QED  BY <1>2, <1>4, <3>1, <3>2 DEF Punctual
  <2>3. CASE SameTimer(ppm[a], ppm'[a])
    BY <1>1, <1>4, <2>3 DEF SameTimer, Punctual, Due
  <2>4. CASE ~ppm'[a].armed  BY <2>4 DEF Punctual
  <2> QED  BY <1>1, <2>1, <2>2, <2>3, <2>4, TimerStep
<1> QED  BY <1>3, <1>4, ClockStep

\* Where the main thread runs in every tick, the schedule is kept.
THEOREM PunctualSchedule == ASSUME MaxLate = 1 PROVE Spec => []OnSchedule
<1>1. Init => Scheduled /\ AllPunctual
  <2>1. Init => \A a \in Ars : ~ppm[a].armed  BY NoPpmType DEF Init, PpmInit
  <2> QED  BY <2>1, ScheduleInit DEF AllPunctual, Punctual
<1>2. Scheduled /\ AllPunctual /\ [Next]_vars => Scheduled' /\ AllPunctual'
  <2> SUFFICES ASSUME Scheduled, AllPunctual, [Next]_vars PROVE Scheduled' /\ AllPunctual'
    OBVIOUS
  <2>1. PInv'  BY ProviderStep DEF Scheduled
  <2>2. AllPunctual'  BY PunctualStep
  <2>3. ASSUME NEW a \in Ars PROVE Keeps(ppm'[a], Interval[a], now')
    <3>1. /\ now' \in Nat /\ ppm'[a].due \in Nat /\ ppm'[a].began \in Nat
          /\ ppm'[a].sent \in Nat
      BY <2>1 DEF PInv, Typed, PpmType
    <3>2. Interval[a] \in Nat /\ Interval[a] >= 2 /\ Interval[a] < MaxDelay
      BY Sizes, PpmAssumption
    <3>3. Due(ppm'[a], Interval[a]) \in Nat  BY <3>1, <3>2 DEF Due
    <3>4. Punctual(ppm'[a], Interval[a], now')  BY <2>2 DEF AllPunctual
    <3> QED  BY <3>1, <3>2, <3>3, <3>4, PunctualKeeps
  <2>4. KeepsUp'  BY <2>3 DEF KeepsUp
  <2> QED  BY <2>2, <2>4, ScheduleStep
<1>3. Scheduled => OnSchedule  BY DEF Scheduled, OnTime, OnSchedule, Due
<1> QED  BY <1>1, <1>2, <1>3, PTL DEF Spec

-----------------------------------------------------------------------------
(* The lists of diagnoses.                                                 *)

Links == {Null} \cup Items
ItemType == [name : Names \cup {Nobody}, sev : Severities, next : Links]

\* The list c is linked in the items, beginning with first.
ListOf(items, first, c) ==
  /\ c \in Seq(Items) /\ Distinct(c)
  /\ first = IF c = << >> THEN Null ELSE c[1]
  /\ \A k \in 1 .. Len(c) : items[c[k]].next = IF k = Len(c) THEN Null ELSE c[k + 1]

\* A list without repetitions is as long as its set is large, and no longer than
\* there are items.
LEMMA ListLength ==
  ASSUME NEW c \in Seq(Items), Distinct(c)
  PROVE  Cardinality(ToSet(c)) = Len(c) /\ Len(c) <= NItems
<1>1. /\ Len(c) \in Nat /\ DOMAIN c = 1 .. Len(c) /\ ToSet(c) = {c[i] : i \in 1 .. Len(c)}
      /\ ToSet(c) \subseteq Items /\ c \in [1 .. Len(c) -> Items]
  BY ListType, LenProperties
<1>2. c \in Bijection(1 .. Len(c), ToSet(c))
  <2>1. c \in [1 .. Len(c) -> ToSet(c)]  BY <1>1
  <2>2. \A i, j \in 1 .. Len(c) : c[i] = c[j] => i = j  BY <1>1 DEF Distinct
  <2>3. \A x \in ToSet(c) : \E i \in 1 .. Len(c) : c[i] = x  BY <1>1
  <2> QED  BY <2>1, <2>2, <2>3 DEF Bijection, Injection, Surjection, IsInjective
<1>3. Cardinality(ToSet(c)) = Len(c)
  BY <1>1, <1>2, FS_CountingElements DEF ExistsBijection
<1>4. NItems \in Nat  BY DiagAssumption
<1>5. IsFiniteSet(Items) /\ Cardinality(Items) = NItems
  BY <1>4, FS_Interval DEF Items
<1>6. Cardinality(ToSet(c)) <= Cardinality(Items)  BY <1>1, <1>5, FS_Subset
<1> QED  BY <1>3, <1>5, <1>6

\* A walk along the links finds the list.
LEMMA ChainIs ==
  ASSUME NEW items, NEW first, NEW c, ListOf(items, first, c)
  PROVE  Chain(items, first) = c /\ In(items, first) = ToSet(c)
<1> DEFINE step(w, n) == IF n = 0 THEN (IF first = Null THEN << >> ELSE <<first>>)
                         ELSE LET v == w[n - 1]
                              IN IF v = << >> \/ items[v[Len(v)]].next = Null THEN v
                                 ELSE Append(v, items[v[Len(v)]].next)
           walk == CHOOSE walk : walk = [n \in 0 .. NItems |-> step(walk, n)]
           upto(n) == IF n < Len(c) THEN n + 1 ELSE Len(c)
           g == [n \in 0 .. NItems |-> SubSeq(c, 1, upto(n))]
<1>1. Chain(items, first) = walk[NItems]  BY DEF Chain
<1>2. /\ c \in Seq(Items) /\ Len(c) \in Nat /\ DOMAIN c = 1 .. Len(c) /\ Len(c) <= NItems
      /\ ToSet(c) = {c[i] : i \in 1 .. Len(c)} /\ NItems \in Nat \ {0}
      /\ \A i \in 1 .. Len(c) : c[i] \in Items
  BY ListType, ListLength, DiagAssumption DEF ListOf
<1>a. Len(c) \in Nat /\ Len(c) <= NItems /\ NItems \in Nat /\ NItems > 0  BY <1>2
<1>3. ASSUME NEW n \in 0 .. NItems
      PROVE  /\ g[n] = SubSeq(c, 1, upto(n)) /\ g[n] \in Seq(Items) /\ Len(g[n]) = upto(n)
             /\ \A i \in 1 .. upto(n) : g[n][i] = c[i]
             /\ upto(n) \in 0 .. Len(c)
  <2>1. upto(n) \in 0 .. Len(c)  BY <1>2
  <2>2. g[n] = SubSeq(c, 1, upto(n))  OBVIOUS
  <2> HIDE DEF upto, g
  <2>3. \A i \in 1 .. upto(n) : c[i] \in Items  BY <1>2, <2>1
  <2>4. /\ SubSeq(c, 1, upto(n)) \in Seq(Items)
        /\ Len(SubSeq(c, 1, upto(n))) = (IF 1 <= upto(n) THEN upto(n) - 1 + 1 ELSE 0)
        /\ \A i \in 1 .. upto(n) - 1 + 1 : SubSeq(c, 1, upto(n))[i] = c[1 + i - 1]
    BY <1>2, <2>1, <2>3, SubSeqProperties
  <2> QED  BY <2>1, <2>2, <2>4
<1>4. g[NItems] = c
  <2>1. upto(NItems) = Len(c)  BY <1>a
  <2>2. g[NItems] \in Seq(Items) /\ Len(g[NItems]) = Len(c) /\ \A i \in 1 .. Len(c) : g[NItems][i] = c[i]
    <3>1. NItems \in 0 .. NItems  BY <1>a
    <3> HIDE DEF g, upto
    <3> QED  BY <1>3, <2>1, <3>1
  <2> HIDE DEF g, upto
  <2> QED  BY <1>2, <2>2, SeqEqual
<1>5. ASSUME NEW n \in 0 .. NItems  PROVE g[n] = step(g, n)
  <2> HIDE DEF g
  <2>1. CASE n = 0
    <3>1. CASE c = << >>
      <4>1. first = Null /\ Len(c) = 0  BY <3>1 DEF ListOf
      <4>2. g[n] = << >>  BY <1>2, <1>3, <4>1, EmptySeq
      <4> QED  BY <2>1, <4>1, <4>2
    <3>2. CASE c # << >>
      <4>1. first = c[1] /\ Len(c) >= 1
        <5>1. Len(c) # 0  BY <1>2, <3>2, EmptySeq
        <5> QED  BY <1>a, <3>2, <5>1 DEF ListOf
      <4>2. first # Null  BY <1>2, <4>1 DEF Items, Null
      <4>3. upto(n) = 1  BY <1>2, <2>1, <4>1
      <4>4. g[n] \in Seq(Items) /\ Len(g[n]) = 1 /\ g[n][1] = first
        <5>1. g[n] \in Seq(Items) /\ Len(g[n]) = upto(n) /\ \A i \in 1 .. upto(n) : g[n][i] = c[i]
          BY <1>3
        <5>2. upto(n) = 1  BY <4>3
        <5> HIDE DEF upto
        <5>3. 1 \in 1 .. upto(n)  BY <5>2
        <5> QED  BY <4>1, <5>1, <5>2, <5>3
      <4>5. g[n] = <<first>>  BY <4>4
      <4> QED  BY <2>1, <4>2, <4>5
    <3> QED  BY <3>1, <3>2
  <2>2. CASE n > 0
    <3> DEFINE v == g[n - 1]
    <3>1. n - 1 \in 0 .. NItems  BY <1>a, <2>2
    <3>2. v \in Seq(Items) /\ Len(v) = upto(n - 1) /\ \A i \in 1 .. upto(n - 1) : v[i] = c[i]
      BY <1>3, <3>1
    <3>3. step(g, n) = IF v = << >> \/ items[v[Len(v)]].next = Null THEN v
                       ELSE Append(v, items[v[Len(v)]].next)
      BY <2>2
    <3> HIDE DEF v, step
    <3>4. CASE n - 1 < Len(c) /\ n < Len(c)
      <4>1. Len(v) = n /\ upto(n) = n + 1 /\ v # << >> /\ v[n] = c[n]
        BY <1>2, <2>2, <3>2, <3>4, EmptySeq
      <4>2. items[c[n]].next = c[n + 1] /\ c[n + 1] \in Items
        <5>1. n \in 1 .. Len(c) /\ n + 1 \in 1 .. Len(c) /\ n # Len(c)  BY <1>a, <2>2, <3>4
        <5> QED  BY <1>2, <5>1 DEF ListOf
      <4>3. step(g, n) = Append(v, c[n + 1])
        BY <3>3, <4>1, <4>2 DEF Items, Null
      <4>4. g[n] \in Seq(Items) /\ Len(g[n]) = n + 1 /\ \A i \in 1 .. n + 1 : g[n][i] = c[i]
        BY <1>3, <4>1
      <4>5. /\ Append(v, c[n + 1]) \in Seq(Items) /\ Len(Append(v, c[n + 1])) = n + 1
            /\ \A i \in 1 .. n : Append(v, c[n + 1])[i] = v[i]
            /\ Append(v, c[n + 1])[n + 1] = c[n + 1]
        BY <3>2, <4>1, <4>2, AppendProperties
      <4>6. \A i \in 1 .. n + 1 : g[n][i] = Append(v, c[n + 1])[i]
        BY <2>2, <3>2, <3>4, <4>1, <4>4, <4>5
      <4> HIDE DEF upto
      <4>7. g[n] = Append(v, c[n + 1])  BY <4>4, <4>5, <4>6, SeqEqual
      <4> QED  BY <4>3, <4>7
    <3>5. CASE ~(n < Len(c))
      <4>1. upto(n) = Len(c) /\ upto(n - 1) = Len(c)  BY <1>a, <2>2, <3>5
      <4>2. v = c /\ g[n] = c
        <5>1. g[n] \in Seq(Items) /\ Len(g[n]) = Len(c) /\ \A i \in 1 .. Len(c) : g[n][i] = c[i]
          BY <1>3, <4>1
        <5>2. v \in Seq(Items) /\ Len(v) = Len(c) /\ \A i \in 1 .. Len(c) : v[i] = c[i]
          BY <3>2, <4>1
        <5> HIDE DEF upto
        <5> QED  BY <1>2, <5>1, <5>2, SeqEqual
      <4>3. c # << >> => items[c[Len(c)]].next = Null
        <5>1. c # << >> => Len(c) \in 1 .. Len(c)  BY <1>2, EmptySeq
        <5> QED  BY <5>1 DEF ListOf
      <4> QED  BY <3>3, <4>2, <4>3
    <3>6. (n - 1 < Len(c) /\ n < Len(c)) \/ ~(n < Len(c))  BY <1>2, <2>2
    <3> QED  BY <3>4, <3>5, <3>6
  <2> QED  BY <2>1, <2>2
<1>6. walk = [n \in 0 .. NItems |-> step(walk, n)]
  <2>1. g = [n \in 0 .. NItems |-> step(g, n)]
    <3>1. DOMAIN g = 0 .. NItems /\ g = [n \in 0 .. NItems |-> g[n]]  OBVIOUS
    <3> HIDE DEF g, step
    <3> QED  BY <1>5, <3>1
  <2>2. \E w : w = [n \in 0 .. NItems |-> step(w, n)]
    <3> HIDE DEF g, step
    <3> QED  BY <2>1
  <2> HIDE DEF step
  <2> QED  BY <2>2, Zenon
<1> DEFINE Same == {n \in 0 .. NItems : walk[n] = g[n]}
<1>7. 0 \in Same
  <2>1. 0 \in 0 .. NItems  BY <1>2
  <2>2. walk[0] = step(walk, 0) /\ g[0] = step(g, 0)
    <3> HIDE DEF g, step, walk
    <3> QED  BY <1>5, <1>6, <2>1
  <2>3. step(walk, 0) = step(g, 0)  OBVIOUS
  <2> HIDE DEF g, step, walk
  <2> QED  BY <2>1, <2>2, <2>3
<1>8. ASSUME NEW n \in 0 .. NItems - 1, n \in Same  PROVE n + 1 \in Same
  <2>1. n + 1 \in 0 .. NItems /\ (n + 1) - 1 = n /\ n + 1 # 0  BY <1>2
  <2>2. walk[n + 1] = step(walk, n + 1) /\ g[n + 1] = step(g, n + 1)
    <3> HIDE DEF g, step, walk
    <3> QED  BY <1>5, <1>6, <2>1
  <2>3. walk[n] = g[n]  BY <1>8
  <2>4. step(walk, n + 1) = step(g, n + 1)
    <3> HIDE DEF g, walk
    <3> QED  BY <2>1, <2>3
  <2> HIDE DEF g, step, walk
  <2> QED  BY <2>1, <2>2, <2>4
<1>9. NItems \in Same
  <2> HIDE DEF Same
  <2>1. 0 .. NItems \subseteq Same  BY <1>2, <1>7, <1>8, UpTo
  <2> QED  BY <1>2, <2>1
<1>10. Chain(items, first) = c
  <2> HIDE DEF g, walk
  <2> QED  BY <1>1, <1>4, <1>9
<1>11. In(items, first) = {c[n] : n \in 1 .. Len(c)}  BY <1>10 DEF In
<1> QED  BY <1>2, <1>10, <1>11

-----------------------------------------------------------------------------
(* What unlinking and linking do to the free list f and the lists l of     *)
(* the submodules.                                                         *)

\* An item is in one list at most or is held, and no name is twice in a list.
Arranged(items, fr, hd, f, l, held) ==
  /\ items \in [Items -> ItemType] /\ l \in [Subs -> Seq(Items)] /\ hd \in [Subs -> Links]
  /\ ListOf(items, fr, f)
  /\ \A s \in Subs : ListOf(items, hd[s], l[s])
  /\ \A s \in Subs : ToSet(l[s]) \cap ToSet(f) = {}
  /\ \A s, r \in Subs : s # r => ToSet(l[s]) \cap ToSet(l[r]) = {}
  /\ \A s \in Subs : \A i, j \in ToSet(l[s]) : items[i].name = items[j].name => i = j
  /\ held \subseteq Items
  /\ \A h \in held : h \notin ToSet(f) /\ \A s \in Subs : h \notin ToSet(l[s])

\* The name is not in the list.
Unused(items, c, name) == \A i \in ToSet(c) : items[i].name # name

\* A list has its links in the items; others may change.
LEMMA ListKept ==
  ASSUME NEW items, NEW after, NEW first, NEW c, ListOf(items, first, c),
         \A i \in ToSet(c) : after[i].next = items[i].next
  PROVE  ListOf(after, first, c)
<1>1. Len(c) \in Nat /\ \A k \in 1 .. Len(c) : c[k] \in ToSet(c)
  BY ListType DEF ListOf
<1> QED  BY <1>1 DEF ListOf

\* The first of a list, and the rest of it.
LEMMA ListFirst ==
  ASSUME NEW items, NEW first, NEW c, ListOf(items, first, c), first # Null
  PROVE  /\ c # << >> /\ first = Head(c) /\ first \in Items /\ first \in ToSet(c)
         /\ ListOf(items, items[first].next, Tail(c))
         /\ ToSet(Tail(c)) = ToSet(c) \ {first}
<1>1. c \in Seq(Items) /\ Distinct(c) /\ c # << >> /\ first = c[1]  BY DEF ListOf
<1>2. /\ Head(c) \in Items /\ Head(c) \in ToSet(c) /\ Tail(c) \in Seq(Items)
      /\ ToSet(Tail(c)) = ToSet(c) \ {Head(c)} /\ Distinct(Tail(c))
  BY <1>1, PopSet
<1>3. /\ Head(c) = c[1] /\ Len(Tail(c)) = Len(c) - 1 /\ Len(c) \in Nat \ {0}
      /\ \A k \in 1 .. Len(c) - 1 : Tail(c)[k] = c[k + 1]
  <2>1. Len(c) \in Nat /\ Len(c) # 0  BY <1>1, EmptySeq, LenProperties
  <2> QED  BY <1>1, <2>1, HeadTailProperties
<1>3a. Len(Tail(c)) = Len(c) - 1 /\ Len(c) \in Nat /\ Len(c) > 0  BY <1>3
<1>4. items[first].next = IF Tail(c) = << >> THEN Null ELSE Tail(c)[1]
  <2>1. 1 \in 1 .. Len(c) /\ 1 + 1 = 2  BY <1>3a
  <2>0. items[c[1]].next = IF 1 = Len(c) THEN Null ELSE c[1 + 1]  BY <2>1 DEF ListOf
  <2>2. items[c[1]].next = IF 1 = Len(c) THEN Null ELSE c[2]  BY <2>0, <2>1
  <2>3. CASE Len(c) = 1
    <3>1. Len(Tail(c)) = 0  BY <1>3a, <2>3
    <3>2. Tail(c) = << >>  BY <1>2, <3>1, EmptySeq
    <3> QED  BY <1>1, <2>2, <2>3, <3>2
  <2>4. CASE Len(c) # 1
    <3>1. Len(Tail(c)) # 0 /\ 1 \in 1 .. Len(c) - 1
      <4> DEFINE n == Len(c)
                 t == Len(Tail(c))
      <4>1. t = n - 1 /\ n \in Nat /\ n > 0 /\ n # 1  BY <1>3a, <2>4, Zenon
      <4> HIDE DEF n, t
      <4>2. t # 0 /\ 1 \in 1 .. n - 1  BY <4>1
      <4> QED  BY <4>2, Zenon DEF n, t
    <3>2. Tail(c) # << >>  BY <1>2, <3>1, EmptySeq
    <3>3. Tail(c)[1] = c[1 + 1]  BY <1>3, <3>1
    <3> QED  BY <1>1, <2>1, <2>2, <2>4, <3>2, <3>3
  <2> QED  BY <2>3, <2>4
<1>5. ASSUME NEW k \in 1 .. Len(Tail(c))
      PROVE  items[Tail(c)[k]].next = IF k = Len(Tail(c)) THEN Null ELSE Tail(c)[k + 1]
  <2>1. k + 1 \in 1 .. Len(c) /\ k \in 1 .. Len(c) - 1 /\ k \in Int  BY <1>3a
  <2>2. items[c[k + 1]].next = IF k + 1 = Len(c) THEN Null ELSE c[(k + 1) + 1]
    BY <2>1 DEF ListOf
  <2>3. Tail(c)[k] = c[k + 1]  BY <1>3, <2>1
  <2>4. CASE k + 1 = Len(c)
    <3>1. k = Len(Tail(c))  BY <1>3a, <2>1, <2>4
    <3> QED  BY <2>2, <2>3, <2>4, <3>1
  <2>5. CASE k + 1 # Len(c)
    <3>1. k + 1 \in 1 .. Len(c) - 1 /\ k # Len(Tail(c))  BY <1>3a, <2>1, <2>5
    <3>2. Tail(c)[k + 1] = c[(k + 1) + 1]  BY <1>3, <3>1
    <3> QED  BY <2>2, <2>3, <2>5, <3>1, <3>2
  <2> QED  BY <2>4, <2>5
<1>6. Tail(c) \in Seq(Items) /\ Distinct(Tail(c)) /\ first = Head(c)  BY <1>1, <1>2, <1>3
<1>7. ListOf(items, items[first].next, Tail(c))  BY <1>4, <1>5, <1>6 DEF ListOf
<1> QED  BY <1>1, <1>2, <1>6, <1>7

\* An item that is put in front.
LEMMA ListPut ==
  ASSUME NEW items, NEW first, NEW c, ListOf(items, first, c), NEW x \in Items, x \notin ToSet(c),
         items[x].next = first
  PROVE  /\ ListOf(items, x, <<x>> \o c) /\ <<x>> \o c \in Seq(Items)
         /\ ToSet(<<x>> \o c) = ToSet(c) \cup {x}
<1> DEFINE d == <<x>> \o c
<1>1. c \in Seq(Items) /\ Distinct(c) /\ Len(c) \in Nat  BY LenProperties DEF ListOf
<1>2. d \in Seq(Items) /\ ToSet(d) = ToSet(c) \cup {x} /\ Distinct(d)  BY <1>1, PushSet
<1>3. Len(d) = Len(c) + 1 /\ d[1] = x /\ \A k \in 1 .. Len(c) : d[k + 1] = c[k]
  <2>1. <<x>> \in Seq(Items) /\ Len(<<x>>) = 1 /\ <<x>>[1] = x  OBVIOUS
  <2>2. Len(d) = Len(<<x>>) + Len(c) /\ \A k \in 1 .. Len(<<x>>) + Len(c) :
            d[k] = IF k <= Len(<<x>>) THEN <<x>>[k] ELSE c[k - Len(<<x>>)]
    BY <1>1, <2>1, ConcatProperties
  <2>3. d[1] = x  BY <1>1, <2>1, <2>2
  <2>4. ASSUME NEW k \in 1 .. Len(c)  PROVE d[k + 1] = c[k]
    <3>1. k + 1 \in 1 .. 1 + Len(c) /\ ~(k + 1 <= 1) /\ (k + 1) - 1 = k  BY <1>1
    <3> HIDE DEF d
    <3> QED  BY <2>1, <2>2, <3>1
  <2> QED  BY <2>1, <2>2, <2>3, <2>4
<1> HIDE DEF d
<1>4. d # << >>  BY <1>1, <1>2, <1>3, EmptySeq
<1>5. ASSUME NEW k \in 1 .. Len(d)
      PROVE  items[d[k]].next = IF k = Len(d) THEN Null ELSE d[k + 1]
  <2>1. CASE k = 1
    <3>1. CASE c = << >>
      <4>1. Len(c) = 0 /\ first = Null  BY <3>1 DEF ListOf
      <4> QED  BY <1>3, <2>1, <4>1
    <3>2. CASE c # << >>
      <4>1. Len(c) # 0 /\ first = c[1]  BY <1>1, <3>2, EmptySeq DEF ListOf
      <4>2. d[2] = c[1]
        <5>1. 1 \in 1 .. Len(c)  BY <1>1, <4>1
        <5>2. d[1 + 1] = c[1]  BY <1>3, <5>1
        <5> QED  BY <5>2
      <4>3. k # Len(d) /\ k + 1 = 2  BY <1>1, <1>3, <2>1, <4>1
      <4> QED  BY <1>3, <2>1, <4>1, <4>2, <4>3
    <3> QED  BY <3>1, <3>2
  <2>2. CASE k # 1
    <3>1. k - 1 \in 1 .. Len(c) /\ (k - 1) + 1 = k /\ k \in Int  BY <1>1, <1>3, <2>2
    <3>2. d[k] = c[k - 1]  BY <1>3, <3>1
    <3>3. items[c[k - 1]].next = IF k - 1 = Len(c) THEN Null ELSE c[k]  BY <3>1 DEF ListOf
    <3>4. CASE k - 1 = Len(c)  BY <1>1, <1>3, <3>1, <3>2, <3>3, <3>4
    <3>5. CASE k - 1 # Len(c)
      <4>1. k \in 1 .. Len(c) /\ k # Len(d)  BY <1>1, <1>3, <3>1, <3>5
      <4>2. d[k + 1] = c[k]  BY <1>3, <4>1
      <4> QED  BY <3>2, <3>3, <3>5, <4>1, <4>2
    <3> QED  BY <3>4, <3>5
  <2> QED  BY <2>1, <2>2
<1> QED  BY <1>2, <1>3, <1>4, <1>5 DEF ListOf, d

\* The n-th of a list is taken out of it.
Cut(items, first, c, n, after, begin) ==
  IF n = 1 THEN after = items /\ begin = items[c[1]].next
  ELSE after = [items EXCEPT ![c[n - 1]].next = items[c[n]].next] /\ begin = first
LEMMA ListUnlinked ==
  ASSUME NEW items \in [Items -> ItemType], NEW first, NEW c, ListOf(items, first, c),
         NEW n \in 1 .. Len(c), NEW after, NEW begin, Cut(items, first, c, n, after, begin)
  PROVE  /\ ListOf(after, begin, RemoveAt(c, n)) /\ RemoveAt(c, n) \in Seq(Items)
         /\ ToSet(RemoveAt(c, n)) = ToSet(c) \ {c[n]} /\ c[n] \in ToSet(c) /\ c[n] \in Items
         /\ after \in [Items -> ItemType] /\ begin \in Links
         /\ \A i \in Items : after[i].name = items[i].name /\ after[i].sev = items[i].sev
         /\ \A i \in Items : i \notin ToSet(c) => after[i] = items[i]
<1> DEFINE d == RemoveAt(c, n)
<1>1. /\ c \in Seq(Items) /\ Distinct(c) /\ Len(c) \in Nat /\ DOMAIN c = 1 .. Len(c)
      /\ \A k \in 1 .. Len(c) : c[k] \in Items /\ c[k] \in ToSet(c)
  BY ListType DEF ListOf
<1>2. d \in Seq(Items) /\ ToSet(d) = ToSet(c) \ {c[n]} /\ Distinct(d)  BY <1>1, RemoveAtSet
<1>3. Len(d) = Len(c) - 1 /\ \A k \in 1 .. Len(c) - 1 : d[k] = IF k < n THEN c[k] ELSE c[k + 1]
  BY <1>1, RemoveAtShape
<1> HIDE DEF d
<1>3a. Len(d) = Len(c) - 1 /\ Len(c) \in Nat /\ n \in Int /\ n >= 1 /\ n <= Len(c)  BY <1>1, <1>3
<1>4. \A k \in 1 .. Len(c) : items[c[k]].next = IF k = Len(c) THEN Null ELSE c[k + 1]
  BY DEF ListOf
<1>5. \A i, j \in 1 .. Len(c) : c[i] = c[j] => i = j  BY <1>1 DEF Distinct
<1>6. d = << >> <=> Len(c) = 1
  BY <1>1, <1>2, <1>3, EmptySeq
<1>7. CASE n = 1
  <2>1. after = items /\ begin = items[c[1]].next /\ 1 \in 1 .. Len(c)  BY <1>7 DEF Cut
  <2>2. begin = IF d = << >> THEN Null ELSE d[1]
    <3>0. 1 + 1 = 2  OBVIOUS
    <3>1. items[c[1]].next = IF 1 = Len(c) THEN Null ELSE c[1 + 1]  BY <1>4, <2>1
    <3>2. ASSUME Len(c) # 1  PROVE d[1] = c[1 + 1]
      <4>1. 1 \in 1 .. Len(c) - 1 /\ ~(1 < n)  BY <1>7, <2>1, <3>2, <1>1
      <4> QED  BY <1>3, <4>1
    <3> QED  BY <1>6, <2>1, <3>1, <3>2
  <2>3. ASSUME NEW k \in 1 .. Len(d)
        PROVE  items[d[k]].next = IF k = Len(d) THEN Null ELSE d[k + 1]
    <3>1. k \in 1 .. Len(c) - 1 /\ k + 1 \in 1 .. Len(c)  BY <1>1, <1>3
    <3>2. d[k] = c[k + 1]  BY <1>3, <1>7, <3>1
    <3>3. items[c[k + 1]].next = IF k + 1 = Len(c) THEN Null ELSE c[(k + 1) + 1]  BY <1>4, <3>1
    <3>4. CASE k + 1 = Len(c)  BY <1>1, <1>3, <3>2, <3>3, <3>4
    <3>5. CASE k + 1 # Len(c)
      <4>1. k + 1 \in 1 .. Len(c) - 1 /\ k # Len(d)  BY <1>3a, <3>1, <3>5
      <4>2. d[k + 1] = c[(k + 1) + 1]  BY <1>3, <1>7, <4>1
      <4> QED  BY <3>2, <3>3, <3>5, <4>1, <4>2
    <3> QED  BY <3>4, <3>5
  <2>4. begin \in Links  BY <1>1, <2>1 DEF ItemType
  <2>5. \A k \in 1 .. Len(d) : after[d[k]].next = IF k = Len(d) THEN Null ELSE d[k + 1]
    BY <2>1, <2>3
  <2>6. ListOf(after, begin, d)  BY <1>2, <2>2, <2>5 DEF ListOf
  <2> QED  BY <1>1, <1>2, <2>1, <2>4, <2>6 DEF d
<1>8. CASE n # 1
  <2> DEFINE p == c[n - 1]
             x == [items[p] EXCEPT !.next = items[c[n]].next]
  <2>1. n - 1 \in 1 .. Len(c) /\ n \in 1 .. Len(c) /\ n \in Int  BY <1>1, <1>8
  <2>2. p \in Items /\ p \in ToSet(c) /\ c[n] \in Items  BY <1>1, <2>1
  <2>3. after = [items EXCEPT ![p] = x] /\ begin = first  BY <1>8, <2>2 DEF Cut
  <2>4. /\ x \in ItemType /\ x.name = items[p].name /\ x.sev = items[p].sev
        /\ x.next = items[c[n]].next
    <3>1. items[p] \in ItemType /\ items[c[n]] \in ItemType  BY <2>2
    <3> QED  BY <3>1 DEF ItemType
  <2>5. p # c[n]  BY <1>5, <2>1
  <2> DEFINE q == n - 1
  <2> HIDE DEF p, x
  <2>6. /\ after \in [Items -> ItemType] /\ after[p] = x
        /\ \A i \in Items : i # p => after[i] = items[i]
    BY <2>2, <2>3, <2>4
  <2>7. begin = IF d = << >> THEN Null ELSE d[1]
    <3>1. Len(c) > 1 /\ c # << >>  BY <1>1, <1>8, EmptySeq
    <3>2. d # << >> /\ d[1] = c[1]  BY <1>1, <1>3, <1>6, <1>8, <3>1
    <3>3. first = c[1]  BY <3>1 DEF ListOf
    <3> QED  BY <2>3, <3>2, <3>3
  <2>8. ASSUME NEW k \in 1 .. Len(d)
        PROVE  after[d[k]].next = IF k = Len(d) THEN Null ELSE d[k + 1]
    <3>0. k \in 1 .. Len(c) - 1 /\ k \in 1 .. Len(c) /\ k + 1 \in 1 .. Len(c) /\ k \in Int
      BY <1>1, <1>3
    <3>1. CASE k = n - 1
      <4>1. d[k] = p  BY <1>3, <2>1, <3>0, <3>1 DEF p
      <4>2. after[d[k]].next = IF n = Len(c) THEN Null ELSE c[n + 1]
        BY <1>4, <2>1, <2>4, <2>6, <4>1
      <4>3. CASE n = Len(c)  BY <1>1, <1>3, <2>1, <3>1, <4>2, <4>3
      <4>4. CASE n # Len(c)
        <5>1. n \in 1 .. Len(c) - 1 /\ k # Len(d) /\ k + 1 = n  BY <1>3a, <2>1, <3>1, <4>4
        <5>2. d[n] = c[n + 1]  BY <1>3, <2>1, <5>1
        <5> QED  BY <4>2, <4>4, <5>1, <5>2
      <4> QED  BY <4>3, <4>4
    <3>2. CASE k < n - 1
      <4>0. k < n /\ k # n - 1 /\ k # Len(c)  BY <1>3a, <3>0, <3>2
      <4>1. d[k] = c[k] /\ k # n - 1 /\ k # Len(c)  BY <1>3, <3>0, <4>0
      <4>2. c[k] # p  BY <1>5, <2>1, <3>0, <4>1 DEF p
      <4>3. after[d[k]].next = c[k + 1]  BY <1>1, <1>4, <2>6, <3>0, <4>1, <4>2
      <4>4. k + 1 < n /\ k + 1 \in 1 .. Len(c) - 1 /\ k # Len(d)  BY <1>3a, <3>0, <3>2
      <4>5. d[k + 1] = c[k + 1]  BY <1>3, <4>4
      <4> QED  BY <4>3, <4>4, <4>5
    <3>3. CASE k > n - 1
      <4>1. ~(k < n) /\ k + 1 # n - 1  BY <2>1, <3>0, <3>3
      <4>2. d[k] = c[k + 1]  BY <1>3, <3>0, <4>1
      <4>3. c[k + 1] # p  BY <1>5, <2>1, <3>0, <4>1 DEF p
      <4>4. after[d[k]].next = IF k + 1 = Len(c) THEN Null ELSE c[(k + 1) + 1]
        BY <1>1, <1>4, <2>6, <3>0, <4>2, <4>3
      <4>5. CASE k + 1 = Len(c)  BY <1>1, <1>3, <3>0, <4>4, <4>5
      <4>6. CASE k + 1 # Len(c)
        <5>1. k + 1 \in 1 .. Len(c) - 1 /\ ~(k + 1 < n) /\ k # Len(d)
          BY <1>3a, <3>0, <3>3, <4>6
        <5>2. d[k + 1] = c[(k + 1) + 1]  BY <1>3, <5>1
        <5> QED  BY <4>4, <4>6, <5>1, <5>2
      <4> QED  BY <4>5, <4>6
    <3>4. k = n - 1 \/ k < n - 1 \/ k > n - 1  BY <2>1, <3>0
    <3> QED  BY <3>1, <3>2, <3>3, <3>4
  <2>9. ListOf(after, begin, d)  BY <1>2, <2>7, <2>8 DEF ListOf
  <2>10. begin \in Links
    <3>1. begin = Null \/ (begin = d[1] /\ 1 \in 1 .. Len(d))
      <4>1. d # << >> => Len(d) >= 1  BY <1>1, <1>3, <1>6, <1>8
      <4>2. Len(d) \in Int  BY <1>1, <1>3
      <4>3. d # << >> => 1 \in 1 .. Len(d)  BY <4>1, <4>2
      <4> QED  BY <2>7, <4>3
    <3>2. \A k \in 1 .. Len(d) : d[k] \in Items  BY <1>2, ListType
    <3>3. CASE begin = Null  BY <3>3 DEF Links
    <3>4. CASE begin = d[1] /\ 1 \in 1 .. Len(d)
      <4>1. d[1] \in Items  BY <3>2, <3>4
      <4> QED  BY <3>4, <4>1 DEF Links
    <3> QED  BY <3>1, <3>3, <3>4
  <2>11. \A i \in Items : after[i].name = items[i].name /\ after[i].sev = items[i].sev
    BY <2>4, <2>6
  <2>12. \A i \in Items : i \notin ToSet(c) => after[i] = items[i]  BY <2>2, <2>6
  <2> QED  BY <1>1, <1>2, <2>6, <2>9, <2>10, <2>11, <2>12 DEF d
<1> QED  BY <1>7, <1>8

\* What is arranged so is what the walks find.
LEMMA ArrangedIs ==
  ASSUME NEW items, NEW fr, NEW hd, NEW f, NEW l, NEW held, Arranged(items, fr, hd, f, l, held)
  PROVE  /\ Chain(items, fr) = f /\ In(items, fr) = ToSet(f)
         /\ \A s \in Subs : Chain(items, hd[s]) = l[s] /\ In(items, hd[s]) = ToSet(l[s])
         /\ l = [s \in Subs |-> Chain(items, hd[s])]
<1>1. Chain(items, fr) = f /\ In(items, fr) = ToSet(f)  BY ChainIs DEF Arranged
<1>2. \A s \in Subs : Chain(items, hd[s]) = l[s] /\ In(items, hd[s]) = ToSet(l[s])
  BY ChainIs DEF Arranged
<1>3. l \in [Subs -> Seq(Items)]  BY DEF Arranged
<1>4. l = [s \in Subs |-> l[s]]  BY <1>3
<1>5. [s \in Subs |-> l[s]] = [s \in Subs |-> Chain(items, hd[s])]  BY <1>2
<1> QED  BY <1>1, <1>2, <1>4, <1>5

\* The items of a list keep their names and the list is what it was.
Same(items, after, c) == \A i \in ToSet(c) : after[i] = items[i]

\* An item is unlinked: it is held from then on, and has its name and contents.
Rebegun(hd, s, begin) == [hd EXCEPT ![s] = begin]
WithoutNth(l, s, n) == [l EXCEPT ![s] = RemoveAt(l[s], n)]
OutOf(items, after, fr, hd, begin, f, l, s, n) ==
  /\ Arranged(after, fr, Rebegun(hd, s, begin), f, WithoutNth(l, s, n), {l[s][n]})
  /\ ToSet(RemoveAt(l[s], n)) = ToSet(l[s]) \ {l[s][n]}
  /\ l[s][n] \in ToSet(l[s]) /\ l[s][n] \in Items
  /\ \A i \in Items : after[i].name = items[i].name /\ after[i].sev = items[i].sev
  /\ \A r \in Subs : r # s => Same(items, after, l[r])
LEMMA UnlinkArranged ==
  ASSUME NEW fr, NEW hd, NEW f, NEW l, NEW items, Arranged(items, fr, hd, f, l, {}),
         NEW s \in Subs, NEW n \in 1 .. Len(l[s]), NEW after, NEW begin,
         Cut(items, hd[s], l[s], n, after, begin)
  PROVE  OutOf(items, after, fr, hd, begin, f, l, s, n)
<1> DEFINE c == l[s]
           d == RemoveAt(c, n)
           l2 == [l EXCEPT ![s] = d]
           hd2 == [hd EXCEPT ![s] = begin]
<1>1. /\ items \in [Items -> ItemType] /\ l \in [Subs -> Seq(Items)] /\ hd \in [Subs -> Links]
      /\ ListOf(items, fr, f) /\ \A r \in Subs : ListOf(items, hd[r], l[r])
      /\ \A r \in Subs : ToSet(l[r]) \cap ToSet(f) = {}
      /\ \A q, r \in Subs : q # r => ToSet(l[q]) \cap ToSet(l[r]) = {}
      /\ \A r \in Subs : \A i, j \in ToSet(l[r]) : items[i].name = items[j].name => i = j
  BY DEF Arranged
<1>2. ListOf(items, hd[s], c)  BY <1>1
<1>3. /\ ListOf(after, begin, d) /\ d \in Seq(Items)
      /\ ToSet(d) = ToSet(c) \ {c[n]} /\ c[n] \in ToSet(c) /\ c[n] \in Items
      /\ after \in [Items -> ItemType] /\ begin \in Links
      /\ \A i \in Items : after[i].name = items[i].name /\ after[i].sev = items[i].sev
      /\ \A i \in Items : i \notin ToSet(c) => after[i] = items[i]
  <2> HIDE DEF c
  <2>1. Cut(items, hd[s], c, n, after, begin) /\ n \in 1 .. Len(c)  BY DEF c
  <2> QED  BY <1>1, <1>2, <2>1, ListUnlinked
<1>4. \A r \in Subs : ToSet(l[r]) \subseteq Items
  BY <1>1, ListType
<1>5. ToSet(f) \subseteq Items  BY <1>1, ListType DEF ListOf
<1> HIDE DEF d
<1>6. /\ l2 \in [Subs -> Seq(Items)] /\ hd2 \in [Subs -> Links] /\ l2[s] = d /\ hd2[s] = begin
      /\ \A r \in Subs : r # s => l2[r] = l[r] /\ hd2[r] = hd[r]
  BY <1>1, <1>3
<1>7. \A r \in Subs : ToSet(l2[r]) \subseteq ToSet(l[r])  BY <1>3, <1>6
<1>8. \A i \in ToSet(f) : after[i] = items[i]  BY <1>1, <1>3, <1>5
<1>9. \A r \in Subs : r # s => Same(items, after, l[r])
  BY <1>1, <1>3, <1>4 DEF Same
<1> HIDE DEF c, l2, hd2
<1>10. ListOf(after, fr, f)  BY <1>1, <1>8, ListKept
<1>11. \A r \in Subs : ListOf(after, hd2[r], l2[r])
  <2> TAKE r \in Subs
  <2>1. CASE r = s  BY <1>3, <1>6, <2>1
  <2>2. CASE r # s
    <3>1. \A i \in ToSet(l[r]) : after[i].next = items[i].next  BY <1>9, <2>2 DEF Same
    <3>2. ListOf(after, hd[r], l[r])  BY <1>1, <3>1, ListKept
    <3> QED  BY <1>6, <2>2, <3>2
  <2> QED  BY <2>1, <2>2
<1>12. \A r \in Subs : ToSet(l2[r]) \cap ToSet(f) = {}  BY <1>1, <1>7
<1>13. \A q, r \in Subs : q # r => ToSet(l2[q]) \cap ToSet(l2[r]) = {}
  <2> TAKE q, r \in Subs
  <2>1. ToSet(l2[q]) \subseteq ToSet(l[q]) /\ ToSet(l2[r]) \subseteq ToSet(l[r])  BY <1>7
  <2>2. q # r => ToSet(l[q]) \cap ToSet(l[r]) = {}  BY <1>1
  <2> QED  BY <2>1, <2>2
<1>14. \A r \in Subs : \A i, j \in ToSet(l2[r]) : after[i].name = after[j].name => i = j
  <2> TAKE r \in Subs
  <2> TAKE i, j \in ToSet(l2[r])
  <2>1. i \in ToSet(l[r]) /\ j \in ToSet(l[r]) /\ i \in Items /\ j \in Items  BY <1>4, <1>7
  <2>2. items[i].name = items[j].name => i = j  BY <1>1, <2>1
  <2> QED  BY <1>3, <2>1, <2>2
<1>15. c[n] \notin ToSet(f) /\ \A r \in Subs : c[n] \notin ToSet(l2[r])
  <2>1. c[n] \notin ToSet(f)  BY <1>1, <1>3 DEF c
  <2>2. ASSUME NEW r \in Subs  PROVE c[n] \notin ToSet(l2[r])
    <3>1. CASE r = s  BY <1>3, <1>6, <3>1
    <3>2. CASE r # s
      <4>1. ToSet(l[r]) \cap ToSet(l[s]) = {}  BY <1>1, <3>2
      <4> QED  BY <1>3, <1>7, <4>1 DEF c
    <3> QED  BY <3>1, <3>2
  <2> QED  BY <2>1, <2>2
<1>16. Arranged(after, fr, hd2, f, l2, {c[n]})
  BY <1>3, <1>6, <1>10, <1>11, <1>12, <1>13, <1>14, <1>15 DEF Arranged
<1> QED  BY <1>3, <1>9, <1>16 DEF c, d, l2, hd2, Rebegun, WithoutNth, OutOf

\* The first free item is taken.
LEMMA PopArranged ==
  ASSUME NEW fr, NEW hd, NEW f, NEW l, NEW items, Arranged(items, fr, hd, f, l, {}), fr # Null
  PROVE  Arranged(items, items[fr].next, hd, Tail(f), l, {fr}) /\ fr \in Items
<1>1. ListOf(items, fr, f)  BY DEF Arranged
<1>2. /\ fr \in Items /\ fr \in ToSet(f) /\ ListOf(items, items[fr].next, Tail(f))
      /\ ToSet(Tail(f)) = ToSet(f) \ {fr}
  BY <1>1, ListFirst
<1>3. \A s \in Subs : ToSet(l[s]) \cap ToSet(f) = {}  BY DEF Arranged
<1>4. \A s \in Subs : fr \notin ToSet(l[s]) /\ ToSet(l[s]) \cap ToSet(Tail(f)) = {}
  BY <1>2, <1>3
<1> QED  BY <1>2, <1>4 DEF Arranged

\* An item is written.
Written(items, after, x, rec) == after = [items EXCEPT ![x] = rec]
Grown(l, s, x) == [l EXCEPT ![s] = <<x>> \o l[s]]

\* The item that is held gets its contents and is put first.
LEMMA PutArranged ==
  ASSUME NEW fr, NEW hd, NEW f, NEW l, NEW items, NEW x, Arranged(items, fr, hd, f, l, {x}),
         NEW s \in Subs, NEW rec \in ItemType, rec.next = hd[s], Unused(items, l[s], rec.name),
         NEW after, Written(items, after, x, rec)
  PROVE  Arranged(after, fr, Rebegun(hd, s, x), f, Grown(l, s, x), {})
<1> DEFINE d == <<x>> \o l[s]
           l2 == [l EXCEPT ![s] = d]
           hd2 == [hd EXCEPT ![s] = x]
<1>1. /\ items \in [Items -> ItemType] /\ l \in [Subs -> Seq(Items)] /\ hd \in [Subs -> Links]
      /\ ListOf(items, fr, f) /\ \A r \in Subs : ListOf(items, hd[r], l[r])
      /\ \A r \in Subs : ToSet(l[r]) \cap ToSet(f) = {}
      /\ \A q, r \in Subs : q # r => ToSet(l[q]) \cap ToSet(l[r]) = {}
      /\ \A r \in Subs : \A i, j \in ToSet(l[r]) : items[i].name = items[j].name => i = j
      /\ x \in Items /\ x \notin ToSet(f) /\ \A r \in Subs : x \notin ToSet(l[r])
  BY DEF Arranged
<1>2. /\ after \in [Items -> ItemType] /\ after[x] = rec
      /\ \A i \in Items : i # x => after[i] = items[i]
  BY <1>1 DEF Written
<1>3. \A r \in Subs : ToSet(l[r]) \subseteq Items
  BY <1>1, ListType
<1>4. ToSet(f) \subseteq Items  BY <1>1, ListType DEF ListOf
<1>5. \A r \in Subs : Same(items, after, l[r])  BY <1>1, <1>2, <1>3 DEF Same
<1>6. ListOf(after, fr, f)
  <2>1. \A i \in ToSet(f) : after[i].next = items[i].next  BY <1>1, <1>2, <1>4
  <2> QED  BY <1>1, <2>1, ListKept
<1>7. \A r \in Subs : ListOf(after, hd[r], l[r])
  <2> TAKE r \in Subs
  <2>1. \A i \in ToSet(l[r]) : after[i].next = items[i].next  BY <1>5 DEF Same
  <2>2. ListOf(items, hd[r], l[r])  BY <1>1
  <2> QED  BY <2>1, <2>2, ListKept
<1>8. ListOf(after, x, d) /\ d \in Seq(Items) /\ ToSet(d) = ToSet(l[s]) \cup {x}
  <2> DEFINE h == hd[s]  c == l[s]
  <2>1. ListOf(after, h, c) /\ x \notin ToSet(c) /\ after[x].next = h  BY <1>1, <1>2, <1>7
  <2>2. d = <<x>> \o c  OBVIOUS
  <2> HIDE DEF h, c, d
  <2>0. x \in Items  BY <1>1
  <2>3. ListOf(after, x, <<x>> \o c) /\ ToSet(<<x>> \o c) = ToSet(c) \cup {x}
    BY <2>0, <2>1, ListPut
  <2>4. <<x>> \o c \in Seq(Items)  BY <2>3 DEF ListOf
  <2> QED  BY <2>2, <2>3, <2>4 DEF c
<1> HIDE DEF d
<1>9. /\ l2 \in [Subs -> Seq(Items)] /\ hd2 \in [Subs -> Links] /\ l2[s] = d /\ hd2[s] = x
      /\ \A r \in Subs : r # s => l2[r] = l[r] /\ hd2[r] = hd[r]
  BY <1>1, <1>8 DEF Links
<1> HIDE DEF l2, hd2
<1>10. \A r \in Subs : ListOf(after, hd2[r], l2[r])
  <2> TAKE r \in Subs
  <2>1. CASE r = s  BY <1>8, <1>9, <2>1
  <2>2. CASE r # s  BY <1>7, <1>9, <2>2
  <2> QED  BY <2>1, <2>2
<1>11. \A r \in Subs : ToSet(l2[r]) \subseteq ToSet(l[r]) \cup (IF r = s THEN {x} ELSE {})
  <2> TAKE r \in Subs
  <2>1. CASE r = s  BY <1>8, <1>9, <2>1
  <2>2. CASE r # s  BY <1>9, <2>2
  <2> QED  BY <2>1, <2>2
<1>12. \A r \in Subs : ToSet(l2[r]) \cap ToSet(f) = {}
  <2> TAKE r \in Subs
  <2>1. ToSet(l2[r]) \subseteq ToSet(l[r]) \cup {x}  BY <1>11
  <2>2. ToSet(l[r]) \cap ToSet(f) = {}  BY <1>1
  <2> QED  BY <1>1, <2>1, <2>2
<1>13. \A q, r \in Subs : q # r => ToSet(l2[q]) \cap ToSet(l2[r]) = {}
  <2> TAKE q, r \in Subs
  <2> SUFFICES ASSUME q # r, NEW i \in ToSet(l2[q]), i \in ToSet(l2[r])  PROVE FALSE
    OBVIOUS
  <2>1. ToSet(l[q]) \cap ToSet(l[r]) = {}  BY <1>1
  <2>2. /\ i \in ToSet(l[q]) \cup (IF q = s THEN {x} ELSE {})
        /\ i \in ToSet(l[r]) \cup (IF r = s THEN {x} ELSE {})
    BY <1>11
  <2>3. x \notin ToSet(l[q]) /\ x \notin ToSet(l[r])  BY <1>1
  <2>4. CASE q = s  BY <2>1, <2>2, <2>3, <2>4
  <2>5. CASE q # s  BY <2>1, <2>2, <2>3, <2>5
  <2> QED  BY <2>4, <2>5
<1>14. \A r \in Subs : \A i, j \in ToSet(l2[r]) : after[i].name = after[j].name => i = j
  <2> TAKE r \in Subs
  <2> TAKE i, j \in ToSet(l2[r])
  <2>1. CASE i \in ToSet(l[r]) /\ j \in ToSet(l[r])
    <3>1. after[i] = items[i] /\ after[j] = items[j]  BY <1>5, <2>1 DEF Same
    <3> QED  BY <1>1, <2>1, <3>1
  <2>2. CASE ~(i \in ToSet(l[r]) /\ j \in ToSet(l[r]))
    <3>1. r = s /\ (i = x \/ j = x)  BY <1>11, <2>2
    <3>2. i \in ToSet(l[s]) \cup {x} /\ j \in ToSet(l[s]) \cup {x}  BY <1>8, <1>9, <3>1
    <3>3. \A k \in ToSet(l[s]) : after[k].name # rec.name  BY <1>5 DEF Same, Unused
    <3> QED  BY <1>2, <3>1, <3>2, <3>3
  <2> QED  BY <2>1, <2>2
<1>15. Arranged(after, fr, hd2, f, l2, {})
  BY <1>2, <1>6, <1>9, <1>10, <1>12, <1>13, <1>14 DEF Arranged
<1>16. Rebegun(hd, s, x) = hd2 /\ Grown(l, s, x) = l2  BY DEF Rebegun, Grown, d, l2, hd2
<1> QED  BY <1>15, <1>16

\* The item that is held is linked to the free ones: no list changes.
LEMMA LinkArranged ==
  ASSUME NEW fr, NEW hd, NEW f, NEW l, NEW items, NEW x, Arranged(items, fr, hd, f, l, {x}),
         NEW rec \in ItemType, NEW after, Written(items, after, x, rec)
  PROVE  Arranged(after, fr, hd, f, l, {x})
<1>1. /\ items \in [Items -> ItemType] /\ l \in [Subs -> Seq(Items)] /\ hd \in [Subs -> Links]
      /\ ListOf(items, fr, f) /\ \A r \in Subs : ListOf(items, hd[r], l[r])
      /\ \A r \in Subs : ToSet(l[r]) \cap ToSet(f) = {}
      /\ \A q, r \in Subs : q # r => ToSet(l[q]) \cap ToSet(l[r]) = {}
      /\ \A r \in Subs : \A i, j \in ToSet(l[r]) : items[i].name = items[j].name => i = j
      /\ x \in Items /\ x \notin ToSet(f) /\ \A r \in Subs : x \notin ToSet(l[r])
  BY DEF Arranged
<1>2. /\ after \in [Items -> ItemType] /\ after[x] = rec
      /\ \A i \in Items : i # x => after[i] = items[i]
  BY <1>1 DEF Written
<1>3. \A r \in Subs : ToSet(l[r]) \subseteq Items
  BY <1>1, ListType
<1>4. ToSet(f) \subseteq Items  BY <1>1, ListType DEF ListOf
<1>5. \A r \in Subs : Same(items, after, l[r])  BY <1>1, <1>2, <1>3 DEF Same
<1>6. ListOf(after, fr, f)
  <2>1. \A i \in ToSet(f) : after[i].next = items[i].next  BY <1>1, <1>2, <1>4
  <2> QED  BY <1>1, <2>1, ListKept
<1>7. \A r \in Subs : ListOf(after, hd[r], l[r])
  <2> TAKE r \in Subs
  <2>1. \A i \in ToSet(l[r]) : after[i].next = items[i].next  BY <1>5 DEF Same
  <2>2. ListOf(items, hd[r], l[r])  BY <1>1
  <2> QED  BY <2>1, <2>2, ListKept
<1>8. \A r \in Subs : \A i, j \in ToSet(l[r]) : after[i].name = after[j].name => i = j
  BY <1>1, <1>5 DEF Same
<1> QED  BY <1>1, <1>2, <1>5, <1>6, <1>7, <1>8 DEF Arranged

\* The item that is held becomes the first of the free ones.
LEMMA FreeArranged ==
  ASSUME NEW fr, NEW hd, NEW f, NEW l, NEW items, NEW x, Arranged(items, fr, hd, f, l, {x}),
         items[x].next = fr
  PROVE  Arranged(items, x, hd, <<x>> \o f, l, {})
<1>1. /\ ListOf(items, fr, f) /\ \A r \in Subs : ToSet(l[r]) \cap ToSet(f) = {}
      /\ x \in Items /\ x \notin ToSet(f) /\ \A r \in Subs : x \notin ToSet(l[r])
  BY DEF Arranged
<1>2. /\ ListOf(items, x, <<x>> \o f) /\ ToSet(<<x>> \o f) = ToSet(f) \cup {x}
  BY <1>1, ListPut
<1>3. \A r \in Subs : ToSet(l[r]) \cap ToSet(<<x>> \o f) = {}  BY <1>1, <1>2
<1> QED  BY <1>2, <1>3 DEF Arranged

\* A submodule's list is forgotten.
LEMMA ForgetArranged ==
  ASSUME NEW fr, NEW hd, NEW f, NEW l, NEW items, Arranged(items, fr, hd, f, l, {}), NEW s \in Subs
  PROVE  Arranged(items, fr, [hd EXCEPT ![s] = Null], f, [l EXCEPT ![s] = << >>], {})
<1> DEFINE l2 == [l EXCEPT ![s] = << >>]
           hd2 == [hd EXCEPT ![s] = Null]
<1>1. /\ l \in [Subs -> Seq(Items)] /\ hd \in [Subs -> Links]
      /\ \A r \in Subs : ListOf(items, hd[r], l[r])
      /\ \A r \in Subs : ToSet(l[r]) \cap ToSet(f) = {}
      /\ \A q, r \in Subs : q # r => ToSet(l[q]) \cap ToSet(l[r]) = {}
      /\ \A r \in Subs : \A i, j \in ToSet(l[r]) : items[i].name = items[j].name => i = j
  BY DEF Arranged
<1>2. << >> \in Seq(Items) /\ Len(<< >>) = 0 /\ ToSet(<< >>) = {} /\ Distinct(<< >>)
  <2>1. << >> \in Seq(Items) /\ Len(<< >>) = 0  BY EmptySeq
  <2>2. DOMAIN << >> = 1 .. 0 /\ ToSet(<< >>) = {<< >>[i] : i \in 1 .. 0}  BY <2>1, ListType
  <2>3. \A i \in 1 .. 0 : FALSE  OBVIOUS
  <2> QED  BY <2>1, <2>2, <2>3 DEF Distinct
<1>3. /\ l2 \in [Subs -> Seq(Items)] /\ hd2 \in [Subs -> Links] /\ l2[s] = << >> /\ hd2[s] = Null
      /\ \A r \in Subs : r # s => l2[r] = l[r] /\ hd2[r] = hd[r]
  BY <1>1, <1>2 DEF Links
<1>4. ListOf(items, Null, << >>)  BY <1>2 DEF ListOf
<1> HIDE DEF l2, hd2
<1>5. \A r \in Subs : ToSet(l2[r]) \subseteq ToSet(l[r])
  BY <1>2, <1>3
<1>6. \A r \in Subs : ListOf(items, hd2[r], l2[r])
  <2> TAKE r \in Subs
  <2>1. CASE r = s  BY <1>3, <1>4, <2>1
  <2>2. CASE r # s  BY <1>1, <1>3, <2>2
  <2> QED  BY <2>1, <2>2
<1>7. \A r \in Subs : ToSet(l2[r]) \cap ToSet(f) = {}  BY <1>1, <1>5
<1>8. \A q, r \in Subs : q # r => ToSet(l2[q]) \cap ToSet(l2[r]) = {}
  <2> TAKE q, r \in Subs
  <2>1. ToSet(l2[q]) \subseteq ToSet(l[q]) /\ ToSet(l2[r]) \subseteq ToSet(l[r])  BY <1>5
  <2>2. q # r => ToSet(l[q]) \cap ToSet(l[r]) = {}  BY <1>1
  <2> QED  BY <2>1, <2>2
<1>9. \A r \in Subs : \A i, j \in ToSet(l2[r]) : items[i].name = items[j].name => i = j
  BY <1>1, <1>5
<1>10. Arranged(items, fr, hd2, f, l2, {})
  BY <1>3, <1>6, <1>7, <1>8, <1>9 DEF Arranged
<1> QED  BY <1>10 DEF l2, hd2

-----------------------------------------------------------------------------
(* The invariant of one caller.  With more, pf_diag_remove() may link two  *)
(* items to the same free one.                                             *)

OneCaller == \A t, u \in Callers : t = u

SummaryType == [fault : BOOLEAN, required : BOOLEAN, demanded : BOOLEAN]
CallTyped(c) == c.at # "none" => c.sub \in Subs /\ c.ix \in Items /\ c.name \in Names
Taken == {call[t].ix : t \in {u \in Callers : call[u].at \in {"tell", "link", "free"}}}
ListsNow == [s \in Subs |-> Chain(item, head[s])]
ContentOf(items, first) ==
  [n \in Names |-> Cardinality({i \in In(items, first) : items[i].name = n})]

DiagTyped ==
  /\ owner \in [Subs -> Ars \cup {NoAr}] /\ summary \in [Subs -> SummaryType]
  /\ known \in [Subs -> [Names -> 0 .. 1]]
  /\ DOMAIN call = Callers
  /\ \A t \in Callers : call[t].at \in {"none", "tell", "link", "free"} /\ CallTyped(call[t])
PoolArranged ==
  /\ Arranged(item, free, head, Chain(item, free), ListsNow, Taken)
  /\ \A t \in Callers : call[t].at = "free" => item[call[t].ix].next = free

\* What is true of a submodule of which no diagnosis is being removed, and of one
\* of which the alarm has not been sent yet.
Telling(s) == \E t \in Callers : call[t].at = "tell" /\ call[t].sub = s
ReportedNow(s) ==
  /\ summary[s] = Summary(item, head[s])
  /\ owner[s] # NoAr => known[s] = ContentOf(item, head[s])
ReportedBut(s, name) ==
  /\ Unused(item, Chain(item, head[s]), name)
  /\ owner[s] # NoAr =>
       \A n \in Names \ {name} : known[s][n] = ContentOf(item, head[s])[n]
AllReported ==
  /\ \A s \in Subs : ~Telling(s) => ReportedNow(s)
  /\ \A t \in Callers : call[t].at = "tell" => ReportedBut(call[t].sub, call[t].name)

DiagInv == DiagTyped /\ PoolArranged /\ AllReported

-----------------------------------------------------------------------------
(* What the summary and the contents of a list depend on.                  *)

\* A name that is not found is in no item of the list, and one that is found is
\* cut out.
LEMMA NotFound ==
  ASSUME NEW s \in Subs, NEW name, NEW c \in Seq(Items), Chain(item, head[s]) = c,
         Found(s, name) = {}
  PROVE  Unused(item, c, name)
<1> DEFINE S == {n \in 1 .. Len(c) : item[c[n]].name = name}
<1>1. Len(c) \in Nat /\ DOMAIN c = 1 .. Len(c) /\ ToSet(c) = {c[i] : i \in 1 .. Len(c)}
  BY ListType
<1>2. Found(s, name) = {n \in 1 .. Len(c) : item[c[n]].name = name
                                              /\ \A m \in 1 .. n - 1 : item[c[m]].name # name}
  BY DEF Found
<1>3. S = {}
  <2> SUFFICES ASSUME S # {}  PROVE FALSE
    OBVIOUS
  <2>1. S \in SUBSET (1 .. Len(c))  OBVIOUS
  <2>2. PICK i \in 1 .. Len(c) : i \in S /\ \A k \in 1 .. i - 1 : k \in 1 .. Len(c) /\ k \notin S
    <3> HIDE DEF S
    <3> QED  BY <1>1, <2>1, FirstOne
  <2>3. i \in Found(s, name)  BY <1>2, <2>2
  <2> QED  BY <2>3
<1> QED  BY <1>1, <1>3 DEF Unused

LEMMA FoundOne ==
  ASSUME NEW s \in Subs, NEW name, NEW c, Chain(item, head[s]) = c, NEW n \in Found(s, name)
  PROVE  /\ n \in 1 .. Len(c) /\ item[c[n]].name = name
         /\ Cut(item, head[s], c, n, Unlinked(s, n).items, Unlinked(s, n).head)
<1>1. n \in 1 .. Len(c) /\ item[c[n]].name = name  BY DEF Found
<1>2. Unlinked(s, n) = IF n = 1 THEN [items |-> item, head |-> item[c[1]].next]
                       ELSE [items |-> [item EXCEPT ![c[n - 1]].next = item[c[n]].next], head |-> head[s]]
  BY DEF Unlinked
<1> QED  BY <1>1, <1>2 DEF Cut

\* The same items with the same contents.
LEMMA SameReport ==
  ASSUME NEW items, NEW first, NEW after, NEW begin, In(after, begin) = In(items, first),
         \A i \in In(items, first) : after[i] = items[i]
  PROVE  /\ Summary(after, begin) = Summary(items, first)
         /\ ContentOf(after, begin) = ContentOf(items, first)
<1>1. {after[i] : i \in In(after, begin)} = {items[i] : i \in In(items, first)}  OBVIOUS
<1>2. Summary(after, begin) = Summary(items, first)  BY <1>1 DEF Summary
<1>3. ASSUME NEW n \in Names
      PROVE  {i \in In(after, begin) : after[i].name = n} = {i \in In(items, first) : items[i].name = n}
  OBVIOUS
<1>4. ContentOf(after, begin) = ContentOf(items, first)  BY <1>3 DEF ContentOf
<1> QED  BY <1>2, <1>4

LEMMA SummaryTyped ==
  ASSUME NEW items, NEW first
  PROVE  Summary(items, first) \in SummaryType
BY DEF Summary, SummaryType

\* A name is in a list once or not at all.
LEMMA ContentIs ==
  ASSUME NEW items, NEW first, NEW c, In(items, first) = ToSet(c),
         \A i, j \in ToSet(c) : items[i].name = items[j].name => i = j
  PROVE  /\ ContentOf(items, first) = [n \in Names |-> IF Unused(items, c, n) THEN 0 ELSE 1]
         /\ ContentOf(items, first) \in [Names -> 0 .. 1]
<1>1. ASSUME NEW n \in Names
      PROVE  Cardinality({i \in In(items, first) : items[i].name = n}) = IF Unused(items, c, n) THEN 0 ELSE 1
  <2> DEFINE S == {i \in In(items, first) : items[i].name = n}
  <2>1. CASE Unused(items, c, n)
    <3>1. S = {}  BY <2>1 DEF Unused
    <3> HIDE DEF S
    <3>2. Cardinality(S) = 0  BY <3>1, FS_EmptySet
    <3> QED  BY <2>1, <3>2 DEF S
  <2>2. CASE ~Unused(items, c, n)
    <3>1. PICK i \in ToSet(c) : items[i].name = n  BY <2>2 DEF Unused
    <3>2. S = {i}  BY <3>1
    <3> HIDE DEF S
    <3>3. Cardinality(S) = 1  BY <3>2, FS_Singleton
    <3> QED  BY <2>2, <3>3 DEF S
  <2> QED  BY <2>1, <2>2
<1>2. ContentOf(items, first) = [n \in Names |-> IF Unused(items, c, n) THEN 0 ELSE 1]
  BY <1>1 DEF ContentOf
<1> QED  BY <1>2

-----------------------------------------------------------------------------
(* The invariant is kept.                                                  *)

\* An arrangement of the next state.
LEMMA ArrangedThen ==
  ASSUME NEW f, NEW l, NEW held, Arranged(item', free', head', f, l, held), Taken' = held
  PROVE  /\ Arranged(item', free', head', Chain(item', free'), ListsNow', Taken')
         /\ \A s \in Subs : Chain(item', head'[s]) = l[s] /\ In(item', head'[s]) = ToSet(l[s])
<1>1. /\ Chain(item', free') = f /\ l = [s \in Subs |-> Chain(item', head'[s])]
      /\ \A s \in Subs : Chain(item', head'[s]) = l[s] /\ In(item', head'[s]) = ToSet(l[s])
  BY ArrangedIs
<1>2. ListsNow' = l  BY <1>1 DEF ListsNow
<1> QED  BY <1>1, <1>2

\* The arrangement of this state.
LEMMA ArrangedNow ==
  ASSUME PoolArranged
  PROVE  /\ item \in [Items -> ItemType] /\ head \in [Subs -> Links] /\ free \in Links
         /\ ListsNow \in [Subs -> Seq(Items)]
         /\ \A s \in Subs :
              /\ Chain(item, head[s]) = ListsNow[s] /\ In(item, head[s]) = ToSet(ListsNow[s])
              /\ ListsNow[s] \in Seq(Items) /\ ToSet(ListsNow[s]) \subseteq Items
              /\ ListOf(item, head[s], ListsNow[s])
              /\ \A i, j \in ToSet(ListsNow[s]) : item[i].name = item[j].name => i = j
              /\ ContentOf(item, head[s])
                   = [n \in Names |-> IF Unused(item, ListsNow[s], n) THEN 0 ELSE 1]
              /\ ContentOf(item, head[s]) \in [Names -> 0 .. 1]
<1>1. Arranged(item, free, head, Chain(item, free), ListsNow, Taken)  BY DEF PoolArranged
<1>2. /\ item \in [Items -> ItemType] /\ head \in [Subs -> Links] /\ ListsNow \in [Subs -> Seq(Items)]
      /\ ListOf(item, free, Chain(item, free))
      /\ \A s \in Subs : ListOf(item, head[s], ListsNow[s])
      /\ \A s \in Subs : \A i, j \in ToSet(ListsNow[s]) : item[i].name = item[j].name => i = j
  BY <1>1 DEF Arranged
<1>3. \A s \in Subs : Chain(item, head[s]) = ListsNow[s] /\ In(item, head[s]) = ToSet(ListsNow[s])
  BY <1>1, ArrangedIs
<1>4. \A s \in Subs : ListsNow[s] \in Seq(Items) /\ ToSet(ListsNow[s]) \subseteq Items
  BY <1>2, ListType
<1>5. \A s \in Subs :
        /\ ContentOf(item, head[s]) = [n \in Names |-> IF Unused(item, ListsNow[s], n) THEN 0 ELSE 1]
        /\ ContentOf(item, head[s]) \in [Names -> 0 .. 1]
  BY <1>2, <1>3, ContentIs
<1>6. free \in Links
  <2>1. free = Null \/ free # Null  OBVIOUS
  <2>2. free # Null => free \in Items  BY <1>2, ListFirst
  <2> QED  BY <2>1, <2>2 DEF Links
<1> QED  BY <1>2, <1>3, <1>4, <1>5, <1>6

\* With one caller that calls, nothing is taken.
LEMMA NothingTaken ==
  ASSUME OneCaller, DiagTyped, NEW t \in Callers, call[t].at = "none"
  PROVE  Taken = {} /\ (\A u \in Callers : call[u].at = "none") /\ \A s \in Subs : ~Telling(s)
<1>1. \A u \in Callers : call[u].at = "none"  BY DEF OneCaller
<1> QED  BY <1>1 DEF Taken, Telling

\* A submodule whose list, items and reports are what they were.
LEMMA ReportedStill ==
  ASSUME NEW s \in Subs, ReportedNow(s), In(item', head'[s]) = In(item, head[s]),
         \A i \in In(item, head[s]) : item'[i] = item[i],
         summary'[s] = summary[s], owner'[s] = owner[s], known'[s] = known[s]
  PROVE  ReportedNow(s)'
<1>1. /\ Summary(item', head'[s]) = Summary(item, head[s])
      /\ ContentOf(item', head'[s]) = ContentOf(item, head[s])
  BY SameReport
<1> QED  BY <1>1 DEF ReportedNow

\* An item is put first, in the place of what was taken out.
LEMMA PutStep ==
  ASSUME DiagInv, NEW t \in Callers, OneCaller, call[t].at = "none", NEW s \in Subs, NEW x, NEW rec,
         NEW items, NEW first, NEW tell, NEW hd, NEW f, NEW l,
         Arranged(items, free', hd, f, l, {x}), hd[s] = first, \A r \in Subs : r # s => hd[r] = head[r],
         \A r \in Subs : r # s => l[r] = ListsNow[r] /\ Same(item, items, ListsNow[r]),
         [rec EXCEPT !.next = first] \in ItemType, rec \in ItemType,
         rec.name \in Names, Unused(items, l[s], rec.name),
         owner[s] # NoAr =>
           tell = [n \in Names |-> IF n # rec.name /\ Unused(items, l[s], n) THEN 0 ELSE 1],
         Put(s, x, rec, items, first, tell), owner' = owner, call' = call
  PROVE  DiagInv'
<1> DEFINE put == [rec EXCEPT !.next = first]
           l2 == Grown(l, s, x)
<1>1. DiagTyped /\ PoolArranged /\ AllReported  BY DEF DiagInv
<1>2. Taken = {} /\ (\A u \in Callers : call[u].at = "none") /\ \A r \in Subs : ~Telling(r)
  BY <1>1, NothingTaken
<1>3. Taken' = {} /\ (\A u \in Callers : call'[u].at = "none") /\ \A r \in Subs : ~Telling(r)'
  BY <1>2 DEF Taken, Telling
<1>4. /\ head \in [Subs -> Links]
      /\ \A r \in Subs : In(item, head[r]) = ToSet(ListsNow[r])
  BY <1>1, ArrangedNow
<1>5. put.next = hd[s] /\ put.name = rec.name
  <2>1. hd[s] = first  OBVIOUS
  <2> QED  BY <2>1 DEF ItemType
<1>6. Written(items, item', x, put) /\ head' = Rebegun(hd, s, x)
  <2>1. head' = [head EXCEPT ![s] = x] /\ item' = [items EXCEPT ![x] = put]  BY DEF Put
  <2>2. hd \in [Subs -> Links]  BY DEF Arranged
  <2>3. \A r \in Subs : head'[r] = [hd EXCEPT ![s] = x][r]  BY <1>4, <2>1, <2>2
  <2>4. head' \in [Subs -> Links \cup {x}] /\ [hd EXCEPT ![s] = x] \in [Subs -> Links \cup {x}]
    BY <1>4, <2>1, <2>2
  <2> QED  BY <2>1, <2>3, <2>4 DEF Written, Rebegun
<1>7. Arranged(item', free', head', f, l2, {})
  <2>1. put \in ItemType /\ put.next = hd[s] /\ Unused(items, l[s], put.name)  BY <1>5
  <2> HIDE DEF put
  <2>2. Arranged(items, free', hd, f, l, {x})  OBVIOUS
  <2>3. Arranged(item', free', Rebegun(hd, s, x), f, Grown(l, s, x), {})
    BY <1>6, <2>1, <2>2, PutArranged
  <2> QED  BY <1>6, <2>3
<1>8. /\ l \in [Subs -> Seq(Items)] /\ items \in [Items -> ItemType] /\ x \in Items
      /\ \A r \in Subs : x \notin ToSet(l[r])
  BY DEF Arranged
<1>9. ToSet(l2[s]) = ToSet(l[s]) \cup {x} /\ \A r \in Subs : r # s => l2[r] = l[r]
  <2>1. l2[s] = <<x>> \o l[s] /\ \A r \in Subs : r # s => l2[r] = l[r]  BY <1>8 DEF Grown
  <2>2. ToSet(<<x>> \o l[s]) = ToSet(l[s]) \cup {x}
    <3>1. l[s] \in Seq(Items) /\ x \in Items  BY <1>8
    <3> QED  BY <3>1, PushSet
  <2> QED  BY <2>1, <2>2
<1>10. \A r \in Subs : Same(items, item', l[r])
  <2>1. \A r \in Subs : ToSet(l[r]) \subseteq Items  BY <1>8, ListType
  <2> QED  BY <1>6, <1>8, <2>1 DEF Same, Written
<1> HIDE DEF l2, put
<1>11. /\ Arranged(item', free', head', Chain(item', free'), ListsNow', Taken')
       /\ \A r \in Subs : Chain(item', head'[r]) = l2[r] /\ In(item', head'[r]) = ToSet(l2[r])
  BY <1>3, <1>7, ArrangedThen
<1>12. PoolArranged'  BY <1>3, <1>11 DEF PoolArranged
<1>13. ASSUME NEW r \in Subs, r # s  PROVE ReportedNow(r)'
  <2>1. ReportedNow(r)  BY <1>1, <1>2 DEF AllReported
  <2>2. In(item', head'[r]) = In(item, head[r])  BY <1>4, <1>9, <1>11, <1>13
  <2>3. \A i \in In(item, head[r]) : item'[i] = item[i]
    <3>1. Same(item, items, ListsNow[r]) /\ Same(items, item', ListsNow[r])  BY <1>10, <1>13
    <3> QED  BY <1>4, <3>1 DEF Same
  <2>4. summary'[r] = summary[r] /\ owner'[r] = owner[r] /\ known'[r] = known[r]
    BY <1>1, <1>13 DEF DiagTyped, Put
  <2> QED  BY <2>1, <2>2, <2>3, <2>4, ReportedStill
<1>14. summary'[s] = Summary(item', head'[s]) /\ head'[s] = x
  <2>1. head'[s] = x  BY <1>4 DEF Put
  <2>2. summary' = [summary EXCEPT ![s] = Summary(item', x)]  BY DEF Put
  <2> QED  BY <1>1, <2>1, <2>2 DEF DiagTyped
<1>15. ContentOf(item', head'[s])
         = [n \in Names |-> IF n # rec.name /\ Unused(items, l[s], n) THEN 0 ELSE 1]
  <2>1. In(item', head'[s]) = ToSet(l2[s])  BY <1>11
  <2>2. \A i, j \in ToSet(l2[s]) : item'[i].name = item'[j].name => i = j  BY <1>7 DEF Arranged
  <2>3. ContentOf(item', head'[s]) = [n \in Names |-> IF Unused(item', l2[s], n) THEN 0 ELSE 1]
    BY <2>1, <2>2, ContentIs
  <2>4. item'[x].name = rec.name  BY <1>5, <1>6, <1>8 DEF Written
  <2>5. ASSUME NEW n \in Names
        PROVE  Unused(item', l2[s], n) <=> n # rec.name /\ Unused(items, l[s], n)
    BY <1>9, <1>10, <2>4 DEF Unused, Same
  <2> QED  BY <2>3, <2>5
<1>16. ReportedNow(s)'
  <2>1. ASSUME owner[s] # NoAr  PROVE known'[s] = tell
    BY <1>1, <2>1 DEF DiagTyped, Put
  <2> QED  BY <1>14, <1>15, <2>1 DEF ReportedNow
<1>17. AllReported'  BY <1>3, <1>13, <1>16 DEF AllReported
<1>18. DiagTyped'
  <2>1. summary' \in [Subs -> SummaryType]
    <3>1. summary' = [summary EXCEPT ![s] = Summary(item', x)]  BY DEF Put
    <3> QED  BY <1>1, <3>1, SummaryTyped DEF DiagTyped
  <2>2. known' \in [Subs -> [Names -> 0 .. 1]]
    <3>1. CASE owner[s] = NoAr  BY <1>1, <3>1 DEF DiagTyped, Put
    <3>2. CASE owner[s] # NoAr
      <4>1. tell \in [Names -> 0 .. 1]  BY <3>2
      <4>2. known' = [known EXCEPT ![s] = tell]  BY <3>2 DEF Put
      <4> QED  BY <1>1, <4>1, <4>2 DEF DiagTyped
    <3> QED  BY <3>1, <3>2
  <2> QED  BY <1>1, <2>1, <2>2 DEF DiagTyped
<1> QED  BY <1>12, <1>17, <1>18 DEF DiagInv

\* An item that is unlinked in this state.
UnlinkedNow(s, n, name) ==
  LET x == Chain(item, head[s])[n]
      hd == Rebegun(head, s, Unlinked(s, n).head)
      l == WithoutNth(ListsNow, s, n)
  IN /\ Arranged(Unlinked(s, n).items, free, hd, Chain(item, free), l, {x})
     /\ x \in Items /\ x \in ToSet(ListsNow[s]) /\ item[x].name = name
     /\ l \in [Subs -> Seq(Items)] /\ ToSet(l[s]) = ToSet(ListsNow[s]) \ {x}
     /\ hd[s] = Unlinked(s, n).head /\ \A r \in Subs : r # s => hd[r] = head[r]
     /\ \A r \in Subs : r # s => /\ l[r] = ListsNow[r]
                                 /\ Same(item, Unlinked(s, n).items, ListsNow[r])
     /\ \A i \in Items : /\ Unlinked(s, n).items[i].name = item[i].name
                         /\ Unlinked(s, n).items[i].sev = item[i].sev
LEMMA UnlinkNow ==
  ASSUME PoolArranged, Taken = {}, NEW s \in Subs, NEW name, NEW n \in Found(s, name)
  PROVE  UnlinkedNow(s, n, name)
<1> DEFINE c == Chain(item, head[s])
           l == ListsNow
           after == Unlinked(s, n).items
           begin == Unlinked(s, n).head
           f == Chain(item, free)
<1>1. /\ c = l[s] /\ l \in [Subs -> Seq(Items)] /\ c \in Seq(Items) /\ head \in [Subs -> Links]
  BY ArrangedNow
<1>2. /\ n \in 1 .. Len(c) /\ item[c[n]].name = name
      /\ Cut(item, head[s], c, n, after, begin)
  BY FoundOne
<1>3. Arranged(item, free, head, f, l, {})  BY DEF PoolArranged
<1>4. n \in 1 .. Len(l[s]) /\ Cut(item, head[s], l[s], n, after, begin)  BY <1>1, <1>2
<1> HIDE DEF c, l, after, begin, f
<1>5. /\ Arranged(after, free, Rebegun(head, s, begin), f, WithoutNth(l, s, n), {l[s][n]})
      /\ ToSet(RemoveAt(l[s], n)) = ToSet(l[s]) \ {l[s][n]}
      /\ l[s][n] \in ToSet(l[s]) /\ l[s][n] \in Items
      /\ \A i \in Items : after[i].name = item[i].name /\ after[i].sev = item[i].sev
      /\ \A r \in Subs : r # s => Same(item, after, l[r])
  <2>1. OutOf(item, after, free, head, begin, f, l, s, n)  BY <1>3, <1>4, UnlinkArranged
  <2> QED  BY <2>1 DEF OutOf
<1>6. /\ WithoutNth(l, s, n) \in [Subs -> Seq(Items)]
      /\ WithoutNth(l, s, n)[s] = RemoveAt(l[s], n)
      /\ \A r \in Subs : r # s => WithoutNth(l, s, n)[r] = l[r]
  <2>1. WithoutNth(l, s, n) \in [Subs -> Seq(Items)]  BY <1>5 DEF Arranged
  <2> QED  BY <1>1, <2>1 DEF WithoutNth
<1>7. /\ Rebegun(head, s, begin)[s] = begin
      /\ \A r \in Subs : r # s => Rebegun(head, s, begin)[r] = head[r]
  BY <1>1 DEF Rebegun
<1> QED  BY <1>1, <1>2, <1>5, <1>6, <1>7 DEF c, l, after, begin, f, UnlinkedNow

LEMMA AddNewStep ==
  ASSUME DiagInv, OneCaller, NEW t \in Callers, NEW s \in Subs, NEW name \in Names,
         NEW sev \in Severities, AddNew(t, s, name, sev), owner' = owner, call' = call
  PROVE  DiagInv'
<1> DEFINE rec == [NoItem EXCEPT !.name = name, !.sev = sev]
           f == Tail(Chain(item, free))
           tell == Appears(known[s], name)
<1>1. /\ DiagTyped /\ PoolArranged /\ AllReported /\ call[t].at = "none" /\ free # Null
      /\ Found(s, name) = {} /\ free' = item[free].next
      /\ Put(s, free, rec, item, head[s], tell)
  BY DEF DiagInv, AddNew, Idle
<1>2. Taken = {} /\ ~Telling(s)  BY <1>1, NothingTaken
<1>3. Arranged(item, free, head, Chain(item, free), ListsNow, {})  BY <1>1, <1>2 DEF PoolArranged
<1>4. Arranged(item, free', head, f, ListsNow, {free})  BY <1>1, <1>3, PopArranged
<1>5. /\ Chain(item, head[s]) = ListsNow[s] /\ ListsNow[s] \in Seq(Items) /\ head[s] \in Links
      /\ ContentOf(item, head[s]) = [n \in Names |-> IF Unused(item, ListsNow[s], n) THEN 0 ELSE 1]
  BY <1>1, ArrangedNow
<1>6. Unused(item, ListsNow[s], name)  BY <1>1, <1>5, NotFound
<1>7. rec = [name |-> name, sev |-> sev, next |-> Null]
  <2>1. NoItem = [name |-> Nobody, sev |-> "FAULT", next |-> Null]  BY DEF NoItem
  <2> DEFINE named == [name |-> name, sev |-> "FAULT", next |-> Null]
  <2>2. [NoItem EXCEPT !.name = name] = named  BY <2>1
  <2>3. rec = [named EXCEPT !.sev = sev]  BY <2>2, Zenon
  <2>4. [named EXCEPT !.sev = sev] = [name |-> name, sev |-> sev, next |-> Null]  OBVIOUS
  <2> QED  BY <2>3, <2>4
<1>8. /\ rec \in ItemType /\ rec.name = name /\ rec.name \in Names
      /\ [rec EXCEPT !.next = head[s]] \in ItemType
  BY <1>5, <1>7 DEF ItemType, Links
<1>9. ASSUME owner[s] # NoAr
      PROVE  tell = [n \in Names |-> IF n # rec.name /\ Unused(item, ListsNow[s], n) THEN 0 ELSE 1]
  <2>1. known[s] = [n \in Names |-> IF Unused(item, ListsNow[s], n) THEN 0 ELSE 1]
    BY <1>1, <1>2, <1>5, <1>9 DEF AllReported, ReportedNow
  <2>2. known[s][name] = 0  BY <1>6, <2>1
  <2>3. tell = [known[s] EXCEPT ![name] = 1]
    <3>1. known[s][name] + 1 = 1  BY <2>2
    <3> QED  BY <3>1 DEF Appears
  <2> QED  BY <1>8, <2>1, <2>3
<1>10. \A r \in Subs : r # s => ListsNow[r] = ListsNow[r] /\ Same(item, item, ListsNow[r])
  BY DEF Same
<1> HIDE DEF rec, f, tell
<1> QED  BY <1>1, <1>4, <1>6, <1>8, <1>9, <1>10, PutStep

\* An item that is there is put first with another severity or the one it had.
LEMMA ReplaceStep ==
  ASSUME DiagInv, OneCaller, NEW t \in Callers, call[t].at = "none", NEW s \in Subs,
         NEW name \in Names, NEW n \in Found(s, name), NEW rec \in ItemType, rec.name = name,
         Put(s, Chain(item, head[s])[n], rec, Unlinked(s, n).items, Unlinked(s, n).head,
             Replaced(Appears(known[s], name), name)),
         free' = free, owner' = owner, call' = call
  PROVE  DiagInv'
<1> DEFINE x == Chain(item, head[s])[n]
           items == Unlinked(s, n).items
           first == Unlinked(s, n).head
           l == WithoutNth(ListsNow, s, n)
           hd == Rebegun(head, s, first)
           f == Chain(item, free)
           tell == Replaced(Appears(known[s], name), name)
<1>1. DiagTyped /\ PoolArranged /\ AllReported  BY DEF DiagInv
<1>2. Taken = {} /\ ~Telling(s)  BY <1>1, NothingTaken
<1>3. /\ Arranged(items, free, hd, f, l, {x})
      /\ x \in Items /\ x \in ToSet(ListsNow[s]) /\ item[x].name = name
      /\ ToSet(l[s]) = ToSet(ListsNow[s]) \ {x} /\ hd[s] = first
      /\ \A r \in Subs : r # s => hd[r] = head[r]
      /\ \A r \in Subs : r # s => l[r] = ListsNow[r] /\ Same(item, items, ListsNow[r])
      /\ \A i \in Items : items[i].name = item[i].name /\ items[i].sev = item[i].sev
  <2>1. UnlinkedNow(s, n, name)  BY <1>1, <1>2, UnlinkNow
  <2> QED  BY <2>1 DEF UnlinkedNow
<1>4. /\ ToSet(ListsNow[s]) \subseteq Items
      /\ \A i, j \in ToSet(ListsNow[s]) : item[i].name = item[j].name => i = j
      /\ ContentOf(item, head[s]) = [m \in Names |-> IF Unused(item, ListsNow[s], m) THEN 0 ELSE 1]
  BY <1>1, ArrangedNow
<1>5. Put(s, x, rec, items, first, tell)  OBVIOUS
<1> HIDE DEF x, items, first, l, hd, f, tell
<1>6. Unused(items, l[s], name)  BY <1>3, <1>4 DEF Unused
<1>7. ASSUME NEW m \in Names
      PROVE  Unused(item, ListsNow[s], m) <=> m # name /\ Unused(items, l[s], m)
  BY <1>3, <1>4 DEF Unused
<1>8. first \in Links /\ [rec EXCEPT !.next = first] \in ItemType
  <2>1. first \in Links  BY <1>3 DEF Arranged
  <2> QED  BY <2>1 DEF ItemType
<1>9. ASSUME owner[s] # NoAr
      PROVE  tell = [m \in Names |-> IF m # rec.name /\ Unused(items, l[s], m) THEN 0 ELSE 1]
  <2>1. known[s] = [m \in Names |-> IF Unused(item, ListsNow[s], m) THEN 0 ELSE 1]
    BY <1>1, <1>2, <1>4, <1>9 DEF AllReported, ReportedNow
  <2>2. known[s] = [m \in Names |-> IF m # name /\ Unused(items, l[s], m) THEN 0 ELSE 1]
    BY <1>7, <2>1
  <2>3. known[s][name] = 1 /\ DOMAIN known[s] = Names  BY <2>2
  <2>4. tell = known[s]
    <3>1. CASE name \in Usis
      <4>1. tell = [known[s] EXCEPT ![name] = 1]  BY <3>1 DEF tell, Appears, Replaced
      <4> QED  BY <2>2, <2>3, <4>1
    <3>2. CASE name \notin Usis
      <4> DEFINE k == [known[s] EXCEPT ![name] = known[s][name] + 1]
      <4>1. tell = [k EXCEPT ![name] = k[name] - 1]  BY <3>2 DEF tell, Appears, Replaced
      <4>2. k[name] = 2  BY <2>3
      <4>3. k[name] - 1 = 1  BY <4>2
      <4>4. tell = [k EXCEPT ![name] = 1]  BY <4>1, <4>3
      <4> QED  BY <2>2, <2>3, <4>4
    <3> QED  BY <3>1, <3>2
  <2> QED  BY <2>2, <2>4
<1>10. Arranged(items, free', hd, f, l, {x}) /\ rec.name \in Names /\ Unused(items, l[s], rec.name)
  BY <1>3, <1>6
<1> QED  BY <1>3, <1>5, <1>8, <1>9, <1>10, PutStep

LEMMA StillDiag ==
  ASSUME DiagInv, UNCHANGED <<item, free, head, summary, owner, call, known>>
  PROVE  DiagInv'
BY DEF DiagInv, DiagTyped, PoolArranged, AllReported, Telling, ReportedNow, ReportedBut, Taken, ListsNow

LEMMA AddStep ==
  ASSUME DiagInv, OneCaller, NEW t \in Callers, NEW s \in Subs, NEW name \in Names,
         NEW sev \in Severities, Add(t, s, name, sev)
  PROVE  DiagInv'
<1>1. DiagTyped /\ PoolArranged /\ AllReported  BY DEF DiagInv
<1>2. owner' = owner /\ call' = call  BY DEF Add
<1>3. ASSUME NEW n \in Found(s, name), call[t].at = "none"
      PROVE  /\ item[Chain(item, head[s])[n]] \in ItemType
             /\ item[Chain(item, head[s])[n]].name = name
             /\ [item[Chain(item, head[s])[n]] EXCEPT !.sev = sev] \in ItemType
             /\ [item[Chain(item, head[s])[n]] EXCEPT !.sev = sev].name = name
  <2> DEFINE x == Chain(item, head[s])[n]
  <2>1. Taken = {}  BY <1>1, <1>3, NothingTaken
  <2>2. UnlinkedNow(s, n, name)  BY <1>1, <1>3, <2>1, UnlinkNow
  <2>3. x \in Items /\ item[x].name = name  BY <2>2 DEF UnlinkedNow
  <2>4. item[x] \in ItemType  BY <1>1, <2>3, ArrangedNow
  <2> HIDE DEF x
  <2>5. [item[x] EXCEPT !.sev = sev] \in ItemType /\ [item[x] EXCEPT !.sev = sev].name = name
    BY <2>3, <2>4 DEF ItemType
  <2> QED  BY <2>3, <2>4, <2>5 DEF x
<1>4. CASE AddNew(t, s, name, sev)  BY <1>2, <1>4, AddNewStep
<1>5. CASE Overwrite(t, s, name, sev)
  <2>1. call[t].at = "none" /\ free' = free  BY <1>5 DEF Overwrite, Idle
  <2>2. PICK n \in Found(s, name) :
          Put(s, Chain(item, head[s])[n], [item[Chain(item, head[s])[n]] EXCEPT !.sev = sev],
              Unlinked(s, n).items, Unlinked(s, n).head, Replaced(Appears(known[s], name), name))
    BY <1>5 DEF Overwrite
  <2> DEFINE rec == [item[Chain(item, head[s])[n]] EXCEPT !.sev = sev]
  <2>3. rec \in ItemType /\ rec.name = name  BY <1>3, <2>1
  <2>4. Put(s, Chain(item, head[s])[n], rec, Unlinked(s, n).items, Unlinked(s, n).head,
            Replaced(Appears(known[s], name), name))
    BY <2>2
  <2> HIDE DEF rec
  <2> QED  BY <1>2, <2>1, <2>3, <2>4, ReplaceStep
<1>6. CASE Update(t, s, name)
  <2>1. call[t].at = "none" /\ free' = free  BY <1>6 DEF Update, Idle
  <2>2. PICK n \in Found(s, name) :
          Put(s, Chain(item, head[s])[n], item[Chain(item, head[s])[n]],
              Unlinked(s, n).items, Unlinked(s, n).head, Replaced(Appears(known[s], name), name))
    BY <1>6 DEF Update
  <2> DEFINE rec == item[Chain(item, head[s])[n]]
  <2>3. rec \in ItemType /\ rec.name = name  BY <1>3, <2>1
  <2>4. Put(s, Chain(item, head[s])[n], rec, Unlinked(s, n).items, Unlinked(s, n).head,
            Replaced(Appears(known[s], name), name))
    BY <2>2
  <2> HIDE DEF rec
  <2> QED  BY <1>2, <2>1, <2>3, <2>4, ReplaceStep
<1>7. CASE AddRefused(t, s, name)
  <2>1. UNCHANGED <<item, free, head, summary, owner, call, known>>
    BY <1>2, <1>7 DEF AddRefused
  <2> QED  BY <2>1, StillDiag
<1> QED  BY <1>4, <1>5, <1>6, <1>7 DEF Add

\* pf_diag_remove(): the submodule is from now on one whose alarm is to be sent.
LEMMA UnlinkStep ==
  ASSUME DiagInv, OneCaller, NEW t \in Callers, NEW s \in Subs, NEW name \in Names,
         Unlink(t, s, name)
  PROVE  DiagInv'
<1>1. DiagTyped /\ PoolArranged /\ AllReported /\ call[t].at = "none"
  BY DEF DiagInv, Unlink, Idle
<1>2. Taken = {} /\ (\A u \in Callers : call[u].at = "none") /\ \A r \in Subs : ~Telling(r)
  BY <1>1, NothingTaken
<1>3. PICK n \in Found(s, name) :
        /\ item' = Unlinked(s, n).items /\ head' = [head EXCEPT ![s] = Unlinked(s, n).head]
        /\ call' = [call EXCEPT ![t] = [at |-> "tell", sub |-> s, ix |-> Chain(item, head[s])[n],
                                        name |-> name, ar |-> NoAr]]
  BY DEF Unlink
<1>4. UNCHANGED <<free, summary, owner, known>>  BY DEF Unlink
<1> DEFINE x == Chain(item, head[s])[n]
           l == WithoutNth(ListsNow, s, n)
<1>5. UnlinkedNow(s, n, name)  BY <1>1, <1>2, UnlinkNow
<1>6. /\ Arranged(item', free', head', Chain(item, free), l, {x})
      /\ x \in Items /\ x \in ToSet(ListsNow[s]) /\ item[x].name = name
      /\ ToSet(l[s]) = ToSet(ListsNow[s]) \ {x}
      /\ \A r \in Subs : r # s => l[r] = ListsNow[r] /\ Same(item, item', ListsNow[r])
      /\ \A i \in Items : item'[i].name = item[i].name
  BY <1>3, <1>4, <1>5 DEF UnlinkedNow, Rebegun
<1>7. /\ \A r \in Subs : In(item, head[r]) = ToSet(ListsNow[r])
      /\ ToSet(ListsNow[s]) \subseteq Items
      /\ \A i, j \in ToSet(ListsNow[s]) : item[i].name = item[j].name => i = j
      /\ ContentOf(item, head[s]) = [m \in Names |-> IF Unused(item, ListsNow[s], m) THEN 0 ELSE 1]
  BY <1>1, ArrangedNow
<1>8. /\ call'[t] = [at |-> "tell", sub |-> s, ix |-> x, name |-> name, ar |-> NoAr]
      /\ DOMAIN call' = Callers /\ \A u \in Callers : u = t
  BY <1>1, <1>3 DEF DiagTyped, OneCaller
<1> HIDE DEF x, l
<1>9. Taken' = {x}
  <2>1. \A u \in Callers : call'[u].at \in {"tell", "link", "free"} /\ call'[u].ix = x  BY <1>8
  <2> QED  BY <2>1 DEF Taken
<1>10. /\ Arranged(item', free', head', Chain(item', free'), ListsNow', Taken')
       /\ \A r \in Subs : Chain(item', head'[r]) = l[r] /\ In(item', head'[r]) = ToSet(l[r])
  BY <1>6, <1>9, ArrangedThen
<1>11. PoolArranged'  BY <1>8, <1>10 DEF PoolArranged
<1>12. ASSUME NEW r \in Subs, ~Telling(r)'  PROVE ReportedNow(r)'
  <2>1. r # s  BY <1>8, <1>12 DEF Telling
  <2>2. ReportedNow(r)  BY <1>1, <1>2 DEF AllReported
  <2>3. In(item', head'[r]) = In(item, head[r])  BY <1>6, <1>7, <1>10, <2>1
  <2>4. \A i \in In(item, head[r]) : item'[i] = item[i]  BY <1>6, <1>7, <2>1 DEF Same
  <2>5. summary'[r] = summary[r] /\ owner'[r] = owner[r] /\ known'[r] = known[r]  BY <1>4
  <2> QED  BY <2>2, <2>3, <2>4, <2>5, ReportedStill
<1>13. ReportedBut(s, name)'
  <2>1. In(item', head'[s]) = ToSet(l[s]) /\ Chain(item', head'[s]) = l[s]  BY <1>10
  <2>2. ASSUME NEW m \in Names
        PROVE  Unused(item', l[s], m) <=> m = name \/ Unused(item, ListsNow[s], m)
    BY <1>6, <1>7 DEF Unused
  <2>3. \A i, j \in ToSet(l[s]) : item'[i].name = item'[j].name => i = j
    BY <1>6, <1>7
  <2>4. ContentOf(item', head'[s]) = [m \in Names |-> IF Unused(item', l[s], m) THEN 0 ELSE 1]
    BY <2>1, <2>3, ContentIs
  <2>5. \A m \in Names \ {name} : ContentOf(item', head'[s])[m] = ContentOf(item, head[s])[m]
    BY <1>7, <2>2, <2>4
  <2>6. owner[s] # NoAr => known[s] = ContentOf(item, head[s])
    BY <1>1, <1>2 DEF AllReported, ReportedNow
  <2>7. Unused(item', l[s], name)  BY <2>2
  <2> QED  BY <1>4, <2>1, <2>5, <2>6, <2>7 DEF ReportedBut
<1>14. AllReported'  BY <1>8, <1>12, <1>13 DEF AllReported
<1>15. DiagTyped'  BY <1>1, <1>4, <1>6, <1>8 DEF DiagTyped, CallTyped
<1> QED  BY <1>11, <1>14, <1>15 DEF DiagInv

\* What is true of a removal in progress.
LEMMA InProgress ==
  ASSUME DiagInv, OneCaller, NEW t \in Callers, call[t].at \in {"tell", "link", "free"}
  PROVE  /\ Arranged(item, free, head, Chain(item, free), ListsNow, {call[t].ix})
         /\ Taken = {call[t].ix} /\ call[t].sub \in Subs /\ call[t].name \in Names
         /\ call[t].ix \in Items /\ DOMAIN call = Callers /\ \A u \in Callers : u = t
         /\ \A r \in Subs : Telling(r) <=> call[t].at = "tell" /\ call[t].sub = r
<1>1. \A u \in Callers : u = t  BY DEF OneCaller
<1>2. Taken = {call[t].ix}  BY <1>1 DEF Taken
<1> QED  BY <1>1, <1>2 DEF DiagInv, DiagTyped, CallTyped, PoolArranged, Telling

LEMMA TellStep ==
  ASSUME DiagInv, OneCaller, NEW t \in Callers, Tell(t)
  PROVE  DiagInv'
<1> DEFINE s == call[t].sub
           name == call[t].name
           k == IF head[s] = Null THEN NothingKnown ELSE Disappears(known[s], name)
<1>1. /\ DiagTyped /\ PoolArranged /\ AllReported /\ call[t].at = "tell"
      /\ UNCHANGED <<item, free, head, owner>>
  BY DEF DiagInv, Tell
<1>2. /\ summary' = [summary EXCEPT ![s] = Summary(item, head[s])]
      /\ known' = IF owner[s] = NoAr THEN known ELSE [known EXCEPT ![s] = k]
      /\ call' = [call EXCEPT ![t].at = "link", ![t].ar = owner[s]]
  BY DEF Tell
<1>3. /\ Arranged(item, free, head, Chain(item, free), ListsNow, {call[t].ix})
      /\ Taken = {call[t].ix} /\ s \in Subs /\ name \in Names
      /\ call[t].ix \in Items /\ DOMAIN call = Callers /\ \A u \in Callers : u = t
      /\ \A r \in Subs : Telling(r) <=> s = r
  BY <1>1, InProgress
<1>4. /\ call'[t].at = "link" /\ call'[t].ix = call[t].ix /\ call'[t].sub = s
      /\ call'[t].name = name /\ DOMAIN call' = Callers
  <2>1. call'[t] = [call[t] EXCEPT !.at = "link", !.ar = owner[s]]  BY <1>2, <1>3
  <2> QED  BY <1>2, <1>3, <2>1
<1>5. /\ \A r \in Subs : In(item, head[r]) = ToSet(ListsNow[r]) /\ Chain(item, head[r]) = ListsNow[r]
      /\ \A r \in Subs : ListOf(item, head[r], ListsNow[r])
      /\ ContentOf(item, head[s]) = [m \in Names |-> IF Unused(item, ListsNow[s], m) THEN 0 ELSE 1]
  BY <1>1, <1>3, ArrangedNow
<1> HIDE DEF s, name, k
<1>6. Taken' = {call[t].ix}
  <2>1. \A u \in Callers : call'[u].at \in {"tell", "link", "free"} /\ call'[u].ix = call[t].ix
    BY <1>3, <1>4
  <2> QED  BY <1>3, <2>1 DEF Taken
<1>7. PoolArranged'
  <2>1. Arranged(item', free', head', Chain(item, free), ListsNow, {call[t].ix})  BY <1>1, <1>3
  <2>2. Arranged(item', free', head', Chain(item', free'), ListsNow', Taken')
    BY <1>6, <2>1, ArrangedThen
  <2> QED  BY <1>3, <1>4, <2>2 DEF PoolArranged
<1>8. ReportedBut(s, name)  BY <1>1 DEF AllReported, s, name
<1>9. ASSUME owner[s] # NoAr  PROVE k = ContentOf(item, head[s])
  <2>1. CASE head[s] = Null
    <3>1. ListsNow[s] = << >>
      <4>1. ListOf(item, head[s], ListsNow[s])  BY <1>3, <1>5
      <4> DEFINE c == ListsNow[s]
      <4>2. c # << >> => 1 \in 1 .. Len(c)
        <5>1. c \in Seq(Items)  BY <4>1 DEF ListOf
        <5> HIDE DEF c
        <5>2. c # << >> => Len(c) \in Nat /\ Len(c) # 0  BY <5>1, EmptySeq
        <5> QED  BY <5>2
      <4>3. \A i \in 1 .. Len(c) : c[i] \in Items  BY <4>1, ListType DEF ListOf
      <4>4. head[s] = IF c = << >> THEN Null ELSE c[1]  BY <4>1 DEF ListOf
      <4> HIDE DEF c
      <4>5. c = << >>  BY <2>1, <4>2, <4>3, <4>4 DEF Null, Items
      <4> QED  BY <4>5 DEF c
    <3>2. \A m \in Names : Unused(item, ListsNow[s], m)
      <4>1. DOMAIN << >> = {}  OBVIOUS
      <4>2. \A i \in ToSet(<< >>) : FALSE  BY <4>1 DEF ToSet
      <4> QED  BY <3>1, <4>2 DEF Unused
    <3>3. ContentOf(item, head[s]) = [m \in Names |-> 0]  BY <1>5, <3>2
    <3> QED  BY <2>1, <3>3 DEF k, NothingKnown
  <2>2. CASE head[s] # Null
    <3>1. k = [known[s] EXCEPT ![name] = 0]
      <4>1. known[s] \in [Names -> 0 .. 1]  BY <1>1, <1>3 DEF DiagTyped
      <4>2. known[s][name] = 0 \/ known[s][name] = 1  BY <1>3, <4>1
      <4>3. known[s][name] = 1 => known[s][name] - 1 = 0  OBVIOUS
      <4>4. k = [known[s] EXCEPT ![name] = IF name \in Usis \/ known[s][name] = 0 THEN 0 ELSE known[s][name] - 1]
        BY <2>2 DEF k, Disappears
      <4> QED  BY <4>2, <4>3, <4>4
    <3>2. \A m \in Names \ {name} : known[s][m] = ContentOf(item, head[s])[m]
      BY <1>8, <1>9 DEF ReportedBut
    <3>3. ContentOf(item, head[s])[name] = 0
      BY <1>3, <1>5, <1>8 DEF ReportedBut
    <3>4. known[s] \in [Names -> 0 .. 1]  BY <1>1, <1>3 DEF DiagTyped
    <3>5. DOMAIN ContentOf(item, head[s]) = Names /\ ContentOf(item, head[s]) = [m \in Names |-> ContentOf(item, head[s])[m]]
      BY <1>5
    <3>6. \A m \in Names : k[m] = ContentOf(item, head[s])[m]  BY <3>1, <3>2, <3>3, <3>4
    <3>7. k = [m \in Names |-> k[m]]  BY <3>1, <3>4
    <3> QED  BY <3>5, <3>6, <3>7
  <2> QED  BY <2>1, <2>2
<1>10. AllReported'
  <2>1. ASSUME NEW r \in Subs  PROVE ReportedNow(r)'
    <3>1. CASE r = s
      <4>1. summary'[s] = Summary(item, head[s])  BY <1>1, <1>2, <1>3 DEF DiagTyped
      <4>2. owner[s] # NoAr => known'[s] = ContentOf(item, head[s])
        BY <1>1, <1>2, <1>3, <1>9 DEF DiagTyped
      <4> QED  BY <1>1, <3>1, <4>1, <4>2 DEF ReportedNow
    <3>2. CASE r # s
      <4>1. ReportedNow(r)  BY <1>1, <1>3, <3>2 DEF AllReported
      <4>2. summary'[r] = summary[r] /\ known'[r] = known[r]  BY <1>1, <1>2, <3>2 DEF DiagTyped
      <4> QED  BY <1>1, <4>1, <4>2 DEF ReportedNow
    <3> QED  BY <3>1, <3>2
  <2>2. \A u \in Callers : call'[u].at # "tell"  BY <1>3, <1>4
  <2> QED  BY <2>1, <2>2 DEF AllReported
<1>11. DiagTyped'
  <2>1. summary' \in [Subs -> SummaryType]  BY <1>1, <1>2, SummaryTyped DEF DiagTyped
  <2>2. known' \in [Subs -> [Names -> 0 .. 1]]
    <3>1. owner[s] # NoAr => k \in [Names -> 0 .. 1]  BY <1>5, <1>9
    <3> QED  BY <1>1, <1>2, <3>1 DEF DiagTyped
  <2>3. \A u \in Callers : call'[u].at \in {"none", "tell", "link", "free"} /\ CallTyped(call'[u])
    BY <1>3, <1>4 DEF CallTyped
  <2> QED  BY <1>1, <1>4, <2>1, <2>2, <2>3 DEF DiagTyped
<1> QED  BY <1>7, <1>10, <1>11 DEF DiagInv

LEMMA LinkStep ==
  ASSUME DiagInv, OneCaller, NEW t \in Callers, Link(t)
  PROVE  DiagInv'
<1> DEFINE x == call[t].ix
           rec == [NoItem EXCEPT !.next = free]
<1>1. /\ DiagTyped /\ PoolArranged /\ AllReported /\ call[t].at = "link"
      /\ UNCHANGED <<free, head, summary, owner, known>>
      /\ item' = [item EXCEPT ![x] = rec] /\ call' = [call EXCEPT ![t].at = "free"]
  BY DEF DiagInv, Link
<1>2. /\ Arranged(item, free, head, Chain(item, free), ListsNow, {x})
      /\ Taken = {x} /\ call[t].sub \in Subs /\ call[t].name \in Names /\ x \in Items
      /\ DOMAIN call = Callers /\ \A u \in Callers : u = t
      /\ \A r \in Subs : ~Telling(r)
  BY <1>1, InProgress
<1>3. /\ call'[t].at = "free" /\ call'[t].ix = x /\ call'[t].sub = call[t].sub
      /\ call'[t].name = call[t].name /\ DOMAIN call' = Callers
  <2>1. call'[t] = [call[t] EXCEPT !.at = "free"]  BY <1>1, <1>2
  <2> QED  BY <1>1, <1>2, <2>1
<1>4. rec \in ItemType /\ rec.next = free
  <2>1. free \in Links  BY <1>1, ArrangedNow
  <2>2. NoItem \in ItemType  BY DEF NoItem, ItemType, Severities, Links
  <2> QED  BY <2>1, <2>2 DEF ItemType
<1>5. \A r \in Subs : /\ In(item, head[r]) = ToSet(ListsNow[r]) /\ ToSet(ListsNow[r]) \subseteq Items
  BY <1>1, ArrangedNow
<1> HIDE DEF x, rec
<1>6. Written(item, item', x, rec)  BY <1>1 DEF Written
<1>7. Arranged(item', free', head', Chain(item, free), ListsNow, {x})
  <2>1. Arranged(item', free, head, Chain(item, free), ListsNow, {x})
    BY <1>2, <1>4, <1>6, LinkArranged
  <2> QED  BY <1>1, <2>1
<1>8. Taken' = {x}
  <2>1. \A u \in Callers : call'[u].at \in {"tell", "link", "free"} /\ call'[u].ix = x
    BY <1>2, <1>3
  <2> QED  BY <1>2, <2>1 DEF Taken
<1>9. /\ Arranged(item', free', head', Chain(item', free'), ListsNow', Taken')
      /\ \A r \in Subs : In(item', head'[r]) = ToSet(ListsNow[r])
  BY <1>7, <1>8, ArrangedThen
<1>10. item'[x].next = free /\ \A i \in Items : i # x => item'[i] = item[i]
  <2>1. item \in [Items -> ItemType]  BY <1>1, ArrangedNow
  <2> QED  BY <1>1, <1>2, <1>4, <2>1
<1>11. PoolArranged'  BY <1>1, <1>2, <1>3, <1>9, <1>10 DEF PoolArranged
<1>12. ASSUME NEW r \in Subs  PROVE ReportedNow(r)'
  <2>1. ReportedNow(r)  BY <1>1, <1>2 DEF AllReported
  <2>2. x \notin ToSet(ListsNow[r])  BY <1>2 DEF Arranged
  <2>3. \A i \in In(item, head[r]) : item'[i] = item[i]  BY <1>5, <1>10, <2>2
  <2>4. In(item', head'[r]) = In(item, head[r])  BY <1>5, <1>9
  <2> QED  BY <1>1, <2>1, <2>3, <2>4, ReportedStill
<1>13. AllReported'
  <2>1. \A u \in Callers : call'[u].at # "tell"  BY <1>2, <1>3
  <2> QED  BY <1>12, <2>1 DEF AllReported
<1>14. DiagTyped'
  <2>1. \A u \in Callers : call'[u].at \in {"none", "tell", "link", "free"} /\ CallTyped(call'[u])
    BY <1>2, <1>3 DEF CallTyped
  <2> QED  BY <1>1, <1>3, <2>1 DEF DiagTyped
<1> QED  BY <1>11, <1>13, <1>14 DEF DiagInv

LEMMA FreeStep ==
  ASSUME DiagInv, OneCaller, NEW t \in Callers, Free(t)
  PROVE  DiagInv'
<1> DEFINE x == call[t].ix
<1>1. /\ DiagTyped /\ PoolArranged /\ AllReported /\ call[t].at = "free"
      /\ UNCHANGED <<item, head, summary, owner, known>>
      /\ free' = x /\ call' = [call EXCEPT ![t] = NoCall]
  BY DEF DiagInv, Free
<1>2. /\ Arranged(item, free, head, Chain(item, free), ListsNow, {x})
      /\ DOMAIN call = Callers /\ \A u \in Callers : u = t
      /\ \A r \in Subs : ~Telling(r)
  BY <1>1, InProgress
<1>3. item[x].next = free  BY <1>1 DEF PoolArranged
<1>4. DOMAIN call' = Callers /\ \A u \in Callers : call'[u].at = "none"
  BY <1>1, <1>2 DEF NoCall
<1> HIDE DEF x
<1>5. Arranged(item', free', head', <<x>> \o Chain(item, free), ListsNow, {})
  <2>1. Arranged(item, x, head, <<x>> \o Chain(item, free), ListsNow, {})
    BY <1>2, <1>3, FreeArranged
  <2> QED  BY <1>1, <2>1
<1>6. Taken' = {} /\ \A r \in Subs : ~Telling(r)'  BY <1>4 DEF Taken, Telling
<1>7. Arranged(item', free', head', Chain(item', free'), ListsNow', Taken')
  BY <1>5, <1>6, ArrangedThen
<1>8. PoolArranged'  BY <1>4, <1>7 DEF PoolArranged
<1>9. AllReported'  BY <1>1, <1>2, <1>4 DEF AllReported, ReportedNow
<1>10. DiagTyped'  BY <1>1, <1>4 DEF DiagTyped, CallTyped
<1> QED  BY <1>8, <1>9, <1>10 DEF DiagInv

LEMMA ReplugStep ==
  ASSUME DiagInv, OneCaller, NEW s \in Subs, Replug(s)
  PROVE  DiagInv'
<1>1. /\ DiagTyped /\ PoolArranged /\ AllReported /\ \A t \in Callers : call[t].at = "none"
      /\ UNCHANGED <<item, free, call, known>>
      /\ head' = [head EXCEPT ![s] = Null] /\ summary' = [summary EXCEPT ![s] = NoSummary]
      /\ owner' = [owner EXCEPT ![s] = NoAr]
  BY DEF DiagInv, Replug
<1>2. /\ Taken = {} /\ Taken' = {} /\ (\A t \in Callers : call'[t].at = "none")
      /\ \A r \in Subs : ~Telling(r) /\ ~Telling(r)'
  BY <1>1 DEF Taken, Telling
<1>3. Arranged(item, free, head, Chain(item, free), ListsNow, {})  BY <1>1, <1>2 DEF PoolArranged
<1> DEFINE l == [ListsNow EXCEPT ![s] = << >>]
<1>4. Arranged(item', free', head', Chain(item, free), l, {})
  <2>1. Arranged(item, free, [head EXCEPT ![s] = Null], Chain(item, free), l, {})
    BY <1>3, ForgetArranged
  <2> QED  BY <1>1, <2>1
<1>5. /\ head \in [Subs -> Links] /\ ListsNow \in [Subs -> Seq(Items)]
      /\ \A r \in Subs : In(item, head[r]) = ToSet(ListsNow[r])
  BY <1>1, ArrangedNow
<1>6. head'[s] = Null /\ l[s] = << >> /\ \A r \in Subs : r # s => head'[r] = head[r] /\ l[r] = ListsNow[r]
  BY <1>1, <1>5
<1> HIDE DEF l
<1>7. /\ Arranged(item', free', head', Chain(item', free'), ListsNow', Taken')
      /\ \A r \in Subs : In(item', head'[r]) = ToSet(l[r])
  BY <1>2, <1>4, ArrangedThen
<1>8. PoolArranged'  BY <1>2, <1>7 DEF PoolArranged
<1>9. ASSUME NEW r \in Subs  PROVE ReportedNow(r)'
  <2>1. CASE r = s
    <3>1. In(item', head'[s]) = {}
      <4>1. DOMAIN << >> = {}  OBVIOUS
      <4>2. ToSet(<< >>) = {}  BY <4>1 DEF ToSet
      <4> QED  BY <1>6, <1>7, <4>2
    <3>2. Summary(item', head'[s]) = NoSummary  BY <3>1 DEF Summary, NoSummary
    <3>3. summary'[s] = NoSummary /\ owner'[s] = NoAr  BY <1>1 DEF DiagTyped
    <3> QED  BY <2>1, <3>2, <3>3 DEF ReportedNow
  <2>2. CASE r # s
    <3>1. ReportedNow(r)  BY <1>1, <1>2 DEF AllReported
    <3>2. In(item', head'[r]) = In(item, head[r])  BY <1>5, <1>6, <1>7, <2>2
    <3>3. summary'[r] = summary[r] /\ owner'[r] = owner[r] /\ known'[r] = known[r]
      BY <1>1, <2>2 DEF DiagTyped
    <3> QED  BY <1>1, <3>1, <3>2, <3>3, ReportedStill
  <2> QED  BY <2>1, <2>2
<1>10. AllReported'  BY <1>2, <1>9 DEF AllReported
<1>11. DiagTyped'
  <2>1. NoSummary \in SummaryType  BY DEF NoSummary, SummaryType
  <2> QED  BY <1>1, <2>1 DEF DiagTyped
<1> QED  BY <1>8, <1>10, <1>11 DEF DiagInv

\* A connection takes submodules, and its controller reads what is there.
LEMMA DiagConnectStep ==
  ASSUME DiagInv, OneCaller, NEW a \in Ars, Connect(a)
  PROVE  DiagInv'
<1>1. /\ DiagTyped /\ PoolArranged /\ AllReported /\ UNCHANGED <<item, free, head, summary, call>>
  BY DEF DiagInv, Connect
<1>2. PICK S \in SUBSET {s \in Subs : owner[s] = NoAr} :
        /\ owner' = [s \in Subs |-> IF s \in S THEN a ELSE owner[s]]
        /\ known' = [s \in Subs |-> IF s \in S THEN Content(s) ELSE known[s]]
  BY DEF Connect
<1>3. \A s \in Subs : Content(s) = ContentOf(item, head[s])  BY DEF Content, ContentOf
<1>4. \A s \in Subs : ContentOf(item, head[s]) \in [Names -> 0 .. 1]  BY <1>1, ArrangedNow
<1>5. DiagTyped'
  <2>1. owner' \in [Subs -> Ars \cup {NoAr}]  BY <1>1, <1>2 DEF DiagTyped
  <2>2. known' \in [Subs -> [Names -> 0 .. 1]]  BY <1>1, <1>2, <1>3, <1>4 DEF DiagTyped
  <2> QED  BY <1>1, <2>1, <2>2 DEF DiagTyped
<1>6. PoolArranged'  BY <1>1 DEF PoolArranged, Taken, ListsNow
<1>7. \A s \in Subs : Telling(s)' <=> Telling(s)  BY <1>1 DEF Telling
<1>8. ASSUME NEW s \in Subs
      PROVE  known'[s] = ContentOf(item, head[s]) \/ (known'[s] = known[s] /\ owner'[s] = owner[s])
  BY <1>2, <1>3
<1>9. ASSUME NEW s \in Subs, ReportedNow(s)  PROVE ReportedNow(s)'
  BY <1>1, <1>8, <1>9 DEF ReportedNow
<1>10. ASSUME NEW s \in Subs, NEW name, ReportedBut(s, name)  PROVE ReportedBut(s, name)'
  BY <1>1, <1>8, <1>10 DEF ReportedBut
<1>11. \A t \in Callers : call[t].at = "tell" => call[t].sub \in Subs
  BY <1>1 DEF DiagTyped, CallTyped
<1>12. AllReported'
  <2>1. \A s \in Subs : ~Telling(s)' => ReportedNow(s)'  BY <1>1, <1>7, <1>9 DEF AllReported
  <2>2. \A t \in Callers : call'[t].at = "tell" => ReportedBut(call[t].sub, call[t].name)'
    BY <1>1, <1>10, <1>11 DEF AllReported
  <2>3. ASSUME NEW t \in Callers, call'[t].at = "tell"  PROVE ReportedBut(call[t].sub, call[t].name)'
    BY <2>2, <2>3
  <2> QED  BY <1>1, <2>1, <2>2 DEF AllReported, ReportedBut
<1> QED  BY <1>5, <1>6, <1>12 DEF DiagInv

\* The connections change what is owned, and nothing else of this.
LEMMA ConnectionsStep ==
  ASSUME DiagInv, OneCaller, Connections
  PROVE  DiagInv'
<1>1. /\ DiagTyped /\ PoolArranged /\ AllReported
      /\ UNCHANGED <<item, free, head, summary, call, known>>
      /\ owner' = [s \in Subs |-> IF owner[s] \in Ended THEN NoAr ELSE owner[s]]
  BY DEF DiagInv, Connections
<1>2. DiagTyped'
  <2>1. owner' \in [Subs -> Ars \cup {NoAr}]  BY <1>1 DEF DiagTyped
  <2> QED  BY <1>1, <2>1 DEF DiagTyped
<1>3. PoolArranged'  BY <1>1 DEF PoolArranged, Taken, ListsNow
<1>4. \A s \in Subs : owner'[s] # NoAr => owner[s] # NoAr  BY <1>1
<1>5. \A t \in Callers : call[t].at = "tell" => call[t].sub \in Subs
  BY <1>1 DEF DiagTyped, CallTyped
<1>6. AllReported'
  BY <1>1, <1>4, <1>5 DEF AllReported, Telling, ReportedNow, ReportedBut
<1> QED  BY <1>2, <1>3, <1>6 DEF DiagInv

\* At first all items are free, linked in their order.
LEMMA DiagBegins ==
  ASSUME Init
  PROVE  DiagInv
<1> DEFINE f == [i \in 1 .. NItems |-> i]
           l == [s \in Subs |-> << >>]
<1>1. /\ item = [i \in Items |-> [NoItem EXCEPT !.next = IF i = NItems THEN Null ELSE i + 1]]
      /\ free = 1 /\ head = [s \in Subs |-> Null]
      /\ summary = [s \in Subs |-> NoSummary] /\ owner = [s \in Subs |-> NoAr]
      /\ call = [t \in Callers |-> NoCall] /\ known = [s \in Subs |-> NothingKnown]
  BY DEF Init
<1>2. NItems \in Nat /\ NItems > 0  BY DiagAssumption
<1>3. /\ \A i \in Items : item[i] \in ItemType /\ item[i].next = IF i = NItems THEN Null ELSE i + 1
      /\ item \in [Items -> ItemType]
  <2>1. ASSUME NEW i \in Items
        PROVE  item[i] \in ItemType /\ item[i].next = IF i = NItems THEN Null ELSE i + 1
    <3> DEFINE n == IF i = NItems THEN Null ELSE i + 1
    <3>1. n \in Links  BY <1>2 DEF Items, Links
    <3>2. item[i] = [NoItem EXCEPT !.next = n]  BY <1>1
    <3> HIDE DEF n
    <3>3. item[i] = [name |-> Nobody, sev |-> "FAULT", next |-> n]  BY <3>2 DEF NoItem
    <3>4. item[i] \in ItemType /\ item[i].next = n  BY <3>1, <3>3 DEF ItemType, Severities
    <3> QED  BY <3>4 DEF n
  <2> QED  BY <1>1, <2>1
<1>4. f \in Seq(Items) /\ Len(f) = NItems /\ DOMAIN f = 1 .. NItems /\ \A i \in 1 .. NItems : f[i] = i
  BY <1>2 DEF Items
<1>5. << >> \in Seq(Items) /\ Len(<< >>) = 0 /\ ToSet(<< >>) = {} /\ Distinct(<< >>)
  <2>1. << >> \in Seq(Items) /\ Len(<< >>) = 0  BY EmptySeq
  <2>2. DOMAIN << >> = {}  OBVIOUS
  <2> QED  BY <2>1, <2>2 DEF ToSet, Distinct
<1> HIDE DEF f
<1>6. ListOf(item, free, f)
  <2>1. Distinct(f)  BY <1>4 DEF Distinct
  <2>2. f # << >> /\ f[1] = 1
    <3>1. 1 \in 1 .. NItems  BY <1>2
    <3>2. Len(f) # 0  BY <1>2, <1>4
    <3> QED  BY <1>4, <1>5, <3>1, <3>2
  <2>3. \A k \in 1 .. Len(f) : item[f[k]].next = IF k = Len(f) THEN Null ELSE f[k + 1]
    <3> TAKE k \in 1 .. Len(f)
    <3>1. k \in Items /\ f[k] = k  BY <1>4 DEF Items
    <3>2. k # NItems => f[k + 1] = k + 1
      <4>1. k # NItems => k + 1 \in 1 .. NItems  BY <1>2, <3>1 DEF Items
      <4> QED  BY <1>4, <4>1
    <3> QED  BY <1>3, <1>4, <3>1, <3>2
  <2> QED  BY <1>1, <1>4, <2>1, <2>2, <2>3 DEF ListOf
<1>7. ListOf(item, Null, << >>)  BY <1>5 DEF ListOf
<1>8. l \in [Subs -> Seq(Items)] /\ \A s \in Subs : l[s] = << >> /\ head[s] = Null
  BY <1>1, <1>5
<1>9. head \in [Subs -> Links]  BY <1>1 DEF Links
<1> HIDE DEF l
<1>10. Arranged(item, free, head, f, l, {})
  <2>1. \A s \in Subs : ListOf(item, head[s], l[s])  BY <1>7, <1>8
  <2>2. \A s \in Subs : ToSet(l[s]) = {}  BY <1>5, <1>8
  <2> QED  BY <1>3, <1>6, <1>8, <1>9, <2>1, <2>2 DEF Arranged
<1>11. \A t \in Callers : call[t].at = "none"  BY <1>1 DEF NoCall
<1>12. Taken = {}  BY <1>11 DEF Taken
<1>13. /\ Chain(item, free) = f /\ ListsNow = l
       /\ \A s \in Subs : In(item, head[s]) = ToSet(l[s])
  BY <1>10, ArrangedIs DEF ListsNow
<1>14. PoolArranged  BY <1>10, <1>11, <1>12, <1>13 DEF PoolArranged
<1>15. AllReported
  <2>1. ASSUME NEW s \in Subs  PROVE ReportedNow(s)
    <3>1. In(item, head[s]) = {}  BY <1>5, <1>8, <1>13
    <3>2. Summary(item, head[s]) = NoSummary  BY <3>1 DEF Summary, NoSummary
    <3> QED  BY <1>1, <3>2 DEF ReportedNow
  <2> QED  BY <1>11, <2>1 DEF AllReported
<1>16. DiagTyped
  <2>1. NoSummary \in SummaryType /\ NothingKnown \in [Names -> 0 .. 1]
    BY DEF NoSummary, SummaryType, NothingKnown
  <2> QED  BY <1>1, <1>11, <2>1 DEF DiagTyped, CallTyped
<1> QED  BY <1>14, <1>15, <1>16 DEF DiagInv

LEMMA DiagKept ==
  ASSUME OneCaller, DiagInv, [Next]_vars
  PROVE  DiagInv'
<1>1. ASSUME NEW a \in Ars, Connect(a)  PROVE DiagInv'  BY <1>1, DiagConnectStep
<1>2. CASE Connections  BY <1>2, ConnectionsStep
<1>3. ASSUME NEW t \in Callers, DiagStep(t)  PROVE DiagInv'
  <2>1. ASSUME NEW s \in Subs, NEW name \in Names, NEW sev \in Severities, Add(t, s, name, sev)
        PROVE  DiagInv'
    BY <2>1, AddStep
  <2>2. ASSUME NEW s \in Subs, NEW name \in Names, Unlink(t, s, name)  PROVE DiagInv'
    BY <2>2, UnlinkStep
  <2>3. CASE Tell(t)  BY <2>3, TellStep
  <2>4. CASE Link(t)  BY <2>4, LinkStep
  <2>5. CASE Free(t)  BY <2>5, FreeStep
  <2> QED  BY <1>3, <2>1, <2>2, <2>3, <2>4, <2>5 DEF DiagStep
<1>4. ASSUME NEW s \in Subs, Replug(s)  PROVE DiagInv'  BY <1>4, ReplugStep
<1>5. CASE UNCHANGED vars  BY <1>5, StillDiag DEF vars, diagVars
<1> QED  BY <1>1, <1>2, <1>3, <1>4, <1>5 DEF Next

\* The invariant says what the run checks.
LEMMA DiagSays ==
  ASSUME OneCaller, DiagInv
  PROVE  DiagnosisSound
<1>1. DiagTyped /\ PoolArranged /\ AllReported  BY DEF DiagInv
<1>2. Arranged(item, free, head, Chain(item, free), ListsNow, Taken)  BY <1>1 DEF PoolArranged
<1>3. /\ In(item, free) = ToSet(Chain(item, free))
      /\ \A s \in Subs : In(item, head[s]) = ToSet(ListsNow[s]) /\ Chain(item, head[s]) = ListsNow[s]
  BY <1>2, ArrangedIs
<1>4. \A s \in Subs : /\ ContentOf(item, head[s]) \in [Names -> 0 .. 1]
                      /\ Content(s) = ContentOf(item, head[s])
  BY <1>1, ArrangedNow DEF Content, ContentOf
<1>5. PoolSound
  <2>1. In(item, free) \cap Taken = {}  BY <1>2, <1>3 DEF Arranged
  <2>2. \A s \in Subs : In(item, head[s]) \cap (In(item, free) \cup Taken) = {}
    BY <1>2, <1>3 DEF Arranged
  <2>3. \A s, r \in Subs : s # r => In(item, head[s]) \cap In(item, head[r]) = {}
    BY <1>2, <1>3 DEF Arranged
  <2>4. Len(Chain(item, free)) = Cardinality(In(item, free))
    <3>1. Chain(item, free) \in Seq(Items) /\ Distinct(Chain(item, free))
      BY <1>2 DEF Arranged, ListOf
    <3> QED  BY <1>3, <3>1, ListLength
  <2>5. \A s \in Subs : Len(Chain(item, head[s])) = Cardinality(In(item, head[s]))
    <3> TAKE s \in Subs
    <3>1. ListsNow[s] \in Seq(Items) /\ Distinct(ListsNow[s])
      BY <1>2 DEF Arranged, ListOf
    <3> QED  BY <1>3, <3>1, ListLength
  <2>6. \A s \in Subs : \A n \in Names : Content(s)[n] <= 1  BY <1>4
  <2> QED  BY <2>1, <2>2, <2>3, <2>4, <2>5, <2>6 DEF PoolSound, Taken
<1>6. ReportsMatch
  <2> SUFFICES ASSUME AllIdle  PROVE \A s \in Subs : ReportedNow(s)
    BY <1>4 DEF ReportsMatch, ReportedNow
  <2> QED  BY <1>1 DEF AllIdle, AllReported, Telling
<1> QED  BY <1>5, <1>6 DEF DiagnosisSound

\* With one thread that adds and removes diagnoses, the pool, the lists, the
\* summaries and the alarms agree, however many items, submodules and names there
\* are (pf_diag.c).
THEOREM DiagnosisSoundAlways ==
  ASSUME OneCaller
  PROVE  Spec => []DiagnosisSound
<1>1. Init => DiagInv  BY DiagBegins
<1>2. DiagInv /\ [Next]_vars => DiagInv'  BY DiagKept
<1>3. DiagInv => DiagnosisSound  BY DiagSays
<1> QED  BY <1>1, <1>2, <1>3, PTL DEF Spec

-----------------------------------------------------------------------------
(* The device tree.                                                        *)

\* The entry of a slot number, of a subslot number, and one that can be taken.
LEMMA SlotIs ==
  ASSUME NEW t, NEW s
  PROVE  \/ Slot(t, s) = None /\ \A i \in Entries : ~(t[i].used /\ t[i].nbr = s)
         \/ /\ Slot(t, s) \in Entries /\ t[Slot(t, s)].used /\ t[Slot(t, s)].nbr = s
            /\ Slot(t, s) # None
<1> DEFINE S == {i \in 1 .. MaxSlots : t[i].used /\ t[i].nbr = s}
<1>1. MaxSlots \in Nat  BY TreeAssumption
<1>2. CASE S = {}
  <2>1. ~ \E i \in 1 .. MaxSlots : t[i].used /\ t[i].nbr = s  BY <1>2
  <2>2. Slot(t, s) = None  BY <2>1, Zenon DEF Slot, First
  <2> QED  BY <2>1, <2>2 DEF Entries
<1>3. CASE S # {}
  <2>1. PICK i \in 1 .. MaxSlots :
               i \in S /\ \A k \in 1 .. i - 1 : k \in 1 .. MaxSlots /\ k \notin S
    BY <1>1, <1>3, FirstOne
  <2>2. \E h \in 1 .. MaxSlots : /\ t[h].used /\ t[h].nbr = s
                                /\ \A k \in 1 .. h - 1 : ~(t[k].used /\ t[k].nbr = s)
    BY <2>1
  <2>3. Slot(t, s) \in 1 .. MaxSlots /\ t[Slot(t, s)].used /\ t[Slot(t, s)].nbr = s
    BY <2>2, Zenon DEF Slot, First
  <2> QED  BY <1>1, <2>3 DEF Entries, None
<1> QED  BY <1>2, <1>3

LEMMA SubIs ==
  ASSUME NEW slot, NEW n
  PROVE  \/ Sub(slot, n) = None /\ \A j \in Places : ~(slot.subs[j].used /\ slot.subs[j].nbr = n)
         \/ /\ Sub(slot, n) \in Places /\ Sub(slot, n) # None
            /\ slot.subs[Sub(slot, n)].used /\ slot.subs[Sub(slot, n)].nbr = n
<1> DEFINE S == {j \in 1 .. MaxSubs : slot.subs[j].used /\ slot.subs[j].nbr = n}
<1>1. MaxSubs \in Nat  BY TreeAssumption
<1>2. CASE S = {}
  <2>1. ~ \E j \in 1 .. MaxSubs : slot.subs[j].used /\ slot.subs[j].nbr = n  BY <1>2
  <2>2. Sub(slot, n) = None  BY <2>1, Zenon DEF Sub, First
  <2> QED  BY <2>1, <2>2 DEF Places
<1>3. CASE S # {}
  <2>1. PICK i \in 1 .. MaxSubs :
               i \in S /\ \A k \in 1 .. i - 1 : k \in 1 .. MaxSubs /\ k \notin S
    BY <1>1, <1>3, FirstOne
  <2>2. \E h \in 1 .. MaxSubs :
           /\ slot.subs[h].used /\ slot.subs[h].nbr = n
           /\ \A k \in 1 .. h - 1 : ~(slot.subs[k].used /\ slot.subs[k].nbr = n)
    BY <2>1
  <2>3. /\ Sub(slot, n) \in 1 .. MaxSubs /\ slot.subs[Sub(slot, n)].used
        /\ slot.subs[Sub(slot, n)].nbr = n
    BY <2>2, Zenon DEF Sub, First
  <2> QED  BY <1>1, <2>3 DEF Places, None
<1> QED  BY <1>2, <1>3

\* What an AR expects, with its first module of a number and the submodule in it.
LEMMA ExpectsIs ==
  ASSUME NEW a, a.exp \in Seq(ExpModule), NEW s, NEW n
  PROVE  /\ Expects(a, s, n) =>
              /\ ExpMod(a, s) \in 1 .. Len(a.exp) /\ a.exp[ExpMod(a, s)].nbr = s
              /\ \A m \in 1 .. ExpMod(a, s) - 1 : a.exp[m].nbr # s
              /\ ExpSubOf(a, s, n) \in 1 .. Len(a.exp[ExpMod(a, s)].subs)
              /\ a.exp[ExpMod(a, s)].subs[ExpSubOf(a, s, n)].nbr = n
              /\ s \in SlotNbrs /\ n \in SubNbrs
         /\ \A m \in 1 .. Len(a.exp), x \in Nat :
              /\ ~Twice(a.exp, m) /\ a.exp[m].nbr = s
              /\ x \in 1 .. Len(a.exp[m].subs) /\ a.exp[m].subs[x].nbr = n
              => Expects(a, s, n) /\ ExpMod(a, s) = m
<1> DEFINE S == {m \in 1 .. Len(a.exp) : a.exp[m].nbr = s}
           e == ExpMod(a, s)
<1>1. Len(a.exp) \in Nat /\ \A m \in 1 .. Len(a.exp) : a.exp[m] \in ExpModule
  BY ElementOfSeq, LenProperties
<1>3. \/ S = {} /\ e = None
      \/ e \in S /\ \A k \in 1 .. e - 1 : k \notin S
  <2>1. ASSUME S = {}  PROVE e = None
    <3>1. ~ \E m \in 1 .. Len(a.exp) : a.exp[m].nbr = s  BY <2>1
    <3> QED  BY <3>1, Zenon DEF ExpMod, First
  <2>2. ASSUME S # {}  PROVE e \in S /\ \A k \in 1 .. e - 1 : k \notin S
    <3>0. PICK i \in 1 .. Len(a.exp) :
                 i \in S /\ \A k \in 1 .. i - 1 : k \in 1 .. Len(a.exp) /\ k \notin S
      <4>1. S \in SUBSET (1 .. Len(a.exp))  OBVIOUS
      <4> HIDE DEF S
      <4> QED  BY <4>1, <1>1, <2>2, FirstOne
    <3>1. \E m \in 1 .. Len(a.exp) : /\ a.exp[m].nbr = s
                                   /\ \A k \in 1 .. m - 1 : ~(a.exp[k].nbr = s)
      BY <3>0
    <3>2. /\ e \in 1 .. Len(a.exp) /\ a.exp[e].nbr = s
          /\ \A k \in 1 .. e - 1 : ~(a.exp[k].nbr = s)
      BY <3>1, Zenon DEF ExpMod, First
    <3> QED  BY <3>2
  <2> QED  BY <2>1, <2>2
<1> HIDE DEF e
<1>4. ASSUME e \in S
      PROVE  LET subs == a.exp[e].subs
                 T == {k \in 1 .. Len(subs) : subs[k].nbr = n}
             IN  /\ Len(subs) \in Nat /\ \A k \in 1 .. Len(subs) : subs[k] \in ExpSub
                 /\ \/ T = {} /\ ExpSubOf(a, s, n) = None
                    \/ T # {} /\ ExpSubOf(a, s, n) \in T
  <2> DEFINE subs == a.exp[e].subs
             T == {k \in 1 .. Len(subs) : subs[k].nbr = n}
  <2>1. subs \in Seq(ExpSub)  BY <1>1, <1>4 DEF ExpModule
  <2>2. Len(subs) \in Nat /\ \A k \in 1 .. Len(subs) : subs[k] \in ExpSub
    BY <2>1, ElementOfSeq, LenProperties
  <2>4. e # None  BY <1>1, <1>4 DEF None
  <2>5. ASSUME T = {}  PROVE ExpSubOf(a, s, n) = None
    <3>1. ~ \E k \in 1 .. Len(subs) : subs[k].nbr = n  BY <2>5
    <3> QED  BY <3>1, <2>4, Zenon DEF ExpSubOf, First, e
  <2>6. ASSUME T # {}  PROVE ExpSubOf(a, s, n) \in T
    <3>0. PICK i \in 1 .. Len(subs) :
                 i \in T /\ \A k \in 1 .. i - 1 : k \in 1 .. Len(subs) /\ k \notin T
      <4>1. T \in SUBSET (1 .. Len(subs)) /\ T # {} /\ Len(subs) \in Nat  BY <2>2, <2>6
      <4> HIDE DEF T
      <4> QED  BY <4>1, FirstOne
    <3>1. \E k \in 1 .. Len(subs) : /\ subs[k].nbr = n
                                  /\ \A l \in 1 .. k - 1 : ~(subs[l].nbr = n)
      BY <3>0
    <3>2. /\ ExpSubOf(a, s, n) \in 1 .. Len(subs)
          /\ subs[ExpSubOf(a, s, n)].nbr = n
      BY <3>1, <2>4, Zenon DEF ExpSubOf, First, e
    <3> QED  BY <3>2
  <2> QED  BY <2>2, <2>5, <2>6
<1>5. ASSUME e = None  PROVE ExpSubOf(a, s, n) = None
  BY <1>5 DEF ExpSubOf, e
<1>6. ASSUME Expects(a, s, n)
      PROVE  /\ e \in 1 .. Len(a.exp) /\ a.exp[e].nbr = s
             /\ \A m \in 1 .. e - 1 : a.exp[m].nbr # s
             /\ ExpSubOf(a, s, n) \in 1 .. Len(a.exp[e].subs)
             /\ a.exp[e].subs[ExpSubOf(a, s, n)].nbr = n
             /\ s \in SlotNbrs /\ n \in SubNbrs
  <2>1. e \in S  BY <1>3, <1>5, <1>6 DEF Expects
  <2>2. \A m \in 1 .. e - 1 : a.exp[m].nbr # s  BY <2>1, <1>1, <1>3
  <2>3. ExpSubOf(a, s, n) # None  BY <1>6 DEF Expects
  <2>4. a.exp[e] \in ExpModule  BY <2>1, <1>1
  <2> QED  BY <2>1, <2>2, <2>3, <2>4, <1>4 DEF ExpModule, ExpSub
<1>7. ASSUME NEW m \in 1 .. Len(a.exp), NEW x \in Nat, ~Twice(a.exp, m), a.exp[m].nbr = s,
             x \in 1 .. Len(a.exp[m].subs), a.exp[m].subs[x].nbr = n
      PROVE  Expects(a, s, n) /\ e = m
  <2>1. m \in S  BY <1>7
  <2>2. e \in S /\ \A k \in 1 .. e - 1 : k \notin S  BY <2>1, <1>3
  <2>3. e = m
    <3>1. ~(e < m)
      <4>1. ASSUME e < m  PROVE FALSE
        <5>1. e \in 1 .. m - 1 /\ a.exp[e].nbr = a.exp[m].nbr  BY <1>1, <1>7, <2>2, <4>1
        <5> QED  BY <5>1, <1>7 DEF Twice
      <4> QED  BY <4>1
    <3>2. ~(m < e)  BY <2>1, <2>2, <1>1
    <3> QED  BY <3>1, <3>2, <1>1, <2>1, <2>2
  <2>4. ExpSubOf(a, s, n) # None
    BY <1>4, <1>7, <2>2, <2>3 DEF None
  <2> QED  BY <2>3, <2>4 DEF Expects
<1> QED  BY <1>6, <1>7 DEF e

\* The first AR of an order that expects a submodule.
LEMMA FirstOwnerIs ==
  ASSUME NEW o \in Seq(ArEntries), NEW as, NEW s, NEW n
  PROVE  \/ /\ FirstOwner(o, as, s, n) = None
            /\ \A k \in 1 .. Len(o) : ~Expects(as[o[k]], s, n)
         \/ \E k \in 1 .. Len(o) :
              /\ FirstOwner(o, as, s, n) = o[k] /\ o[k] \in ArEntries /\ Expects(as[o[k]], s, n)
              /\ \A l \in 1 .. k - 1 : ~Expects(as[o[l]], s, n)
<1> DEFINE S == {k \in 1 .. Len(o) : Expects(as[o[k]], s, n)}
<1>1. Len(o) \in Nat /\ \A k \in 1 .. Len(o) : o[k] \in ArEntries  BY ElementOfSeq, LenProperties
<1> DEFINE f == First(Len(o), LAMBDA i : Expects(as[o[i]], s, n))
<1>3. FirstOwner(o, as, s, n) = IF f = None THEN None ELSE o[f]
  BY DEF FirstOwner, First
<1>4. ASSUME S = {}  PROVE f = None
  <2>1. ~ \E i \in 1 .. Len(o) : Expects(as[o[i]], s, n)  BY <1>4
  <2> QED  BY <2>1, Zenon DEF First
<1>5. ASSUME S # {}  PROVE f \in S /\ \A k \in 1 .. f - 1 : ~Expects(as[o[k]], s, n)
  <2>1. PICK i \in 1 .. Len(o) : i \in S /\ \A k \in 1 .. i - 1 : k \in 1 .. Len(o) /\ k \notin S
    BY <1>1, <1>5, FirstOne
  <2>3. \E h \in 1 .. Len(o) : /\ Expects(as[o[h]], s, n)
                              /\ \A k \in 1 .. h - 1 : ~Expects(as[o[k]], s, n)
    BY <2>1
  <2>2. /\ f \in 1 .. Len(o) /\ Expects(as[o[f]], s, n)
        /\ \A k \in 1 .. f - 1 : ~Expects(as[o[k]], s, n)
    BY <2>3, Zenon DEF First
  <2> QED  BY <2>2
<1> HIDE DEF f
<1>6. CASE S = {}
  BY <1>3, <1>4, <1>6
<1>7. CASE S # {}
  <2>1. f \in S /\ \A k \in 1 .. f - 1 : ~Expects(as[o[k]], s, n)  BY <1>5, <1>7
  <2>2. f # 0  BY <1>1, <2>1
  <2> QED  BY <1>1, <1>3, <2>1, <2>2 DEF None
<1> QED  BY <1>6, <1>7

-----------------------------------------------------------------------------
(* Plug and pull.                                                          *)

SubType  == [used : BOOLEAN, nbr : SubNbrs \cup {0}, ident : Submodules \cup {None},
             owner : ArEntries \cup {None}]
SlotType == [used : BOOLEAN, nbr : SlotNbrs \cup {0}, ident : Modules \cup {None},
             subs : [Places -> SubType]]
TreeType == [Entries -> SlotType]
ArType   == [used : BOOLEAN, exp : Expectations \cup {<<>>}, plug : Plugsm,
             queue : Seq(SlotNbrs \X SubNbrs)]

\* A number is plugged once.
SlotsOnce(t) == \A i, k \in Entries : t[i].used /\ t[k].used /\ t[i].nbr = t[k].nbr => i = k
SubsOnce(t) ==
  \A i \in Entries : \A j \in Places : \A l \in Places :
    t[i].subs[j].used /\ t[i].subs[l].used /\ t[i].subs[j].nbr = t[i].subs[l].nbr => j = l
\* A slot that is not in use has no submodules in use.
EmptyUnused(t) == \A i \in Entries, j \in Places : t[i].subs[j].used => t[i].used
GoodTree(t) == t \in TreeType /\ SlotsOnce(t) /\ SubsOnce(t) /\ EmptyUnused(t)

\* What is there stays as it is.
Extends(t, u) ==
  \A i \in Entries :
    t[i].used =>
      /\ u[i].used /\ u[i].nbr = t[i].nbr /\ u[i].ident = t[i].ident
      /\ \A j \in Places : t[i].subs[j].used => u[i].subs[j] = t[i].subs[j]

\* A place is as it was, or blank, or has the new submodule.
Fate(t, u, i, j, s, n, ident, w) ==
  \/ u[i].used = t[i].used /\ u[i].nbr = t[i].nbr /\ u[i].ident = t[i].ident
     /\ u[i].subs[j] = t[i].subs[j]
  \/ u[i].subs[j] = BlankSub
  \/ /\ u[i].nbr = s /\ u[i].used /\ ~t[i].subs[j].used
     /\ u[i].subs[j] = [used |-> TRUE, nbr |-> n, ident |-> ident, owner |-> w]
Fates(t, u, s, n, ident, w) ==
  \A i \in Entries, j \in Places : Fate(t, u, i, j, s, n, ident, w)

\* What a new module and a new submodule are entered as.
ModuleAt(t, i, s, m) ==
  [t EXCEPT ![i] = [used |-> TRUE, nbr |-> s, ident |-> m, subs |-> [j \in Places |-> BlankSub]]]
SubIn(slot, j, n, ident, w) ==
  [slot EXCEPT !.subs[j] = [used |-> TRUE, nbr |-> n, ident |-> ident, owner |-> w]]

LEMMA Numbers ==
  /\ MaxSlots \in Nat /\ MaxSubs \in Nat /\ MaxSlots > 0 /\ MaxSubs > 0
  /\ Entries = 1 .. MaxSlots /\ Places = 1 .. MaxSubs
  /\ None \notin Entries /\ None \notin Places /\ None \notin ArEntries
BY TreeAssumption DEF Entries, Places, ArEntries, None

LEMMA PlugModuleIs ==
  ASSUME NEW t, NEW s, NEW m
  PROVE  \/ PlugModule(t, s, m) = t
         \/ /\ Slot(t, s) = None
            /\ \E i \in Entries : ~t[i].used /\ PlugModule(t, s, m) = ModuleAt(t, i, s, m)
<1> DEFINE i == First(MaxSlots, LAMBDA k : ~t[k].used)
           S == {k \in 1 .. MaxSlots : ~t[k].used}
<1>1. CASE S = {}
  <2>1. ~ \E k \in 1 .. MaxSlots : ~t[k].used  BY <1>1
  <2>2. First(MaxSlots, LAMBDA k : ~t[k].used) = None  BY <2>1, Zenon DEF First
  <2> QED  BY <2>2, Zenon DEF PlugModule, NewSlot
<1>2. CASE S # {}
  <2>1. PICK h \in 1 .. MaxSlots :
               h \in S /\ \A k \in 1 .. h - 1 : k \in 1 .. MaxSlots /\ k \notin S
    <3>1. S \in SUBSET (1 .. MaxSlots) /\ MaxSlots \in Nat  BY Numbers
    <3> HIDE DEF S
    <3> QED  BY <3>1, <1>2, FirstOne
  <2>2. \E h2 \in 1 .. MaxSlots : ~t[h2].used /\ \A k \in 1 .. h2 - 1 : ~ ~t[k].used
    BY <2>1
  <2>3. i \in 1 .. MaxSlots /\ ~t[i].used
    BY <2>2, Zenon DEF First
  <2> HIDE DEF i
  <2>4. \/ PlugModule(t, s, m) = t
        \/ Slot(t, s) = None /\ PlugModule(t, s, m) = ModuleAt(t, i, s, m)
    BY Zenon DEF PlugModule, NewSlot, ModuleAt, i
  <2> QED  BY <2>3, <2>4, Numbers
<1> QED  BY <1>1, <1>2

LEMMA NewSubIs ==
  ASSUME NEW slot, NEW n, NEW ident, NEW w
  PROVE  \/ NewSub(slot, n, ident, w) = slot
         \/ /\ Sub(slot, n) = None
            /\ \E j \in Places :
                 ~slot.subs[j].used /\ NewSub(slot, n, ident, w) = SubIn(slot, j, n, ident, w)
<1> DEFINE j == First(MaxSubs, LAMBDA k : ~slot.subs[k].used)
           S == {k \in 1 .. MaxSubs : ~slot.subs[k].used}
<1>1. CASE S = {}
  <2>1. ~ \E k \in 1 .. MaxSubs : ~slot.subs[k].used  BY <1>1
  <2>2. First(MaxSubs, LAMBDA k : ~slot.subs[k].used) = None  BY <2>1, Zenon DEF First
  <2> QED  BY <2>2, Zenon DEF NewSub
<1>2. CASE S # {}
  <2>1. PICK h \in 1 .. MaxSubs :
               h \in S /\ \A k \in 1 .. h - 1 : k \in 1 .. MaxSubs /\ k \notin S
    <3>1. S \in SUBSET (1 .. MaxSubs) /\ MaxSubs \in Nat  BY Numbers
    <3> HIDE DEF S
    <3> QED  BY <3>1, <1>2, FirstOne
  <2>2. \E h2 \in 1 .. MaxSubs : ~slot.subs[h2].used /\ \A k \in 1 .. h2 - 1 : ~ ~slot.subs[k].used
    BY <2>1
  <2>3. j \in 1 .. MaxSubs /\ ~slot.subs[j].used
    BY <2>2, Zenon DEF First
  <2> HIDE DEF j
  <2>4. \/ NewSub(slot, n, ident, w) = slot
        \/ /\ Sub(slot, n) = None
           /\ NewSub(slot, n, ident, w) = SubIn(slot, j, n, ident, w)
    BY Zenon DEF NewSub, SubIn, j
  <2> QED  BY <2>3, <2>4, Numbers
<1> QED  BY <1>1, <1>2

LEMMA PlugModuleGood ==
  ASSUME NEW t, GoodTree(t), NEW s \in SlotNbrs, NEW m \in Modules
  PROVE  /\ GoodTree(PlugModule(t, s, m)) /\ Extends(t, PlugModule(t, s, m))
         /\ \A n, ident, w : Fates(t, PlugModule(t, s, m), s, n, ident, w)
<1> DEFINE u == PlugModule(t, s, m)
<1>1. CASE u = t
  BY <1>1 DEF Extends, Fates, Fate
<1>2. ASSUME Slot(t, s) = None, NEW i \in Entries, ~t[i].used,
             u = ModuleAt(t, i, s, m)
      PROVE  GoodTree(u) /\ Extends(t, u) /\ \A n, ident, w : Fates(t, u, s, n, ident, w)
  <2> HIDE DEF u
  <2> DEFINE b == [used |-> TRUE, nbr |-> s, ident |-> m, subs |-> [j \in Places |-> BlankSub]]
  <2>1. t \in TreeType  BY DEF GoodTree
  <2>2. BlankSub \in SubType /\ ~BlankSub.used  BY DEF BlankSub, SubType, None
  <2>3. b \in SlotType /\ \A j \in Places : b.subs[j] = BlankSub  BY <2>2 DEF SlotType
  <2>4. u[i] = b /\ \A k \in Entries : k # i => u[k] = t[k]
    BY <1>2, <2>1 DEF TreeType, ModuleAt
  <2>5. b.used /\ b.nbr = s /\ b.ident = m  OBVIOUS
  <2> HIDE DEF b
  <2>6. u \in TreeType  BY <1>2, <2>1, <2>3, <2>4 DEF TreeType, ModuleAt
  <2>7. \A k \in Entries : ~(t[k].used /\ t[k].nbr = s)  BY <1>2, SlotIs, Zenon
  <2>8. SlotsOnce(u)  BY <2>4, <2>5, <2>7 DEF SlotsOnce, GoodTree
  <2>9. SubsOnce(u)
    <3>1. SubsOnce(t)  BY DEF GoodTree
    <3> QED  BY <3>1, <2>2, <2>3, <2>4 DEF SubsOnce
  <2>10. EmptyUnused(u)  BY <2>2, <2>3, <2>4, <2>5 DEF EmptyUnused, GoodTree
  <2>11. Extends(t, u)  BY <1>2, <2>4 DEF Extends
  <2>12. \A n, ident, w : Fates(t, u, s, n, ident, w)  BY <2>3, <2>4 DEF Fates, Fate
  <2> QED  BY <2>6, <2>8, <2>9, <2>10, <2>11, <2>12 DEF GoodTree
<1>3. CASE u # t
  <2>1. PICK i \in Entries : Slot(t, s) = None /\ ~t[i].used /\ u = ModuleAt(t, i, s, m)
    BY <1>3, PlugModuleIs, Zenon
  <2> QED  BY <2>1, <1>2, Zenon
<1> QED  BY <1>1, <1>3

LEMMA PlugSubmoduleGood ==
  ASSUME NEW t, GoodTree(t), NEW o \in Seq(ArEntries), NEW as, NEW s \in SlotNbrs, NEW n \in SubNbrs,
         NEW m \in Modules, NEW ident \in Submodules
  PROVE  LET v == PlugSubmodule(t, o, as, s, n, m, ident)
         IN  /\ GoodTree(v) /\ Extends(t, v)
             /\ Fates(t, v, s, n, ident, FirstOwner(o, as, s, n))
<1> DEFINE u == PlugModule(t, s, m)
           i == Slot(u, s)
           w == FirstOwner(o, as, s, n)
           v == PlugSubmodule(t, o, as, s, n, m, ident)
<1>1. GoodTree(u) /\ Extends(t, u) /\ Fates(t, u, s, n, ident, w)  BY PlugModuleGood, Zenon
<1>2. v = IF i = None THEN u ELSE [u EXCEPT ![i] = NewSub(u[i], n, ident, w)]
  BY DEF PlugSubmodule
<1>3. w \in ArEntries \cup {None}
  <2> HIDE DEF w
  <2>1. \/ w = None
        \/ \E k \in 1 .. Len(o) : w = o[k] /\ o[k] \in ArEntries
    BY FirstOwnerIs, Zenon DEF w
  <2> QED  BY <2>1
<1>4. \/ i = None
      \/ i \in Entries /\ u[i].used /\ u[i].nbr = s
  BY SlotIs, Zenon
<1> HIDE DEF u, i, w, v
<1>5. u \in TreeType  BY <1>1 DEF GoodTree
<1>6. CASE v = u
  BY <1>1, <1>6 DEF u, i, w, v
<1>7. ASSUME v # u
      PROVE  GoodTree(v) /\ Extends(t, v) /\ Fates(t, v, s, n, ident, w)
  <2>1. i \in Entries /\ v = [u EXCEPT ![i] = NewSub(u[i], n, ident, w)] /\ u[i].used /\ u[i].nbr = s
    BY <1>2, <1>4, <1>7
  <2>2. NewSub(u[i], n, ident, w) # u[i]  BY <1>5, <1>7, <2>1 DEF TreeType
  <2>a. u[i] \in SlotType /\ u[i].subs \in [Places -> SubType]
    BY <1>5, <2>1 DEF TreeType, SlotType
  <2>b. PICK j \in Places :
               /\ Sub(u[i], n) = None /\ ~u[i].subs[j].used
               /\ NewSub(u[i], n, ident, w) = SubIn(u[i], j, n, ident, w)
    BY <2>2, NewSubIs, Zenon
  <2> DEFINE new == [used |-> TRUE, nbr |-> n, ident |-> ident, owner |-> w]
  <2>3. /\ Sub(u[i], n) = None /\ ~u[i].subs[j].used
        /\ v[i] = [u[i] EXCEPT !.subs[j] = new]
    BY <2>b, <2>1, <1>5 DEF TreeType, SubIn
  <2>4. new \in SubType /\ new.used /\ new.nbr = n /\ new.owner = w /\ new.ident = ident
    BY <1>3 DEF SubType
  <2>c. new = [used |-> TRUE, nbr |-> n, ident |-> ident, owner |-> w]  OBVIOUS
  <2> HIDE DEF new
  <2>5. /\ v[i].used = u[i].used /\ v[i].nbr = u[i].nbr /\ v[i].ident = u[i].ident
        /\ v[i].subs = [u[i].subs EXCEPT ![j] = new]
    BY <2>a, <2>3 DEF SlotType
  <2>d. /\ v[i].subs[j] = new /\ \A l \in Places : l # j => v[i].subs[l] = u[i].subs[l]
        /\ v[i].subs \in [Places -> SubType]
    BY <2>a, <2>5, <2>4
  <2>6. \A k \in Entries : k # i => v[k] = u[k]
    BY <1>5, <2>1 DEF TreeType
  <2>7. v \in TreeType
    <3>1. v[i] \in SlotType
      BY <2>a, <2>3, <2>4 DEF SlotType
    <3>2. v = [u EXCEPT ![i] = v[i]]  BY <1>5, <2>1 DEF TreeType
    <3> QED  BY <1>5, <2>1, <3>1, <3>2 DEF TreeType
  <2>8. \A l \in Places : ~(u[i].subs[l].used /\ u[i].subs[l].nbr = n)
    BY <2>3, SubIs, Zenon
  <2>9. SlotsOnce(v)  BY <1>1, <2>5, <2>d, <2>6 DEF SlotsOnce, GoodTree
  <2>10. SubsOnce(v)
    <3> SUFFICES ASSUME NEW k \in Entries, NEW l \in Places, NEW p \in Places,
                        v[k].subs[l].used, v[k].subs[p].used, v[k].subs[l].nbr = v[k].subs[p].nbr
                 PROVE  l = p
      BY Zenon DEF SubsOnce
    <3>0. SubsOnce(u)  BY <1>1 DEF GoodTree
    <3>1. CASE k # i  BY <3>0, <2>6, <3>1 DEF SubsOnce
    <3>2. CASE k = i
      <4>1. CASE l = j  BY <2>4, <2>5, <2>d, <2>8, <3>2, <4>1
      <4>2. CASE p = j  BY <2>4, <2>5, <2>d, <2>8, <3>2, <4>2
      <4>3. CASE l # j /\ p # j  BY <1>1, <2>5, <2>d, <3>2, <4>3, <2>1 DEF SubsOnce, GoodTree
      <4> QED  BY <4>1, <4>2, <4>3
    <3> QED  BY <3>1, <3>2
  <2>11. EmptyUnused(v)  BY <1>1, <2>1, <2>5, <2>d, <2>6 DEF EmptyUnused, GoodTree
  <2>12. Extends(t, v)
    <3> SUFFICES ASSUME NEW k \in Entries, t[k].used
                 PROVE  /\ v[k].used /\ v[k].nbr = t[k].nbr /\ v[k].ident = t[k].ident
                        /\ \A l \in Places : t[k].subs[l].used => v[k].subs[l] = t[k].subs[l]
      BY DEF Extends
    <3>1. /\ u[k].used /\ u[k].nbr = t[k].nbr /\ u[k].ident = t[k].ident
          /\ \A l \in Places : t[k].subs[l].used => u[k].subs[l] = t[k].subs[l]
      BY <1>1 DEF Extends
    <3>2. CASE k # i  BY <2>6, <3>1, <3>2
    <3>3. CASE k = i  BY <2>3, <2>5, <2>d, <3>1, <3>3
    <3> QED  BY <3>2, <3>3
  <2>13. ~t[i].subs[j].used
    <3>1. t[i].used => (t[i].subs[j].used => u[i].subs[j] = t[i].subs[j])
      BY <1>1, <2>1 DEF Extends
    <3> QED  BY <2>1, <2>3, <3>1 DEF GoodTree, EmptyUnused
  <2>14. Fates(t, v, s, n, ident, w)
    <3> SUFFICES ASSUME NEW k \in Entries, NEW l \in Places
                 PROVE  Fate(t, v, k, l, s, n, ident, w)
      BY DEF Fates
    <3>1. Fate(t, u, k, l, s, n, ident, w)  BY <1>1 DEF Fates
    <3>2. CASE k = i /\ l = j
      BY <2>1, <2>5, <2>d, <2>13, <2>c, <2>4, <3>2 DEF Fate
    <3>3. CASE k = i /\ l # j
      BY <2>5, <2>d, <3>1, <3>3 DEF Fate
    <3>4. CASE k # i
      BY <2>6, <3>1, <3>4 DEF Fate
    <3> QED  BY <3>2, <3>3, <3>4
  <2> QED  BY <2>7, <2>9, <2>10, <2>11, <2>12, <2>14 DEF GoodTree
<1> QED  BY <1>6, <1>7 DEF v, w

-----------------------------------------------------------------------------
(* The inductive invariant.                                                *)

\* The AR that is being connected, when there is one, has a place in the order.
OrderSound ==
  /\ \A k, l \in 1 .. Len(order) : order[k] = order[l] => k = l
  /\ \A k \in 1 .. Len(order) : ars[order[k]].used

\* How far the Connect is: it is at a module and submodule there is, and what
\* was done with is expected once, and taken where it is plugged.
Done(m, x) == m < conn.mod \/ (m = conn.mod /\ x < conn.sub /\ conn.ok)
TakenUp(t) ==
  \A m \in 1 .. Len(Exp) : \A x \in 1 .. Len(Exp[m].subs) : Done(m, x) =>
    \A i \in Entries : \A j \in Places :
      /\ t[i].used /\ t[i].nbr = Exp[m].nbr
      /\ t[i].subs[j].used /\ t[i].subs[j].nbr = Exp[m].subs[x].nbr
      => t[i].subs[j].owner # None
ConnSound ==
  ~NoneConnecting =>
    /\ \E k \in 1 .. Len(order) : order[k] = conn.ar
    /\ ars[conn.ar].queue = <<>> /\ ars[conn.ar].plug = "IDLE"
    /\ conn.mod \in 1 .. Len(Exp) + 1
    /\ conn.sub = 0 => conn.ok
    /\ conn.sub > 0 => /\ conn.mod <= Len(Exp) /\ conn.sub \in 1 .. Len(TheMod.subs)
                       /\ ~Twice(Exp, conn.mod) /\ Slot(tree, TheMod.nbr) # None
    /\ \A m \in 1 .. conn.mod - 1 : ~Twice(Exp, m)
    /\ TakenUp(tree)

\* A connected AR expects no module twice.
ExpectedOnce ==
  \A k \in 1 .. Len(order) : order[k] # conn.ar =>
    \A m \in 1 .. Len(ars[order[k]].exp) : ~Twice(ars[order[k]].exp, m)

\* NoOrphan, of any tree.
Cared(t) ==
  \A i \in Entries : \A j \in Places :
    /\ t[i].used /\ t[i].subs[j].used
    /\ \E k \in 1 .. Len(order) : order[k] # conn.ar
                               /\ Expects(ars[order[k]], t[i].nbr, t[i].subs[j].nbr)
    => t[i].subs[j].owner # None

Types ==
  /\ GoodTree(tree) /\ order \in Seq(ArEntries) /\ ars \in [ArEntries -> ArType]
  /\ conn \in [ar : ArEntries \cup {None}, mod : Nat, sub : Nat, ok : BOOLEAN]

\* Of two ARs only the first has releases to tell, and nothing that it
\* expects is the other's: it has been told of all there is.
Heard(t) ==
  \A b \in ArEntries : ars[b].queue # <<>> =>
    /\ Len(order) > 0 /\ order[1] = b
    /\ \A i \in Entries : \A j \in Places :
         t[i].subs[j].owner \notin {None, b}
           => ~Expects(ars[b], t[i].nbr, t[i].subs[j].nbr)

TreeInv ==
  /\ Types /\ OrderSound /\ ConnSound /\ ExpectedOnce /\ Cared(tree) /\ NoneForgotten
  /\ \A a \in ArEntries : Len(ars[a].queue) <= MaxSlots * MaxSubs
  /\ MaxAr <= 2 => Heard(tree)

\* The steps of the action properties.
LiveStep ==
  \/ ~NoneConnecting /\ conn' = NoConn /\ ~ars'[conn.ar].used
  \/ Astray(tree', ars') \subseteq Astray(tree, ars)
ServedStep ==
  \A i \in Entries, j \in Places :
    LET b == tree[i].subs[j].owner IN
    /\ b # None /\ tree[i].used /\ tree[i].subs[j].used
    /\ tree'[i].used /\ tree'[i].subs[j].used /\ ars[b].used
    /\ ars'[b].used
    => tree'[i].subs[j].owner = b
HandedStep ==
  \A i \in Entries, j \in Places :
    Bequeathed(i, j) => Told(i, j) \/ (MaxAr > 2 /\ Full(ars'[NewOwner(i, j)]))

-----------------------------------------------------------------------------
(* Lemmas about the operators.                                             *)

\* What an AR expects is a matter of its expected modules alone.
LEMMA SameExpected ==
  ASSUME NEW a, NEW b, a.exp = b.exp, NEW s, NEW n
  PROVE  Expects(a, s, n) = Expects(b, s, n)
<1>1. ExpMod(a, s) = ExpMod(b, s)  BY DEF ExpMod, First
<1>2. ExpSubOf(a, s, n) = ExpSubOf(b, s, n)  BY <1>1 DEF ExpSubOf, First
<1> QED  BY <1>2 DEF Expects

LEMMA SameAsExpected ==
  ASSUME NEW a, NEW b, a.exp = b.exp, NEW slot, NEW sub
  PROVE  AsExpected(a, slot, sub) = AsExpected(b, slot, sub)
<1>1. ExpMod(a, slot.nbr) = ExpMod(b, slot.nbr)  BY DEF ExpMod, First
<1>2. ExpSubOf(a, slot.nbr, sub.nbr) = ExpSubOf(b, slot.nbr, sub.nbr)
  BY <1>1 DEF ExpSubOf, First
<1> QED  BY <1>1, <1>2 DEF AsExpected, ExpIdent

\* NoOrphan says of the tree what Cared says.
LEMMA NoOrphanIs == NoOrphan <=> Cared(tree)
BY Zenon DEF NoOrphan, Cared

\* An order without an AR has the other ARs, in the same order.
LEMMA WithoutIs ==
  ASSUME order \in Seq(ArEntries), NEW a,
         \A k, l \in 1 .. Len(order) : order[k] = order[l] => k = l
  PROVE  LET w == Without(a)
         IN  /\ w \in Seq(ArEntries) /\ Len(w) <= Len(order)
             /\ (\E k \in 1 .. Len(order) : order[k] = a) => Len(w) = Len(order) - 1
             /\ \A k \in 1 .. Len(w) : w[k] # a /\ \E l \in 1 .. Len(order) : order[l] = w[k]
             /\ \A k, l \in 1 .. Len(w) : w[k] = w[l] => k = l
             /\ \A l \in 1 .. Len(order) : order[l] # a => \E k \in 1 .. Len(w) : w[k] = order[l]
             /\ Len(order) > 0 /\ order[1] # a => Len(w) > 0 /\ w[1] = order[1]
<1> DEFINE S == {i \in 1 .. Len(order) : order[i] = a}
           f == First(Len(order), LAMBDA i : order[i] = a)
           w == Without(a)
<1>1. Len(order) \in Nat /\ order \in [1 .. Len(order) -> ArEntries]
      /\ \A k \in 1 .. Len(order) : order[k] \in ArEntries
  BY ElementOfSeq, LenProperties
<1>2. w = IF f = None THEN order
          ELSE [i \in 1 .. Len(order) - 1 |-> IF i < f THEN order[i] ELSE order[i + 1]]
  BY DEF Without, First
<1>3. CASE S = {}
  <2>1. ~ \E i \in 1 .. Len(order) : order[i] = a  BY <1>3
  <2>2. f = None  BY <2>1, Zenon DEF First
  <2>3. w = order  BY <1>2, <2>2
  <2> HIDE DEF w
  <2>4. \A k, l \in 1 .. Len(w) : w[k] = w[l] => k = l  BY <2>3
  <2>5. \A k \in 1 .. Len(w) : w[k] # a /\ \E l \in 1 .. Len(order) : order[l] = w[k]
    BY <2>1, <2>3
  <2>6. \A l \in 1 .. Len(order) : order[l] # a => \E k \in 1 .. Len(w) : w[k] = order[l]
    BY <2>3
  <2>7. w \in Seq(ArEntries) /\ Len(w) <= Len(order) /\ (Len(order) > 0 => Len(w) > 0 /\ w[1] = order[1])
    BY <1>1, <2>3
  <2> QED  BY <2>1, <2>4, <2>5, <2>6, <2>7 DEF w
<1>4. CASE S # {}
  <2>1. PICK x \in 1 .. Len(order) :
               x \in S /\ \A k \in 1 .. x - 1 : k \in 1 .. Len(order) /\ k \notin S
    <3>1. S \in SUBSET (1 .. Len(order)) /\ Len(order) \in Nat  BY <1>1
    <3> HIDE DEF S
    <3> QED  BY <3>1, <1>4, FirstOne
  <2>2. \E h \in 1 .. Len(order) : order[h] = a /\ \A k \in 1 .. h - 1 : ~(order[k] = a)
    BY <2>1
  <2>3. f \in 1 .. Len(order) /\ order[f] = a
    BY <2>2, Zenon DEF First
  <2> HIDE DEF f
  <2>4. w = [i \in 1 .. Len(order) - 1 |-> IF i < f THEN order[i] ELSE order[i + 1]]
    BY <1>1, <1>2, <2>3 DEF None
  <2> HIDE DEF w
  <2>5. w \in [1 .. Len(order) - 1 -> ArEntries] /\ Len(order) - 1 \in Nat
    BY <1>1, <2>3, <2>4
  <2>6. w \in Seq(ArEntries) /\ Len(w) = Len(order) - 1
    <3>1. w \in Seq(ArEntries)  BY <2>5, SeqDef
    <3> QED  BY <2>5, <3>1, LenProperties
  <2>7. \A k \in 1 .. Len(w) : w[k] = IF k < f THEN order[k] ELSE order[k + 1]
    BY <2>4, <2>6
  <2>8. \A k \in 1 .. Len(order) : order[k] = a => k = f
    BY <2>3
  <2>9. \A k \in 1 .. Len(w) : w[k] # a /\ \E l \in 1 .. Len(order) : order[l] = w[k]
    BY <1>1, <2>3, <2>6, <2>7, <2>8
  <2>10. ASSUME NEW k \in 1 .. Len(w), NEW l \in 1 .. Len(w), w[k] = w[l]  PROVE k = l
    <3> DEFINE p(x1) == IF x1 < f THEN x1 ELSE x1 + 1
    <3>1. p(k) \in 1 .. Len(order) /\ p(l) \in 1 .. Len(order)  BY <1>1, <2>3, <2>6
    <3>2. order[p(k)] = order[p(l)]  BY <2>7, <2>10
    <3>3. p(k) = p(l)  BY <3>1, <3>2
    <3> QED  BY <3>3, <1>1, <2>3, <2>6
  <2>11. ASSUME NEW l \in 1 .. Len(order), order[l] # a
         PROVE  \E k \in 1 .. Len(w) : w[k] = order[l]
    <3>1. CASE l < f  BY <1>1, <2>3, <2>6, <2>7, <3>1
    <3>2. CASE l > f
      <4>1. l - 1 \in 1 .. Len(w) /\ ~(l - 1 < f) /\ (l - 1) + 1 = l
        BY <1>1, <2>3, <2>6, <3>2
      <4> QED  BY <4>1, <2>7
    <3> QED  BY <1>1, <2>3, <2>11, <3>1, <3>2
  <2>12. ASSUME Len(order) > 0, order[1] # a  PROVE Len(w) > 0 /\ w[1] = order[1]
    <3>1. 1 < f /\ Len(order) > 1  BY <1>1, <2>3, <2>12
    <3> QED  BY <1>1, <2>6, <2>7, <3>1
  <2> QED  BY <1>1, <2>6, <2>9, <2>10, <2>11, <2>12 DEF w
<1> QED  BY <1>3, <1>4

-----------------------------------------------------------------------------
(* Trees that differ in owners, and trees something was pulled from.       *)

SameButOwners(t, v) ==
  /\ v \in TreeType
  /\ \A i \in Entries :
       /\ v[i].used = t[i].used /\ v[i].nbr = t[i].nbr /\ v[i].ident = t[i].ident
       /\ \A j \in Places :
            /\ v[i].subs[j].used = t[i].subs[j].used /\ v[i].subs[j].nbr = t[i].subs[j].nbr
            /\ v[i].subs[j].ident = t[i].subs[j].ident

Shrunk(t, v) ==
  /\ v \in TreeType /\ EmptyUnused(v)
  /\ \A i \in Entries :
       /\ v[i].nbr = t[i].nbr /\ (v[i].used => t[i].used)
       /\ \A j \in Places :
            /\ v[i].subs[j].used => t[i].subs[j].used
            /\ v[i].subs[j].nbr = t[i].subs[j].nbr
            /\ v[i].subs[j].owner = t[i].subs[j].owner

LEMMA OwnersGood ==
  ASSUME NEW t, NEW v, GoodTree(t), SameButOwners(t, v)
  PROVE  GoodTree(v)
<1>1. SlotsOnce(v)  BY DEF GoodTree, SlotsOnce, SameButOwners
<1>2. SubsOnce(v)
  <2>1. SubsOnce(t)  BY DEF GoodTree
  <2> QED  BY <2>1 DEF SubsOnce, SameButOwners
<1>3. EmptyUnused(v)  BY DEF GoodTree, EmptyUnused, SameButOwners
<1> QED  BY <1>1, <1>2, <1>3 DEF GoodTree, SameButOwners

LEMMA ShrunkGood ==
  ASSUME NEW t, NEW v, GoodTree(t), Shrunk(t, v)
  PROVE  GoodTree(v)
<1>1. SlotsOnce(v)  BY DEF GoodTree, SlotsOnce, Shrunk
<1>2. SubsOnce(v)
  <2>1. SubsOnce(t)  BY DEF GoodTree
  <2> QED  BY <2>1 DEF SubsOnce, Shrunk
<1> QED  BY <1>1, <1>2 DEF GoodTree, Shrunk

GivenTo(t, i, j, w) == [t EXCEPT ![i].subs[j].owner = w]
SameButAt(t, v, i, j, w) ==
  /\ SameButOwners(t, v) /\ v[i].subs[j].owner = w
  /\ \A k \in Entries : \A l \in Places : k # i \/ l # j => v[k].subs[l] = t[k].subs[l]
LEMMA TakenTree ==
  ASSUME NEW t, GoodTree(t), NEW i \in Entries, NEW j \in Places, NEW w \in ArEntries
  PROVE  SameButAt(t, GivenTo(t, i, j, w), i, j, w)
<1> DEFINE v == GivenTo(t, i, j, w)
<1>1. t \in TreeType /\ t[i] \in SlotType /\ t[i].subs \in [Places -> SubType]
      /\ t[i].subs[j] \in SubType
  BY DEF GoodTree, TreeType, SlotType
<1>2. /\ v[i] = [t[i] EXCEPT !.subs = [t[i].subs EXCEPT ![j] = [t[i].subs[j] EXCEPT !.owner = w]]]
      /\ \A k \in Entries : k # i => v[k] = t[k]
  BY <1>1 DEF TreeType, GivenTo
<1> DEFINE new == [t[i].subs[j] EXCEPT !.owner = w]
           subs == [t[i].subs EXCEPT ![j] = new]
<1>3. new \in SubType /\ new.owner = w /\ new.used = t[i].subs[j].used
      /\ new.nbr = t[i].subs[j].nbr /\ new.ident = t[i].subs[j].ident
  BY <1>1 DEF SubType
<1>4. subs \in [Places -> SubType] /\ subs[j] = new
      /\ \A l \in Places : l # j => subs[l] = t[i].subs[l]
  <2> HIDE DEF new
  <2> QED  BY <1>1, <1>3
<1>5. v[i] = [t[i] EXCEPT !.subs = subs]  BY <1>2
<1> HIDE DEF new, subs
<1>6. v[i] \in SlotType /\ v[i].subs = subs /\ v[i].used = t[i].used /\ v[i].nbr = t[i].nbr
      /\ v[i].ident = t[i].ident
  BY <1>1, <1>4, <1>5 DEF SlotType
<1>7. v = [t EXCEPT ![i] = v[i]]  BY <1>1, <1>2 DEF TreeType, GivenTo
<1> HIDE DEF v
<1>8. v \in TreeType  BY <1>1, <1>6, <1>7 DEF TreeType
<1>9. SameButOwners(t, v)
  <2>1. ASSUME NEW k \in Entries
        PROVE  /\ v[k].used = t[k].used /\ v[k].nbr = t[k].nbr /\ v[k].ident = t[k].ident
               /\ \A l \in Places :
                    /\ v[k].subs[l].used = t[k].subs[l].used /\ v[k].subs[l].nbr = t[k].subs[l].nbr
                    /\ v[k].subs[l].ident = t[k].subs[l].ident
    <3>1. CASE k # i  BY <1>2, <3>1
    <3>2. CASE k = i  BY <1>3, <1>4, <1>6, <3>2
    <3> QED  BY <3>1, <3>2
  <2> QED  BY <1>8, <2>1 DEF SameButOwners
<1>10. \A k \in Entries : \A l \in Places : k # i \/ l # j => v[k].subs[l] = t[k].subs[l]
  BY <1>2, <1>4, <1>6
<1>11. v[i].subs[j].owner = w  BY <1>3, <1>4, <1>6
<1> QED  BY <1>9, <1>10, <1>11 DEF v, SameButAt

LEMMA ClearedTree ==
  ASSUME GoodTree(tree), NEW a, NEW o \in Seq(ArEntries)
  PROVE  /\ SameButOwners(tree, Cleared(a, o))
         /\ \A i \in Entries : \A j \in Places :
              Cleared(a, o)[i].subs[j].owner =
                IF tree[i].subs[j].owner # a THEN tree[i].subs[j].owner
                ELSE FirstOwner(o, ars, tree[i].nbr, tree[i].subs[j].nbr)
<1> DEFINE c(i, j) == LET sub == tree[i].subs[j] IN
                      IF sub.owner # a THEN sub
                      ELSE [sub EXCEPT !.owner = FirstOwner(o, ars, tree[i].nbr, sub.nbr)]
           v == Cleared(a, o)
<1>1. \A i \in Entries : tree[i] \in SlotType /\ \A j \in Places : tree[i].subs[j] \in SubType
  BY DEF GoodTree, TreeType, SlotType
<1>2. \A i \in Entries : v[i] = [tree[i] EXCEPT !.subs = [j \in Places |-> c(i, j)]]
  BY DEF Cleared
<1>3. ASSUME NEW i \in Entries, NEW j \in Places
      PROVE  /\ c(i, j) \in SubType
             /\ c(i, j).used = tree[i].subs[j].used /\ c(i, j).nbr = tree[i].subs[j].nbr
             /\ c(i, j).ident = tree[i].subs[j].ident
             /\ c(i, j).owner =
                  IF tree[i].subs[j].owner # a THEN tree[i].subs[j].owner
                  ELSE FirstOwner(o, ars, tree[i].nbr, tree[i].subs[j].nbr)
  <2> DEFINE sub == tree[i].subs[j]
             w == FirstOwner(o, ars, tree[i].nbr, sub.nbr)
  <2>1. sub \in SubType  BY <1>1
  <2>2. w \in ArEntries \cup {None}
    <3> HIDE DEF w
    <3>1. \/ w = None
          \/ \E k \in 1 .. Len(o) : w = o[k] /\ o[k] \in ArEntries
      BY FirstOwnerIs, Zenon DEF w
    <3> QED  BY <3>1
  <2>3. c(i, j) = IF sub.owner # a THEN sub ELSE [sub EXCEPT !.owner = w]  OBVIOUS
  <2> HIDE DEF w, c, sub
  <2>4. /\ c(i, j) \in SubType /\ c(i, j).used = sub.used /\ c(i, j).nbr = sub.nbr
        /\ c(i, j).ident = sub.ident
        /\ c(i, j).owner = IF sub.owner # a THEN sub.owner ELSE w
    BY <2>1, <2>2, <2>3 DEF SubType
  <2> QED  BY <2>4 DEF w, sub
<1> HIDE DEF c
<1>4. \A i \in Entries : /\ v[i] \in SlotType /\ v[i].used = tree[i].used /\ v[i].nbr = tree[i].nbr
                         /\ v[i].ident = tree[i].ident
                         /\ \A j \in Places : v[i].subs[j] = c(i, j)
  <2> SUFFICES ASSUME NEW i \in Entries
               PROVE  /\ v[i] \in SlotType /\ v[i].used = tree[i].used /\ v[i].nbr = tree[i].nbr
                      /\ v[i].ident = tree[i].ident
                      /\ \A j \in Places : v[i].subs[j] = c(i, j)
    OBVIOUS
  <2> DEFINE f == [j \in Places |-> c(i, j)]
  <2>1. f \in [Places -> SubType] /\ \A j \in Places : f[j] = c(i, j)  BY <1>3
  <2>2. v[i] = [tree[i] EXCEPT !.subs = f]  BY <1>2
  <2> HIDE DEF f, v
  <2> QED  BY <1>1, <2>1, <2>2 DEF SlotType
<1>5. v \in TreeType
  <2>1. v = [i \in Entries |-> v[i]]  BY DEF Cleared
  <2> HIDE DEF v
  <2> QED  BY <1>4, <2>1 DEF TreeType
<1> HIDE DEF v
<1>6. SameButOwners(tree, v)  BY <1>3, <1>4, <1>5 DEF SameButOwners
<1>7. \A i \in Entries : \A j \in Places :
        v[i].subs[j].owner = IF tree[i].subs[j].owner # a THEN tree[i].subs[j].owner
                             ELSE FirstOwner(o, ars, tree[i].nbr, tree[i].subs[j].nbr)
  BY <1>3, <1>4
<1> QED  BY <1>6, <1>7 DEF v

LEMMA PullSubShrinks ==
  ASSUME NEW t, GoodTree(t), NEW i \in Entries, NEW j \in Places
  PROVE  Shrunk(t, PullSub(t, i, j))
<1> DEFINE v == PullSub(t, i, j)
           new == [t[i].subs[j] EXCEPT !.used = FALSE]
           subs == [t[i].subs EXCEPT ![j] = new]
<1>1. t \in TreeType /\ t[i] \in SlotType /\ t[i].subs \in [Places -> SubType]
      /\ t[i].subs[j] \in SubType
  BY DEF GoodTree, TreeType, SlotType
<1>2. /\ v[i] = [t[i] EXCEPT !.subs = subs]
      /\ \A k \in Entries : k # i => v[k] = t[k]
      /\ v = [t EXCEPT ![i] = v[i]]
  BY <1>1 DEF TreeType, PullSub
<1>3. new \in SubType /\ new.owner = t[i].subs[j].owner /\ ~new.used /\ new.nbr = t[i].subs[j].nbr
  BY <1>1 DEF SubType
<1> HIDE DEF new, v
<1>4. subs \in [Places -> SubType] /\ subs[j] = new
      /\ \A l \in Places : l # j => subs[l] = t[i].subs[l]
  BY <1>1, <1>3
<1> HIDE DEF subs
<1>5. v[i] \in SlotType /\ v[i].subs = subs /\ v[i].used = t[i].used /\ v[i].nbr = t[i].nbr
  BY <1>1, <1>2, <1>4 DEF SlotType
<1>6. v \in TreeType  BY <1>1, <1>2, <1>5 DEF TreeType
<1>7. \A k \in Entries :
       /\ v[k].nbr = t[k].nbr /\ v[k].used = t[k].used
       /\ \A l \in Places :
            /\ v[k].subs[l].used => t[k].subs[l].used
            /\ v[k].subs[l].nbr = t[k].subs[l].nbr
            /\ v[k].subs[l].owner = t[k].subs[l].owner
  BY <1>2, <1>3, <1>4, <1>5
<1>8. EmptyUnused(v)  BY <1>7 DEF GoodTree, EmptyUnused
<1> QED  BY <1>6, <1>7, <1>8 DEF Shrunk, v

LEMMA PullModuleShrinks ==
  ASSUME NEW t, GoodTree(t), NEW i \in Entries, t[i].used, NEW sent
  PROVE  Shrunk(t, PullModule(t, i, sent))
<1> DEFINE v == PullModule(t, i, sent)
           bad == First(MaxSubs, LAMBDA j : t[i].subs[j].used /\ j \notin sent)
           cut == IF bad = None THEN MaxSubs ELSE bad
           new(j) == [t[i].subs[j] EXCEPT !.used = @ /\ j > cut]
           subs == [j \in Places |-> new(j)]
<1>1. t \in TreeType /\ t[i] \in SlotType /\ t[i].subs \in [Places -> SubType]
      /\ \A j \in Places : t[i].subs[j] \in SubType
  BY DEF GoodTree, TreeType, SlotType
<1>2. v = [t EXCEPT ![i].subs = subs, ![i].used = (bad # None)]
  BY DEF PullModule
<1>3. ASSUME bad = None  PROVE cut = MaxSubs
  BY <1>3
<1> HIDE DEF v, cut
<1>4. \A j \in Places : new(j) \in SubType /\ new(j).owner = t[i].subs[j].owner
                        /\ (new(j).used <=> t[i].subs[j].used /\ j > cut) /\ new(j).nbr = t[i].subs[j].nbr
  <2> SUFFICES ASSUME NEW j \in Places
               PROVE  /\ new(j) \in SubType /\ new(j).owner = t[i].subs[j].owner
                      /\ (new(j).used <=> t[i].subs[j].used /\ j > cut)
                      /\ new(j).nbr = t[i].subs[j].nbr
    OBVIOUS
  <2> DEFINE b == t[i].subs[j].used /\ j > cut
  <2>1. t[i].subs[j] \in SubType  BY <1>1
  <2>2. b \in BOOLEAN  OBVIOUS
  <2>3. new(j) = [t[i].subs[j] EXCEPT !.used = b]  OBVIOUS
  <2> HIDE DEF b, new
  <2>4. /\ new(j) \in SubType /\ new(j).owner = t[i].subs[j].owner /\ new(j).used = b
        /\ new(j).nbr = t[i].subs[j].nbr
    BY <2>1, <2>2, <2>3 DEF SubType
  <2> QED  BY <2>4 DEF b
<1> HIDE DEF new
<1>5. subs \in [Places -> SubType] /\ \A j \in Places : subs[j] = new(j)  BY <1>4
<1> DEFINE some == bad # None
<1>6. some \in BOOLEAN  OBVIOUS
<1>7. v = [t EXCEPT ![i].subs = subs, ![i].used = some]  BY <1>2
<1>8. ~some => cut = MaxSubs  BY <1>3
<1> HIDE DEF subs, bad, some
<1>9. /\ v[i] = [[t[i] EXCEPT !.subs = subs] EXCEPT !.used = some]
      /\ \A k \in Entries : k # i => v[k] = t[k]
      /\ v = [t EXCEPT ![i] = v[i]]
  <2> DEFINE u == [t EXCEPT ![i].subs = subs]
  <2>1. u[i] = [t[i] EXCEPT !.subs = subs] /\ u \in [Entries -> SlotType]
        /\ \A k \in Entries : k # i => u[k] = t[k]
    <3>1. [t[i] EXCEPT !.subs = subs] \in SlotType  BY <1>1, <1>5 DEF SlotType
    <3> QED  BY <1>1, <3>1 DEF TreeType
  <2>2. v = [u EXCEPT ![i] = [u[i] EXCEPT !.used = some]]  BY <1>7
  <2>3. u = [t EXCEPT ![i] = u[i]]  BY <1>1, <2>1 DEF TreeType
  <2> HIDE DEF u
  <2>4. v[i] = [u[i] EXCEPT !.used = some] /\ \A k \in Entries : k # i => v[k] = t[k]
    BY <2>1, <2>2
  <2>5. v = [t EXCEPT ![i] = v[i]]
    <3> DEFINE e == [u[i] EXCEPT !.used = some]
    <3>1. v = [u EXCEPT ![i] = e]  BY <2>2
    <3>2. v[i] = e  BY <2>4
    <3> HIDE DEF e
    <3> QED  BY <1>1, <2>1, <2>3, <3>1, <3>2 DEF TreeType
  <2> QED  BY <2>1, <2>4, <2>5
<1>10. v[i] \in SlotType /\ v[i].subs = subs /\ v[i].used = some /\ v[i].nbr = t[i].nbr
  BY <1>1, <1>5, <1>6, <1>9 DEF SlotType
<1>11. v \in TreeType  BY <1>1, <1>9, <1>10 DEF TreeType
<1>12. \A k \in Entries :
       /\ v[k].nbr = t[k].nbr /\ (v[k].used => t[k].used)
       /\ \A l \in Places :
            /\ v[k].subs[l].used => t[k].subs[l].used
            /\ v[k].subs[l].nbr = t[k].subs[l].nbr
            /\ v[k].subs[l].owner = t[k].subs[l].owner
  <2> SUFFICES ASSUME NEW k \in Entries
               PROVE  /\ v[k].nbr = t[k].nbr /\ (v[k].used => t[k].used)
                      /\ \A l \in Places :
                           /\ v[k].subs[l].used => t[k].subs[l].used
                           /\ v[k].subs[l].nbr = t[k].subs[l].nbr
                           /\ v[k].subs[l].owner = t[k].subs[l].owner
    OBVIOUS
  <2>1. CASE k # i  BY <1>9, <2>1
  <2>2. CASE k = i  BY <1>4, <1>5, <1>10, <2>2
  <2> QED  BY <2>1, <2>2
<1>13. EmptyUnused(v)
  <2>1. \A l \in Places : v[i].subs[l].used => v[i].used
    <3> SUFFICES ASSUME NEW l \in Places, v[i].subs[l].used, ~some  PROVE FALSE
      BY <1>10
    <3>1. l > cut  BY <1>4, <1>5, <1>10
    <3> QED  BY <3>1, <1>8, Numbers
  <2>2. \A k \in Entries : \A l \in Places : k # i /\ v[k].subs[l].used => v[k].used
    BY <1>9 DEF GoodTree, EmptyUnused
  <2> QED  BY <2>1, <2>2 DEF EmptyUnused
<1> QED  BY <1>11, <1>12, <1>13 DEF Shrunk, v

-----------------------------------------------------------------------------
(* What is announced.                                                      *)

\* The entries of a slot are all appended, each to what is there before it.
Known(i, places, V) == \A j \in places : <<tree[i].nbr, tree[i].subs[j].nbr>> \in V
Longer(r, queue, i, places, V) ==
  /\ r \in Seq(V) /\ Len(queue) <= Len(r) /\ Len(r) <= Len(queue) + MaxSubs
  /\ \A k \in 1 .. Len(queue) : r[k] = queue[k]
  /\ \A j \in places : \E k \in 1 .. Len(r) : r[k] = <<tree[i].nbr, tree[i].subs[j].nbr>>
  /\ Len(r) > Len(queue) => places # {}
LEMMA EnteredIs ==
  ASSUME NEW V, NEW queue \in Seq(V), NEW i \in Entries, NEW places \in SUBSET Places,
         Known(i, places, V)
  PROVE  Longer(Entered(queue, i, places), queue, i, places, V)
<1> DEFINE e(j) == <<tree[i].nbr, tree[i].subs[j].nbr>>
           q == CHOOSE q : q = [j \in 0 .. MaxSubs |->
                  IF j = 0 THEN queue
                  ELSE IF j \in places THEN Append(q[j - 1], e(j)) ELSE q[j - 1]]
<1>1. Entered(queue, i, places) = q[MaxSubs]  BY DEF Entered
<1>2. MaxSubs \in Nat /\ Places = 1 .. MaxSubs  BY Numbers
<1> HIDE DEF e
<1>3. \A j \in places : e(j) \in V  BY DEF e, Known
<1>4. q = [j \in 0 .. MaxSubs |->
             IF j = 0 THEN queue
             ELSE IF j \in places THEN Append(q[j - 1], e(j)) ELSE q[j - 1]]
  <2> DEFINE step == [j \in 1 .. MaxSubs |-> [x \in Seq(V) |->
                       IF j \in places THEN Append(x, e(j)) ELSE x]]
  <2>1. StepsWithin(step, MaxSubs, Seq(V))  BY <1>3 DEF StepsWithin
  <2>2. PICK g : RunOf(g, step, MaxSubs, Seq(V), queue)
    <3> HIDE DEF step
    <3> QED  BY <1>2, <2>1, Iteration, Zenon
  <2>3. /\ g \in [0 .. MaxSubs -> Seq(V)] /\ g[0] = queue
        /\ \A k \in 1 .. MaxSubs : g[k] = step[k][g[k - 1]]
    BY <2>2, Zenon DEF RunOf
  <2>4. \A k \in 1 .. MaxSubs : k - 1 \in 0 .. MaxSubs /\ g[k - 1] \in Seq(V)  BY <1>2, <2>3
  <2>5. \A k \in 1 .. MaxSubs :
          g[k] = IF k \in places THEN Append(g[k - 1], e(k)) ELSE g[k - 1]
    BY <2>3, <2>4
  <2>6. g = [j \in 0 .. MaxSubs |->
             IF j = 0 THEN queue
             ELSE IF j \in places THEN Append(g[j - 1], e(j)) ELSE g[j - 1]]
    <3>1. \A j \in 0 .. MaxSubs : g[j] = IF j = 0 THEN queue
             ELSE IF j \in places THEN Append(g[j - 1], e(j)) ELSE g[j - 1]
      <4> SUFFICES ASSUME NEW j \in 0 .. MaxSubs
                   PROVE  g[j] = IF j = 0 THEN queue
                                 ELSE IF j \in places THEN Append(g[j - 1], e(j)) ELSE g[j - 1]
        OBVIOUS
      <4>1. CASE j = 0  BY <2>3, <4>1
      <4>2. CASE j \in 1 .. MaxSubs
        <5>1. j # 0  BY <4>2
        <5> QED  BY <2>5, <4>2, <5>1, Zenon
      <4> QED  BY <1>2, <4>1, <4>2
    <3>2. g = [j \in 0 .. MaxSubs |-> g[j]]  BY <2>3
    <3> QED  BY <3>1, <3>2
  <2>7. \E h : h = [j \in 0 .. MaxSubs |->
             IF j = 0 THEN queue
             ELSE IF j \in places THEN Append(h[j - 1], e(j)) ELSE h[j - 1]]
    BY <2>6, Zenon
  <2> QED  BY <2>7, Zenon
<1> HIDE DEF q
<1> DEFINE P(j) == /\ q[j] \in Seq(V) /\ Len(queue) <= Len(q[j]) /\ Len(q[j]) <= Len(queue) + j
                   /\ \A k \in 1 .. Len(queue) : q[j][k] = queue[k]
                   /\ \A l \in places : l <= j => \E k \in 1 .. Len(q[j]) : q[j][k] = e(l)
                   /\ Len(q[j]) > Len(queue) => places # {}
           S == {j \in 0 .. MaxSubs : P(j)}
<1>5. 0 \in S
  <2>1. q[0] = queue  BY <1>2, <1>4
  <2>2. Len(queue) \in Nat  BY LenProperties
  <2>3. \A l \in places : ~(l <= 0)  BY <1>2
  <2> QED  BY <1>2, <2>1, <2>2, <2>3
<1>6. ASSUME NEW m \in 0 .. MaxSubs - 1, m \in S  PROVE m + 1 \in S
  <2>1. P(m)  BY <1>6
  <2>2. q[m + 1] = IF m + 1 \in places THEN Append(q[m], e(m + 1)) ELSE q[m]
    <3>1. m + 1 \in 0 .. MaxSubs /\ m + 1 # 0 /\ (m + 1) - 1 = m  BY <1>2
    <3>2. \A j \in 0 .. MaxSubs :
            q[j] = IF j = 0 THEN queue
                   ELSE IF j \in places THEN Append(q[j - 1], e(j)) ELSE q[j - 1]
      BY <1>4, Zenon
    <3>3. q[m + 1] = IF m + 1 \in places THEN Append(q[(m + 1) - 1], e(m + 1)) ELSE q[(m + 1) - 1]
      BY <3>1, <3>2
    <3> QED  BY <3>1, <3>3
  <2>3. Len(queue) \in Nat /\ Len(q[m]) \in Nat  BY <2>1, LenProperties
  <2>4. m + 1 \in 0 .. MaxSubs  BY <1>2
  <2> HIDE DEF S
  <2>5. CASE m + 1 \in places
    <3>1. e(m + 1) \in V  BY <1>3, <2>5
    <3>2. /\ q[m + 1] \in Seq(V) /\ Len(q[m + 1]) = Len(q[m]) + 1
          /\ \A k \in 1 .. Len(q[m]) : q[m + 1][k] = q[m][k]
          /\ q[m + 1][Len(q[m]) + 1] = e(m + 1)
      BY <2>1, <2>2, <2>5, <3>1, AppendProperties
    <3>3. ASSUME NEW l \in places, l <= m + 1
          PROVE  \E k \in 1 .. Len(q[m + 1]) : q[m + 1][k] = e(l)
      <4>1. CASE l = m + 1  BY <2>3, <3>2, <4>1
      <4>2. CASE l <= m  BY <2>1, <2>3, <3>2, <4>2
      <4> QED  BY <1>2, <3>3, <4>1, <4>2
    <3>4. P(m + 1)
      <4>1. \A k \in 1 .. Len(queue) : q[m + 1][k] = queue[k]  BY <2>1, <2>3, <3>2
      <4> QED  BY <2>1, <2>3, <2>5, <3>2, <3>3, <4>1
    <3> QED  BY <2>4, <3>4 DEF S
  <2>6. CASE m + 1 \notin places
    <3>1. q[m + 1] = q[m]  BY <2>2, <2>6
    <3>2. \A l \in places : l <= m + 1 => l <= m  BY <1>2, <2>6
    <3>3. P(m + 1)  BY <2>1, <2>3, <3>1, <3>2
    <3> QED  BY <2>4, <3>3 DEF S
  <2> QED  BY <2>5, <2>6
<1>7. MaxSubs \in S
  <2> HIDE DEF S
  <2>1. 0 .. MaxSubs \subseteq S  BY <1>2, <1>5, <1>6, UpTo
  <2> QED  BY <1>2, <2>1
<1>8. P(MaxSubs)  BY <1>7
<1>9. \A l \in places : l <= MaxSubs  BY <1>2
<1> QED  BY <1>1, <1>8, <1>9 DEF e, Longer

\* What is announced to an AR has every place that it inherits, and at most
\* as many entries as there are places.
LEMMA AnnouncedIs ==
  ASSUME GoodTree(tree), NEW a, NEW b, NEW o, NEW V,
         \A i \in Entries : \A j \in Places :
           Inherits(a, b, o, i, j) => <<tree[i].nbr, tree[i].subs[j].nbr>> \in V
  PROVE  LET r == Announced(a, b, o)
         IN  /\ r \in Seq(V) /\ Len(r) <= MaxSlots * MaxSubs
             /\ \A i \in Entries : \A j \in Places : Inherits(a, b, o, i, j) =>
                  \E k \in 1 .. Len(r) : r[k] = <<tree[i].nbr, tree[i].subs[j].nbr>>
             /\ r # <<>> => \E i \in Entries : \E j \in Places : Inherits(a, b, o, i, j)
<1> DEFINE I(i) == {j \in Places : Inherits(a, b, o, i, j)}
           e(i, j) == <<tree[i].nbr, tree[i].subs[j].nbr>>
           q == CHOOSE q : q = [i \in 0 .. MaxSlots |->
                  IF i = 0 THEN <<>> ELSE Entered(q[i - 1], i, I(i))]
<1>1. Announced(a, b, o) = q[MaxSlots]  BY DEF Announced
<1>2. MaxSlots \in Nat /\ Entries = 1 .. MaxSlots /\ MaxSubs \in Nat  BY Numbers
<1>3. ASSUME NEW i \in Entries, NEW x \in Seq(V)
      PROVE  Longer(Entered(x, i, I(i)), x, i, I(i), V)
  <2>1. I(i) \in SUBSET Places /\ Known(i, I(i), V)
    BY DEF Known
  <2> HIDE DEF I
  <2> QED  BY <2>1, EnteredIs, Zenon
<1> HIDE DEF e, I
<1>4. \A i \in 0 .. MaxSlots :
         q[i] = IF i = 0 THEN <<>> ELSE Entered(q[i - 1], i, I(i))
  <2> DEFINE step == [i \in 1 .. MaxSlots |-> [x \in Seq(V) |-> Entered(x, i, I(i))]]
  <2>1. StepsWithin(step, MaxSlots, Seq(V))  BY <1>2, <1>3 DEF StepsWithin, Longer
  <2>2. PICK g : RunOf(g, step, MaxSlots, Seq(V), <<>>)
    <3>1. <<>> \in Seq(V)  OBVIOUS
    <3> HIDE DEF step
    <3> QED  BY <1>2, <2>1, <3>1, Iteration, Zenon
  <2>3. /\ g \in [0 .. MaxSlots -> Seq(V)] /\ g[0] = <<>>
        /\ \A k \in 1 .. MaxSlots : g[k] = step[k][g[k - 1]]
    BY <2>2, Zenon DEF RunOf
  <2>4. \A k \in 1 .. MaxSlots : k - 1 \in 0 .. MaxSlots /\ g[k - 1] \in Seq(V)  BY <1>2, <2>3
  <2>5. \A k \in 1 .. MaxSlots : g[k] = Entered(g[k - 1], k, I(k))
    BY <2>3, <2>4
  <2>6. \A i \in 0 .. MaxSlots : g[i] = IF i = 0 THEN <<>> ELSE Entered(g[i - 1], i, I(i))
    <3> SUFFICES ASSUME NEW i \in 0 .. MaxSlots
                 PROVE  g[i] = IF i = 0 THEN <<>> ELSE Entered(g[i - 1], i, I(i))
      OBVIOUS
    <3>1. CASE i = 0  BY <2>3, <3>1
    <3>2. CASE i \in 1 .. MaxSlots
      <4>1. i # 0  BY <3>2
      <4> QED  BY <2>5, <3>2, <4>1, Zenon
    <3> QED  BY <1>2, <3>1, <3>2
  <2>7. g = [i \in 0 .. MaxSlots |-> IF i = 0 THEN <<>> ELSE Entered(g[i - 1], i, I(i))]
    <3>1. g = [j \in 0 .. MaxSlots |-> g[j]]  BY <2>3
    <3> QED  BY <2>6, <3>1
  <2>8. \E h : h = [i \in 0 .. MaxSlots |-> IF i = 0 THEN <<>> ELSE Entered(h[i - 1], i, I(i))]
    BY <2>7, Zenon
  <2>9. q = [i \in 0 .. MaxSlots |-> IF i = 0 THEN <<>> ELSE Entered(q[i - 1], i, I(i))]
    BY <2>8, Zenon
  <2> HIDE DEF q
  <2> QED  BY <2>9, Zenon
<1> HIDE DEF q
<1> DEFINE P(i) == /\ q[i] \in Seq(V) /\ Len(q[i]) <= i * MaxSubs
                   /\ \A l \in Entries : \A j \in I(l) : l <= i =>
                        \E k \in 1 .. Len(q[i]) : q[i][k] = e(l, j)
                   /\ Len(q[i]) > 0 => \E l \in Entries : I(l) # {}
           S == {i \in 0 .. MaxSlots : P(i)}
<1>5. 0 \in S
  <2>1. q[0] = <<>>
    <3>1. 0 \in 0 .. MaxSlots  BY <1>2
    <3> QED  BY <1>4, <3>1, Zenon
  <2>3. \A l \in Entries : ~(l <= 0)  BY <1>2
  <2>4. <<>> \in Seq(V) /\ Len(<<>>) = 0 /\ 0 * MaxSubs = 0  BY <1>2
  <2>5. P(0)
    <3>1. q[0] \in Seq(V) /\ Len(q[0]) <= 0 * MaxSubs /\ ~(Len(q[0]) > 0)  BY <2>1, <2>4
    <3> QED  BY <2>3, <3>1
  <2> QED  BY <1>2, <2>5
<1>6. ASSUME NEW m \in 0 .. MaxSlots - 1, m \in S  PROVE m + 1 \in S
  <2>1. P(m)  BY <1>6
  <2>4. m + 1 \in 0 .. MaxSlots /\ m + 1 \in Entries /\ m + 1 # 0 /\ (m + 1) - 1 = m  BY <1>2
  <2>2. q[m + 1] = Entered(q[m], m + 1, I(m + 1))
    <3>1. q[m + 1] = Entered(q[(m + 1) - 1], m + 1, I(m + 1))
      BY <1>4, <2>4
    <3> QED  BY <2>4, <3>1
  <2> HIDE DEF S
  <2> DEFINE r == q[m + 1]
  <2>3. /\ r \in Seq(V) /\ Len(q[m]) <= Len(r) /\ Len(r) <= Len(q[m]) + MaxSubs
        /\ \A k \in 1 .. Len(q[m]) : r[k] = q[m][k]
        /\ \A j \in I(m + 1) : \E k \in 1 .. Len(r) : r[k] = e(m + 1, j)
        /\ Len(r) > Len(q[m]) => I(m + 1) # {}
    <3>1. Longer(r, q[m], m + 1, I(m + 1), V)  BY <1>3, <2>1, <2>2, <2>4, Zenon
    <3> HIDE DEF r
    <3> QED  BY <3>1, Zenon DEF Longer, e
  <2>5. Len(q[m]) \in Nat /\ Len(r) \in Nat  BY <2>1, <2>3, LenProperties
  <2>6. (m + 1) * MaxSubs = m * MaxSubs + MaxSubs /\ m * MaxSubs \in Nat  BY <1>2
  <2>7. ASSUME NEW l \in Entries, NEW j \in I(l), l <= m + 1
        PROVE  \E k \in 1 .. Len(r) : r[k] = e(l, j)
    <3>1. CASE l = m + 1  BY <2>3, <3>1
    <3>2. CASE l <= m
      <4>1. PICK k \in 1 .. Len(q[m]) : q[m][k] = e(l, j)  BY <2>1, <3>2
      <4> QED  BY <2>3, <2>5, <4>1
    <3> QED  BY <1>2, <2>7, <3>1, <3>2
  <2> HIDE DEF r
  <2>8. Len(r) <= (m + 1) * MaxSubs
    <3> DEFINE p == m * MaxSubs
    <3>1. p \in Nat /\ Len(q[m]) <= p /\ (m + 1) * MaxSubs = p + MaxSubs  BY <2>1, <2>6
    <3> HIDE DEF p
    <3> QED  BY <1>2, <2>3, <2>5, <3>1
  <2>9. Len(r) > 0 => \E l \in Entries : I(l) # {}
    BY <2>1, <2>3, <2>4, <2>5
  <2>10. P(m + 1)  BY <2>3, <2>7, <2>8, <2>9 DEF r
  <2> QED  BY <2>4, <2>10 DEF S
<1>7. MaxSlots \in S
  <2> HIDE DEF S
  <2>1. 0 .. MaxSlots \subseteq S  BY <1>2, <1>5, <1>6, UpTo
  <2> QED  BY <1>2, <2>1
<1>8. P(MaxSlots)  BY <1>7
<1> DEFINE r == q[MaxSlots]
<1>9. \A i \in Entries : \A j \in I(i) : \E k \in 1 .. Len(r) : r[k] = e(i, j)
  BY <1>2, <1>8
<1>10. r # <<>> => Len(r) > 0
  <2> HIDE DEF r
  <2>1. r \in Seq(V)  BY <1>8 DEF r
  <2> QED  BY <2>1, EmptySeq, LenProperties
<1>11. r # <<>> => \E i \in Entries : I(i) # {}  BY <1>8, <1>10
<1>12. r \in Seq(V) /\ Len(r) <= MaxSlots * MaxSubs  BY <1>8
<1>13. r = Announced(a, b, o)  BY <1>1
<1> HIDE DEF r
<1>14. \A i \in Entries : \A j \in Places : Inherits(a, b, o, i, j) =>
         \E k \in 1 .. Len(r) : r[k] = <<tree[i].nbr, tree[i].subs[j].nbr>>
  BY <1>9, Zenon DEF e, I
<1>15. r # <<>> => \E i \in Entries : \E j \in Places : Inherits(a, b, o, i, j)
  BY <1>11 DEF I
<1> QED  BY <1>12, <1>13, <1>14, <1>15, Zenon

-----------------------------------------------------------------------------
(* What a change of the tree leaves as it is.                              *)

\* A place whose owner is not, or is no longer, an AR that expects it.
LostAt(t, as, i, j) ==
  LET w == t[i].subs[j].owner IN
  w # None /\ ~(as[w].used /\ Expects(as[w], t[i].nbr, t[i].subs[j].nbr))

LEMMA AstrayIs ==
  ASSUME NEW t, NEW as, NEW u, NEW bs,
         \A i \in Entries : \A j \in Places : LostAt(u, bs, i, j) => LostAt(t, as, i, j)
  PROVE  Astray(u, bs) \subseteq Astray(t, as)
<1> SUFFICES ASSUME NEW p \in Entries \X Places, p \in Astray(u, bs)  PROVE p \in Astray(t, as)
  BY DEF Astray
<1>1. p[1] \in Entries /\ p[2] \in Places  OBVIOUS
<1>2. LostAt(u, bs, p[1], p[2])  BY Zenon DEF Astray, LostAt
<1>3. LostAt(t, as, p[1], p[2])  BY <1>1, <1>2
<1> QED  BY <1>3, Zenon DEF Astray, LostAt

LEMMA KeptOwners ==
  ASSUME EmptyUnused(tree),
         \A i \in Entries : \A j \in Places :
           /\ tree[i].used /\ tree[i].subs[j].used /\ tree[i].subs[j].owner # None
           => tree'[i].subs[j].owner = tree[i].subs[j].owner
  PROVE  ServedStep /\ HandedStep
<1>1. ServedStep  BY DEF ServedStep
<1>2. ASSUME NEW i \in Entries, NEW j \in Places, Bequeathed(i, j)  PROVE FALSE
  <2>1. tree[i].subs[j].used /\ tree[i].subs[j].owner # None
        /\ tree'[i].subs[j].owner # tree[i].subs[j].owner
    BY <1>2 DEF Bequeathed, NewOwner
  <2>2. tree[i].used  BY <2>1 DEF EmptyUnused
  <2> QED  BY <2>1, <2>2
<1> QED  BY <1>1, <1>2 DEF HandedStep

LEMMA ExpectedType ==
  ASSUME Types, NEW a \in ArEntries
  PROVE  ars[a].exp \in Seq(ExpModule)
<1>1. ars[a].exp \in Expectations \cup {<<>>}  BY DEF Types, ArType
<1>2. <<>> \in Seq(ExpModule)  OBVIOUS
<1> QED  BY <1>1, <1>2, ExpectationAssumption

\* What was done with is expected.
LEMMA DoneExpected ==
  ASSUME Types, ConnSound, ~NoneConnecting, NEW m \in 1 .. Len(Exp),
         NEW x \in 1 .. Len(Exp[m].subs), Done(m, x) \/ (m = conn.mod /\ conn.sub > 0)
  PROVE  Expects(ars[conn.ar], Exp[m].nbr, Exp[m].subs[x].nbr)
<1>1. conn.ar \in ArEntries  BY DEF Types, NoneConnecting
<1>2. Exp \in Seq(ExpModule)  BY <1>1, ExpectedType DEF Exp
<1>3. Exp[m].subs \in Seq(ExpSub)
  <2>1. Exp[m] \in ExpModule  BY <1>2, ElementOfSeq
  <2> QED  BY <2>1 DEF ExpModule
<1>4. x \in Nat /\ m \in Nat  BY <1>2, <1>3, LenProperties
<1>5. ~Twice(Exp, m)
  BY <1>4 DEF ConnSound, Done, Types
<1>6. Exp = ars[conn.ar].exp  BY DEF Exp
<1> QED  BY <1>2, <1>4, <1>5, <1>6, ExpectsIs

\* Something was plugged, or nothing.
Plugged(t) ==
  /\ GoodTree(t) /\ Extends(tree, t)
  /\ \E s, n, ident : Fates(tree, t, s, n, ident, FirstOwner(order, ars, s, n))

Sound(t) ==
  /\ GoodTree(t) /\ Cared(t)
  /\ ~NoneConnecting => TakenUp(t)
  /\ MaxAr <= 2 => Heard(t)

LEMMA PluggedKeeps ==
  ASSUME TreeInv, NEW t, Plugged(t)
  PROVE  /\ Sound(t)
         /\ \A i \in Entries : \A j \in Places : LostAt(t, ars, i, j) => LostAt(tree, ars, i, j)
         /\ \A i \in Entries : \A j \in Places :
              tree[i].used /\ tree[i].subs[j].used => t[i].subs[j] = tree[i].subs[j]
         /\ \A s : Slot(tree, s) # None => Slot(t, s) # None
<1>1. PICK s, n, ident : Fates(tree, t, s, n, ident, FirstOwner(order, ars, s, n))
  BY DEF Plugged
<1> DEFINE w == FirstOwner(order, ars, s, n)
<1>2. order \in Seq(ArEntries) /\ Len(order) \in Nat /\ GoodTree(t) /\ Extends(tree, t)
      /\ \A k \in 1 .. Len(order) : order[k] \in ArEntries
  BY ElementOfSeq, LenProperties DEF TreeInv, Types, Plugged
<1>3. \/ w = None /\ \A k \in 1 .. Len(order) : ~Expects(ars[order[k]], s, n)
      \/ \E k \in 1 .. Len(order) :
           /\ w = order[k] /\ order[k] \in ArEntries /\ Expects(ars[order[k]], s, n)
           /\ \A l \in 1 .. k - 1 : ~Expects(ars[order[l]], s, n)
  BY <1>2, FirstOwnerIs, Zenon
<1>4. \A i \in Entries : \A j \in Places : Fate(tree, t, i, j, s, n, ident, w)
  BY <1>1, Zenon DEF Fates
<1> HIDE DEF w
<1>5. ASSUME NEW i \in Entries, NEW j \in Places
      PROVE  \/ /\ t[i].used = tree[i].used /\ t[i].nbr = tree[i].nbr
                /\ t[i].subs[j] = tree[i].subs[j]
             \/ ~t[i].subs[j].used /\ t[i].subs[j].owner = None
             \/ /\ t[i].nbr = s /\ t[i].used /\ t[i].subs[j].used /\ t[i].subs[j].nbr = n
                /\ t[i].subs[j].owner = w
  BY <1>4 DEF Fate, BlankSub
<1>6. (\E k \in 1 .. Len(order) : Expects(ars[order[k]], s, n)) => w # None
  BY <1>3, Numbers
<1>7. Cared(t)
  <2> SUFFICES ASSUME NEW i \in Entries, NEW j \in Places, t[i].used, t[i].subs[j].used,
                      NEW k \in 1 .. Len(order), order[k] # conn.ar,
                      Expects(ars[order[k]], t[i].nbr, t[i].subs[j].nbr)
               PROVE  t[i].subs[j].owner # None
    BY DEF Cared
  <2>1. CASE /\ t[i].used = tree[i].used /\ t[i].nbr = tree[i].nbr
             /\ t[i].subs[j] = tree[i].subs[j]
    BY <2>1 DEF TreeInv, Cared
  <2>2. CASE t[i].nbr = s /\ t[i].subs[j].nbr = n /\ t[i].subs[j].owner = w
    BY <1>6, <2>2
  <2> QED  BY <1>5, <2>1, <2>2
<1>8. ASSUME ~NoneConnecting  PROVE TakenUp(t)
  <2>0. ConnSound /\ Types  BY DEF TreeInv
  <2>1. TakenUp(tree) /\ \E k \in 1 .. Len(order) : order[k] = conn.ar
    BY <1>8, <2>0 DEF ConnSound
  <2> SUFFICES ASSUME NEW m \in 1 .. Len(Exp), NEW x \in 1 .. Len(Exp[m].subs), Done(m, x),
                      NEW i \in Entries, NEW j \in Places,
                      t[i].used, t[i].nbr = Exp[m].nbr,
                      t[i].subs[j].used, t[i].subs[j].nbr = Exp[m].subs[x].nbr
               PROVE  t[i].subs[j].owner # None
    BY DEF TakenUp
  <2>2. CASE /\ t[i].used = tree[i].used /\ t[i].nbr = tree[i].nbr
             /\ t[i].subs[j] = tree[i].subs[j]
    BY <2>1, <2>2 DEF TakenUp
  <2>3. CASE t[i].nbr = s /\ t[i].subs[j].nbr = n /\ t[i].subs[j].owner = w
    <3>1. Expects(ars[conn.ar], s, n)  BY <1>8, <2>0, <2>3, DoneExpected
    <3> QED  BY <1>6, <2>1, <2>3, <3>1
  <2> QED  BY <1>5, <2>2, <2>3
<1>9. ASSUME MaxAr <= 2  PROVE Heard(t)
  <2>1. Heard(tree)  BY <1>9 DEF TreeInv
  <2> SUFFICES ASSUME NEW b \in ArEntries, ars[b].queue # <<>>
               PROVE  /\ Len(order) > 0 /\ order[1] = b
                      /\ \A i \in Entries : \A j \in Places :
                           t[i].subs[j].owner \notin {None, b}
                             => ~Expects(ars[b], t[i].nbr, t[i].subs[j].nbr)
    BY DEF Heard
  <2>2. Len(order) > 0 /\ order[1] = b  BY <2>1 DEF Heard
  <2>3. ASSUME NEW i \in Entries, NEW j \in Places, t[i].subs[j].owner \notin {None, b},
               Expects(ars[b], t[i].nbr, t[i].subs[j].nbr)
        PROVE  FALSE
    <3>1. CASE /\ t[i].used = tree[i].used /\ t[i].nbr = tree[i].nbr
               /\ t[i].subs[j] = tree[i].subs[j]
      BY <2>1, <2>3, <3>1 DEF Heard
    <3>2. CASE t[i].nbr = s /\ t[i].subs[j].nbr = n /\ t[i].subs[j].owner = w
      <4>1. PICK k \in 1 .. Len(order) :
              w = order[k] /\ \A l \in 1 .. k - 1 : ~Expects(ars[order[l]], s, n)
        BY <1>3, <2>3, <3>2
      <4>2. k > 1  BY <1>2, <2>2, <2>3, <3>2, <4>1
      <4> QED  BY <1>2, <2>2, <2>3, <3>2, <4>1, <4>2
    <3> QED  BY <1>5, <2>3, <3>1, <3>2
  <2> QED  BY <2>2, <2>3
<1>10. ASSUME NEW i \in Entries, NEW j \in Places, LostAt(t, ars, i, j)
       PROVE  LostAt(tree, ars, i, j)
  <2>1. CASE /\ t[i].used = tree[i].used /\ t[i].nbr = tree[i].nbr
             /\ t[i].subs[j] = tree[i].subs[j]
    BY <1>10, <2>1 DEF LostAt
  <2>2. CASE t[i].nbr = s /\ t[i].subs[j].nbr = n /\ t[i].subs[j].owner = w
    <3>1. w # None  BY <1>10, <2>2 DEF LostAt
    <3>2. PICK k \in 1 .. Len(order) : w = order[k] /\ Expects(ars[order[k]], s, n)
      BY <1>3, <3>1
    <3>3. ars[w].used  BY <3>2 DEF TreeInv, OrderSound
    <3> QED  BY <1>10, <2>2, <3>2, <3>3 DEF LostAt
  <2>3. t[i].subs[j].owner # None  BY <1>10 DEF LostAt
  <2> QED  BY <1>5, <2>1, <2>2, <2>3
<1>11. ASSUME NEW h, Slot(tree, h) # None  PROVE Slot(t, h) # None
  <2>1. Slot(tree, h) \in Entries /\ tree[Slot(tree, h)].used /\ tree[Slot(tree, h)].nbr = h
    BY <1>11, SlotIs
  <2>2. t[Slot(tree, h)].used /\ t[Slot(tree, h)].nbr = h  BY <1>2, <2>1 DEF Extends
  <2> QED  BY <2>1, <2>2, SlotIs
<1> QED  BY <1>2, <1>7, <1>8, <1>9, <1>10, <1>11 DEF Sound, Extends

\* A free place that the connecting AR expects is given to it.
LEMMA TakenKeeps ==
  ASSUME TreeInv, ~NoneConnecting, NEW t, Sound(t), NEW i \in Entries, NEW j \in Places,
         t[i].used, t[i].subs[j].used, t[i].subs[j].owner = None,
         Expects(ars[conn.ar], t[i].nbr, t[i].subs[j].nbr)
  PROVE  LET v == GivenTo(t, i, j, conn.ar)
         IN  /\ Sound(v) /\ SameButOwners(t, v) /\ v[i].subs[j].owner = conn.ar
             /\ \A k \in Entries : \A l \in Places :
                  k # i \/ l # j => v[k].subs[l] = t[k].subs[l]
             /\ \A k \in Entries : \A l \in Places : LostAt(v, ars, k, l) => LostAt(t, ars, k, l)
<1> DEFINE v == GivenTo(t, i, j, conn.ar)
<1>1. conn.ar \in ArEntries /\ conn.ar \in ArEntries \cup {None}  BY DEF TreeInv, Types, NoneConnecting
<1>2. GoodTree(t) /\ Cared(t) /\ TakenUp(t)  BY DEF Sound
<1>3. /\ SameButOwners(t, v) /\ v[i].subs[j].owner = conn.ar
      /\ \A k \in Entries : \A l \in Places : k # i \/ l # j => v[k].subs[l] = t[k].subs[l]
  <2>1. SameButAt(t, GivenTo(t, i, j, conn.ar), i, j, conn.ar)
    BY <1>1, <1>2, TakenTree, Zenon
  <2> HIDE DEF v
  <2> QED  BY <2>1, Zenon DEF SameButAt, v
<1> HIDE DEF v
<1>4. GoodTree(v)  BY <1>2, <1>3, OwnersGood
<1>5. \A k \in Entries : \A l \in Places :
        v[k].subs[l].owner = t[k].subs[l].owner \/ (k = i /\ l = j)
  BY <1>3
<1>6. conn.ar # None  BY DEF NoneConnecting
<1>7. Cared(v)
  BY <1>2, <1>3, <1>5, <1>6 DEF Cared, SameButOwners
<1>8. TakenUp(v)
  BY <1>2, <1>3, <1>5, <1>6 DEF TakenUp, SameButOwners
<1>9. ASSUME MaxAr <= 2  PROVE Heard(v)
  <2>1. Heard(t)  BY <1>9 DEF Sound
  <2> SUFFICES ASSUME NEW b \in ArEntries, ars[b].queue # <<>>
               PROVE  /\ Len(order) > 0 /\ order[1] = b
                      /\ \A k \in Entries : \A l \in Places :
                           v[k].subs[l].owner \notin {None, b}
                             => ~Expects(ars[b], v[k].nbr, v[k].subs[l].nbr)
    BY DEF Heard
  <2>2. Len(order) > 0 /\ order[1] = b  BY <2>1 DEF Heard
  <2>3. b # conn.ar  BY DEF TreeInv, ConnSound
  <2>4. Len(order) \in Nat  BY LenProperties DEF TreeInv, Types
  <2>5. ~Expects(ars[b], t[i].nbr, t[i].subs[j].nbr)
    BY <1>2, <2>2, <2>3, <2>4 DEF Cared
  <2>6. ASSUME NEW k \in Entries, NEW l \in Places, v[k].subs[l].owner \notin {None, b}
        PROVE  ~Expects(ars[b], v[k].nbr, v[k].subs[l].nbr)
    <3>1. v[k].nbr = t[k].nbr /\ v[k].subs[l].nbr = t[k].subs[l].nbr
      BY <1>3 DEF SameButOwners
    <3>2. CASE k = i /\ l = j  BY <2>5, <3>1, <3>2
    <3>3. CASE ~(k = i /\ l = j)
      <4>1. t[k].subs[l].owner \notin {None, b}  BY <1>5, <2>6, <3>3
      <4> QED  BY <2>1, <3>1, <4>1 DEF Heard
    <3> QED  BY <3>2, <3>3
  <2> QED  BY <2>2, <2>6
<1>10. ASSUME NEW k \in Entries, NEW l \in Places, LostAt(v, ars, k, l)
       PROVE  LostAt(t, ars, k, l)
  <2>1. v[k].nbr = t[k].nbr /\ v[k].subs[l].nbr = t[k].subs[l].nbr
    BY <1>3 DEF SameButOwners
  <2>2. CASE k = i /\ l = j
    <3>1. ars[conn.ar].used
      BY DEF TreeInv, ConnSound, OrderSound
    <3>2. v[k].subs[l].owner = conn.ar  BY <1>3, <2>2
    <3> QED  BY <1>10, <2>1, <2>2, <3>1, <3>2 DEF LostAt
  <2>3. CASE ~(k = i /\ l = j)
    <3>1. v[k].subs[l] = t[k].subs[l]  BY <1>3, <2>3
    <3> QED  BY <1>10, <2>1, <3>1 DEF LostAt
  <2> QED  BY <2>2, <2>3
<1>11. Sound(v)  BY <1>4, <1>7, <1>8, <1>9 DEF Sound
<1> QED  BY <1>3, <1>10, <1>11 DEF v

\* The first AR that is not in use.
LEMMA FreeAr ==
  LET a == First(MaxAr, LAMBDA i : ~ars[i].used) IN a = None \/ (a \in ArEntries /\ ~ars[a].used)
<1> DEFINE S == {k \in 1 .. MaxAr : ~ars[k].used}
           a == First(MaxAr, LAMBDA i : ~ars[i].used)
<1>1. CASE S = {}
  <2>1. ~ \E k \in 1 .. MaxAr : ~ars[k].used  BY <1>1
  <2> QED  BY <2>1, Zenon DEF First
<1>2. CASE S # {}
  <2>1. PICK h \in 1 .. MaxAr :
               h \in S /\ \A k \in 1 .. h - 1 : k \in 1 .. MaxAr /\ k \notin S
    <3>1. S \in SUBSET (1 .. MaxAr) /\ MaxAr \in Nat  BY TreeAssumption
    <3> HIDE DEF S
    <3> QED  BY <3>1, <1>2, FirstOne
  <2>2. \E h2 \in 1 .. MaxAr : ~ars[h2].used /\ \A k \in 1 .. h2 - 1 : ~ ~ars[k].used
    BY <2>1
  <2>3. a \in 1 .. MaxAr /\ ~ars[a].used
    BY <2>2, Zenon DEF First
  <2> HIDE DEF a
  <2>4. a \in ArEntries /\ ~ars[a].used  BY <2>3 DEF ArEntries
  <2> QED  BY <2>4 DEF a
<1> QED  BY <1>1, <1>2

-----------------------------------------------------------------------------
(* The steps.                                                              *)

Kept == TreeInv' /\ LiveStep /\ ServedStep /\ HandedStep

\* The application plugs or pulls.
LEMMA TreeChanges ==
  ASSUME TreeInv, UNCHANGED <<order, ars, conn>>, NoneConnecting, Sound(tree'),
         \A i \in Entries : \A j \in Places : LostAt(tree', ars, i, j) => LostAt(tree, ars, i, j),
         \A i \in Entries : \A j \in Places :
           tree[i].used /\ tree[i].subs[j].used => tree'[i].subs[j].owner = tree[i].subs[j].owner
  PROVE  Kept
<1>1. TreeInv'
  <2>1. Types'  BY DEF TreeInv, Types, Sound
  <2>2. OrderSound' /\ ExpectedOnce' /\ NoneForgotten'
    BY DEF TreeInv, OrderSound, ExpectedOnce, NoneForgotten, Twice
  <2>3. ConnSound'  BY DEF ConnSound, NoneConnecting
  <2>4. Cared(tree)'  BY DEF Sound, Cared
  <2>5. (MaxAr <= 2 => Heard(tree))'  BY DEF Sound, Heard
  <2>6. (\A a \in ArEntries : Len(ars[a].queue) <= MaxSlots * MaxSubs)'  BY DEF TreeInv
  <2> QED  BY <2>1, <2>2, <2>3, <2>4, <2>5, <2>6 DEF TreeInv
<1>2. LiveStep
  <2>1. Astray(tree', ars) \subseteq Astray(tree, ars)  BY AstrayIs, Zenon
  <2> QED  BY <2>1 DEF LiveStep
<1>3. ServedStep /\ HandedStep
  BY KeptOwners DEF TreeInv, Types, GoodTree
<1> QED  BY <1>1, <1>2, <1>3 DEF Kept

LEMMA PlugKeeps ==
  ASSUME TreeInv, UNCHANGED <<order, ars, conn>>, NoneConnecting, Plugged(tree')
  PROVE  Kept
<1>1. /\ Sound(tree')
      /\ \A i \in Entries : \A j \in Places : LostAt(tree', ars, i, j) => LostAt(tree, ars, i, j)
      /\ \A i \in Entries : \A j \in Places :
           tree[i].used /\ tree[i].subs[j].used => tree'[i].subs[j] = tree[i].subs[j]
  BY PluggedKeeps, Zenon
<1> QED  BY <1>1, TreeChanges

LEMMA PullKeeps ==
  ASSUME TreeInv, UNCHANGED <<order, ars, conn>>, NoneConnecting, Shrunk(tree, tree')
  PROVE  Kept
<1>1. GoodTree(tree')  BY ShrunkGood DEF TreeInv, Types
<1>2. Cared(tree')  BY DEF Shrunk, TreeInv, Cared
<1>3. MaxAr <= 2 => Heard(tree')  BY DEF Shrunk, TreeInv, Heard
<1>4. \A i \in Entries : \A j \in Places : LostAt(tree', ars, i, j) => LostAt(tree, ars, i, j)
  BY DEF Shrunk, LostAt
<1>5. \A i \in Entries : \A j \in Places : tree'[i].subs[j].owner = tree[i].subs[j].owner
  BY DEF Shrunk
<1>6. Sound(tree')  BY <1>1, <1>2, <1>3 DEF Sound
<1> QED  BY <1>4, <1>5, <1>6, TreeChanges

LEMMA ModulePlugged ==
  ASSUME TreeInv, NEW s \in SlotNbrs, NEW m \in Modules
  PROVE  Plugged(PlugModule(tree, s, m))
<1> DEFINE u == PlugModule(tree, s, m)
<1>1. GoodTree(tree)  BY DEF TreeInv, Types
<1>2. GoodTree(u) /\ Extends(tree, u) /\ \A n, ident, w : Fates(tree, u, s, n, ident, w)
  BY <1>1, PlugModuleGood, Zenon
<1> HIDE DEF u
<1>3. Fates(tree, u, s, s, s, FirstOwner(order, ars, s, s))  BY <1>2, Zenon
<1> QED  BY <1>2, <1>3, Zenon DEF Plugged, u

LEMMA SubmodulePlugged ==
  ASSUME TreeInv, NEW s \in SlotNbrs, NEW n \in SubNbrs, NEW m \in Modules,
         NEW ident \in Submodules
  PROVE  Plugged(PlugSubmodule(tree, order, ars, s, n, m, ident))
<1> DEFINE v == PlugSubmodule(tree, order, ars, s, n, m, ident)
<1>1. GoodTree(tree) /\ order \in Seq(ArEntries)  BY DEF TreeInv, Types
<1>2. /\ GoodTree(v) /\ Extends(tree, v)
      /\ Fates(tree, v, s, n, ident, FirstOwner(order, ars, s, n))
  BY <1>1, PlugSubmoduleGood, Zenon
<1> HIDE DEF v
<1> QED  BY <1>2, Zenon DEF Plugged, v

LEMMA NothingPlugged ==
  ASSUME TreeInv
  PROVE  Plugged(tree)
<1>1. GoodTree(tree) /\ Extends(tree, tree)  BY DEF TreeInv, Types, Extends
<1>2. Fates(tree, tree, 0, 0, 0, FirstOwner(order, ars, 0, 0))  BY DEF Fates, Fate
<1> QED  BY <1>1, <1>2, Zenon DEF Plugged

LEMMA ApplSteps ==
  ASSUME TreeInv,
         \/ \E s \in SlotNbrs, m \in Modules : ApplPlugsModule(s, m)
         \/ \E s \in SlotNbrs, n \in SubNbrs, m \in Modules, ident \in Submodules :
               ApplPlugs(s, n, m, ident)
         \/ \E i \in Entries, j \in Places : ApplPulls(i, j)
         \/ \E i \in Entries, sent \in SUBSET Places : ApplPullsModule(i, sent)
  PROVE  Kept
<1>0. GoodTree(tree)  BY DEF TreeInv, Types
<1>1. ASSUME NEW s \in SlotNbrs, NEW m \in Modules, ApplPlugsModule(s, m)  PROVE Kept
  <2>1. Plugged(tree')  BY <1>1, ModulePlugged DEF ApplPlugsModule
  <2> QED  BY <1>1, <2>1, PlugKeeps DEF ApplPlugsModule
<1>2. ASSUME NEW s \in SlotNbrs, NEW n \in SubNbrs, NEW m \in Modules, NEW ident \in Submodules,
             ApplPlugs(s, n, m, ident)
      PROVE  Kept
  <2>1. Plugged(tree')  BY <1>2, SubmodulePlugged DEF ApplPlugs
  <2> QED  BY <1>2, <2>1, PlugKeeps DEF ApplPlugs
<1>3. ASSUME NEW i \in Entries, NEW j \in Places, ApplPulls(i, j)  PROVE Kept
  <2>1. Shrunk(tree, tree')  BY <1>0, <1>3, PullSubShrinks DEF ApplPulls
  <2> QED  BY <1>3, <2>1, PullKeeps DEF ApplPulls
<1>4. ASSUME NEW i \in Entries, NEW sent \in SUBSET Places, ApplPullsModule(i, sent)  PROVE Kept
  <2>1. Shrunk(tree, tree')  BY <1>0, <1>4, PullModuleShrinks DEF ApplPullsModule
  <2> QED  BY <1>4, <2>1, PullKeeps DEF ApplPullsModule
<1> QED  BY <1>1, <1>2, <1>3, <1>4

LEMMA ConnectBeginsKeeps ==
  ASSUME TreeInv, NEW e \in Expectations, ConnectBegins(e)
  PROVE  Kept
<1> DEFINE a == First(MaxAr, LAMBDA i : ~ars[i].used)
           new == [used |-> TRUE, exp |-> e, plug |-> "IDLE", queue |-> <<>>]
<1>0. Types /\ GoodTree(tree) /\ order \in Seq(ArEntries) /\ ars \in [ArEntries -> ArType]  BY DEF TreeInv, Types
<1>1. a = None \/ (a \in ArEntries /\ ~ars[a].used)  BY FreeAr
<1>2. /\ NoneConnecting /\ a # None
      /\ ars' = [ars EXCEPT ![a] = new]
      /\ order' = Append(order, a)
      /\ conn' = [ar |-> a, mod |-> 1, sub |-> 0, ok |-> TRUE] /\ UNCHANGED tree
  BY Zenon DEF ConnectBegins
<1> HIDE DEF a
<1>3. a \in ArEntries /\ ~ars[a].used /\ conn.ar = None  BY <1>1, <1>2 DEF NoneConnecting
<1>4. new \in ArType /\ new.used /\ new.exp = e /\ new.queue = <<>> /\ new.plug = "IDLE"
  BY DEF ArType, Plugsm
<1> HIDE DEF new
<1>5. ars' \in [ArEntries -> ArType] /\ ars'[a] = new /\ \A b \in ArEntries : b # a => ars'[b] = ars[b]
  BY <1>0, <1>2, <1>3, <1>4
<1>6. Len(order) \in Nat /\ \A k \in 1 .. Len(order) : order[k] \in ArEntries
  BY <1>0, ElementOfSeq, LenProperties
<1>7. /\ order' \in Seq(ArEntries) /\ Len(order') = Len(order) + 1
      /\ order'[Len(order) + 1] = a /\ \A k \in 1 .. Len(order) : order'[k] = order[k]
  BY <1>0, <1>2, <1>3, AppendProperties
<1>8. \A k \in 1 .. Len(order) : order[k] # a  BY <1>3 DEF TreeInv, OrderSound
<1>9. OrderSound'
  <2>1. \A k, l \in 1 .. Len(order') : order'[k] = order'[l] => k = l
    BY <1>6, <1>7, <1>8 DEF TreeInv, OrderSound
  <2>2. ASSUME NEW k \in 1 .. Len(order')  PROVE ars'[order'[k]].used
    <3>1. CASE k = Len(order) + 1  BY <1>4, <1>5, <1>7, <3>1
    <3>2. CASE k \in 1 .. Len(order)
      BY <1>5, <1>6, <1>7, <1>8, <3>2 DEF TreeInv, OrderSound
    <3> QED  BY <1>6, <1>7, <3>1, <3>2
  <2> QED  BY <2>1, <2>2 DEF OrderSound
<1>10. ConnSound'
  <2>1. conn'.ar = a /\ conn'.mod = 1 /\ conn'.sub = 0 /\ conn'.ok = TRUE  BY <1>2
  <2>2. Exp' = e /\ Len(e) \in Nat
    <3>1. e \in Seq(ExpModule)  BY ExpectationAssumption
    <3> QED  BY <1>4, <1>5, <2>1, <3>1, LenProperties DEF Exp
  <2>3. TakenUp(tree)'  BY <2>1 DEF TakenUp, Done
  <2>4. \E k \in 1 .. Len(order') : order'[k] = conn'.ar  BY <1>6, <1>7, <2>1
  <2>5. conn'.mod \in 1 .. Len(Exp') + 1 /\ \A m \in 1 .. conn'.mod - 1 : FALSE
    BY <2>1, <2>2
  <2>6. ars'[conn'.ar].queue = <<>> /\ ars'[conn'.ar].plug = "IDLE"  BY <1>4, <1>5, <2>1
  <2> QED  BY <2>1, <2>3, <2>4, <2>5, <2>6 DEF ConnSound
<1>11. ExpectedOnce' /\ Cared(tree)'
  <2>1. ASSUME NEW k \in 1 .. Len(order'), order'[k] # conn'.ar
        PROVE  k \in 1 .. Len(order) /\ order'[k] = order[k] /\ ars'[order[k]] = ars[order[k]]
               /\ order[k] # conn.ar
    BY <1>2, <1>3, <1>5, <1>6, <1>7, <1>8, <2>1, Numbers
  <2>2. ExpectedOnce'  BY <2>1 DEF TreeInv, ExpectedOnce, Twice
  <2>3. Cared(tree)'  BY <1>2, <2>1 DEF TreeInv, Cared
  <2> QED  BY <2>2, <2>3
<1>12. NoneForgotten' /\ (\A b \in ArEntries : Len(ars[b].queue) <= MaxSlots * MaxSubs)'
  <2>1. NoneForgotten'  BY <1>4, <1>5 DEF TreeInv, NoneForgotten
  <2>2. MaxSlots * MaxSubs \in Nat  BY Numbers
  <2>3. Len(<<>>) = 0  OBVIOUS
  <2> QED  BY <1>4, <1>5, <2>1, <2>2, <2>3 DEF TreeInv
<1>13. ASSUME MaxAr <= 2  PROVE Heard(tree)'
  <2>1. Heard(tree)  BY <1>13 DEF TreeInv
  <2>2. ASSUME NEW b \in ArEntries, ars'[b].queue # <<>>
        PROVE  b # a /\ ars'[b] = ars[b] /\ Len(order') > 0 /\ order'[1] = b
    BY <1>4, <1>5, <1>6, <1>7, <2>1, <2>2 DEF Heard
  <2> QED  BY <1>2, <2>1, <2>2 DEF Heard
<1>14. Types'
  <2>1. conn' \in [ar : ArEntries \cup {None}, mod : Nat, sub : Nat, ok : BOOLEAN]  BY <1>2, <1>3
  <2> QED  BY <1>0, <1>2, <1>5, <1>7, <2>1 DEF Types
<1>15. LiveStep
  <2>1. ASSUME NEW i \in Entries, NEW j \in Places, LostAt(tree', ars', i, j)
        PROVE  LostAt(tree, ars, i, j)
    <3>1. tree[i].subs[j].owner \in ArEntries \cup {None}
      BY <1>0 DEF GoodTree, TreeType, SlotType, SubType
    <3>2. CASE tree[i].subs[j].owner = a  BY <1>2, <1>3, <3>2, Numbers DEF LostAt
    <3>3. CASE tree[i].subs[j].owner # a  BY <1>2, <1>5, <2>1, <3>1, <3>3 DEF LostAt
    <3> QED  BY <3>2, <3>3
  <2>2. Astray(tree', ars') \subseteq Astray(tree, ars)  BY <2>1, AstrayIs, Zenon
  <2> QED  BY <2>2 DEF LiveStep
<1>16. ServedStep /\ HandedStep  BY <1>0, <1>2, KeptOwners DEF GoodTree
<1> QED  BY <1>9, <1>10, <1>11, <1>12, <1>13, <1>14, <1>15, <1>16 DEF TreeInv, Kept

\* PLUGSM of an AR goes on: the rest of the AR stays.
LEMMA SetArKeeps ==
  ASSUME TreeInv, NoneConnecting, NEW a \in ArEntries, NEW ar \in ArType, SetAr(a, ar),
         ar.used = ars[a].used, ar.exp = ars[a].exp,
         ar.queue # <<>> => ars[a].queue # <<>>, Len(ar.queue) <= MaxSlots * MaxSubs,
         (ar.plug = "IDLE") <=> (ar.queue = <<>>)
  PROVE  Kept
<1>0. Types /\ GoodTree(tree) /\ order \in Seq(ArEntries) /\ ars \in [ArEntries -> ArType]  BY DEF TreeInv, Types
<1>1. /\ UNCHANGED <<tree, order, conn>> /\ ars' \in [ArEntries -> ArType] /\ ars'[a] = ar
      /\ \A b \in ArEntries : b # a => ars'[b] = ars[b]
  BY <1>0 DEF SetAr
<1>2. \A b \in ArEntries : ars'[b].used = ars[b].used /\ ars'[b].exp = ars[b].exp
                    /\ (ars'[b].queue # <<>> => ars[b].queue # <<>>)
  BY <1>1
<1>3. \A b \in ArEntries : \A s, n : Expects(ars'[b], s, n) = Expects(ars[b], s, n)
  BY <1>2, SameExpected
<1>4. \A k \in 1 .. Len(order) : order[k] \in ArEntries  BY <1>0, ElementOfSeq
<1>5. Types'  BY <1>0, <1>1 DEF Types
<1>6. OrderSound'  BY <1>1, <1>2, <1>4 DEF TreeInv, OrderSound
<1>7. ConnSound'  BY <1>1 DEF ConnSound, NoneConnecting
<1>8. ExpectedOnce'  BY <1>1, <1>2, <1>4 DEF TreeInv, ExpectedOnce
<1>9. Cared(tree)'
  <2> SUFFICES ASSUME NEW i \in Entries, NEW j \in Places, tree[i].used, tree[i].subs[j].used,
                      NEW k \in 1 .. Len(order), order[k] # conn.ar,
                      Expects(ars'[order[k]], tree[i].nbr, tree[i].subs[j].nbr)
               PROVE  tree[i].subs[j].owner # None
    BY <1>1 DEF Cared
  <2>1. Expects(ars[order[k]], tree[i].nbr, tree[i].subs[j].nbr)  BY <1>3, <1>4
  <2> QED  BY <2>1 DEF TreeInv, Cared
<1>10. NoneForgotten' /\ (\A b \in ArEntries : Len(ars[b].queue) <= MaxSlots * MaxSubs)'
  BY <1>1 DEF TreeInv, NoneForgotten
<1>11. ASSUME MaxAr <= 2  PROVE Heard(tree)'
  <2>1. Heard(tree)  BY <1>11 DEF TreeInv
  <2> SUFFICES ASSUME NEW b \in ArEntries, ars'[b].queue # <<>>
               PROVE  /\ Len(order) > 0 /\ order[1] = b
                      /\ \A i \in Entries : \A j \in Places :
                           tree[i].subs[j].owner \notin {None, b}
                             => ~Expects(ars'[b], tree[i].nbr, tree[i].subs[j].nbr)
    BY <1>1 DEF Heard
  <2>2. ars[b].queue # <<>>  BY <1>2
  <2>3. \A i \in Entries : \A j \in Places :
          Expects(ars'[b], tree[i].nbr, tree[i].subs[j].nbr)
            = Expects(ars[b], tree[i].nbr, tree[i].subs[j].nbr)
    BY <1>3
  <2> QED  BY <2>1, <2>2, <2>3 DEF Heard
<1>12. LiveStep
  <2>1. ASSUME NEW i \in Entries, NEW j \in Places, LostAt(tree', ars', i, j)
        PROVE  LostAt(tree, ars, i, j)
    <3>1. tree[i].subs[j].owner \in ArEntries \cup {None}
      BY <1>0 DEF GoodTree, TreeType, SlotType, SubType
    <3> QED  BY <1>1, <1>2, <1>3, <2>1, <3>1 DEF LostAt
  <2>2. Astray(tree', ars') \subseteq Astray(tree, ars)  BY <2>1, AstrayIs, Zenon
  <2> QED  BY <2>2 DEF LiveStep
<1>13. ServedStep /\ HandedStep  BY <1>0, <1>1, KeptOwners DEF GoodTree
<1> QED  BY <1>5, <1>6, <1>7, <1>8, <1>9, <1>10, <1>11, <1>12, <1>13 DEF TreeInv, Kept

LEMMA PlugsmSteps ==
  ASSUME TreeInv, NEW a \in ArEntries,
         \/ \E accepted \in BOOLEAN : PrmEnd(a, accepted)
         \/ ReleasedCnf(a) \/ ReadyCnf(a)
  PROVE  Kept
<1>0. /\ ars[a] \in ArType /\ ars[a].queue \in Seq(SlotNbrs \X SubNbrs)
      /\ Len(ars[a].queue) <= MaxSlots * MaxSubs
      /\ (ars[a].plug = "IDLE") <=> (ars[a].queue = <<>>)
  BY DEF TreeInv, Types, ArType, NoneForgotten
<1>1. ASSUME NEW p \in {"WFDATAUPDATE", "WFAPLRDYCNF"}, NoneConnecting, ars[a].plug # "IDLE",
             SetAr(a, [ars[a] EXCEPT !.plug = p])
      PROVE  Kept
  <2> DEFINE ar == [ars[a] EXCEPT !.plug = p]
  <2>1. /\ ar \in ArType /\ ar.used = ars[a].used /\ ar.exp = ars[a].exp /\ ar.plug = p
        /\ ar.queue = ars[a].queue
    BY <1>0 DEF ArType, Plugsm
  <2>2. p # "IDLE" /\ SetAr(a, ar)  BY <1>1
  <2> HIDE DEF ar
  <2> QED  BY <1>0, <1>1, <2>1, <2>2, SetArKeeps
<1>2. ASSUME NoneConnecting, ars[a].plug # "IDLE", SetAr(a, Next1(ars[a]))  PROVE Kept
  <2> DEFINE ar == Next1(ars[a])
             q == ars[a].queue
  <2>0. q # <<>> /\ q \in Seq(SlotNbrs \X SubNbrs)  BY <1>0, <1>2
  <2>1. /\ ar \in ArType /\ ar.used = ars[a].used /\ ar.exp = ars[a].exp
        /\ ar.plug = (IF Len(q) > 1 THEN "WFPRMIND" ELSE "IDLE") /\ ar.queue = Tail(q)
    <3> DEFINE p == IF Len(q) > 1 THEN "WFPRMIND" ELSE "IDLE"
               r == Tail(q)
    <3>1. p \in Plugsm /\ r \in Seq(SlotNbrs \X SubNbrs)  BY <2>0, HeadTailProperties DEF Plugsm
    <3>2. ar = [ars[a] EXCEPT !.queue = r, !.plug = p]  BY DEF Next1
    <3> HIDE DEF p, r, ar
    <3>3. [ars[a] EXCEPT !.queue = r] \in ArType  BY <1>0, <3>1 DEF ArType
    <3>4. /\ ar \in ArType /\ ar.used = ars[a].used /\ ar.exp = ars[a].exp
          /\ ar.plug = p /\ ar.queue = r
      BY <1>0, <3>1, <3>2, <3>3 DEF ArType
    <3> QED  BY <3>4 DEF p, r
  <2>2. Len(Tail(q)) = Len(q) - 1 /\ Len(q) \in Nat /\ Tail(q) \in Seq(SlotNbrs \X SubNbrs)
    BY <2>0, HeadTailProperties, LenProperties
  <2>3. Tail(q) = <<>> <=> Len(q) = 1
    <3> DEFINE r == Tail(q)
    <3>1. r \in Seq(SlotNbrs \X SubNbrs) /\ Len(r) = Len(q) - 1 /\ Len(q) \in Nat  BY <2>2
    <3> HIDE DEF r, q
    <3>2. r = <<>> <=> Len(r) = 0  BY <3>1, EmptySeq
    <3>3. r = <<>> <=> Len(q) = 1  BY <3>1, <3>2
    <3> QED  BY <3>3 DEF r
  <2>4. Len(q) > 0
    <3> HIDE DEF q
    <3> QED  BY <2>0, <2>2, EmptySeq
  <2>5. SetAr(a, ar)  BY <1>2
  <2>6. MaxSlots * MaxSubs \in Nat  BY Numbers
  <2> HIDE DEF ar
  <2>7. /\ ar.queue # <<>> => ars[a].queue # <<>>
        /\ Len(ar.queue) <= MaxSlots * MaxSubs
        /\ (ar.plug = "IDLE") <=> (ar.queue = <<>>)
    <3> DEFINE N == MaxSlots * MaxSubs
               r == Tail(q)
    <3>1. Len(q) <= N /\ N \in Nat  BY <1>0, <2>6
    <3>2. Len(r) = Len(q) - 1 /\ (r = <<>> <=> Len(q) = 1) /\ ar.queue = r  BY <2>1, <2>2, <2>3
    <3>3. Len(q) \in Nat /\ q # <<>> /\ q = ars[a].queue
          /\ ar.plug = (IF Len(q) > 1 THEN "WFPRMIND" ELSE "IDLE")
      BY <2>0, <2>1, <2>2
    <3> HIDE DEF N, r, q
    <3>4. Len(ar.queue) <= N /\ ((ar.plug = "IDLE") <=> (ar.queue = <<>>))
      BY <2>4, <3>1, <3>2, <3>3
    <3> QED  BY <3>3, <3>4 DEF N
  <2> QED  BY <1>2, <2>1, <2>5, <2>7, SetArKeeps
<1> QED  BY <1>1, <1>2 DEF PrmEnd, ReleasedCnf, ReadyCnf

\* What is told is added to the queue as far as there is room.
LEMMA QueuedIs ==
  ASSUME NEW ar \in ArType, NEW new \in Seq(SlotNbrs \X SubNbrs),
         Len(ar.queue) <= MaxSlots * MaxSubs, (ar.plug = "IDLE") <=> (ar.queue = <<>>)
  PROVE  LET r == Queued(ar, new)
         IN  /\ r \in ArType /\ r.used = ar.used /\ r.exp = ar.exp
             /\ Len(r.queue) <= MaxSlots * MaxSubs /\ ((r.plug = "IDLE") <=> (r.queue = <<>>))
             /\ r.queue # <<>> => ar.queue # <<>> \/ new # <<>>
             /\ \A k \in 1 .. Len(new) :
                  \/ \E l \in 1 .. Len(r.queue) : r.queue[l] = new[k]
                  \/ Len(r.queue) = MaxSlots * MaxSubs
                       /\ ~(ar.queue = <<>> /\ Len(new) <= MaxSlots * MaxSubs)
<1> DEFINE V == SlotNbrs \X SubNbrs
           old == ar.queue
           N == MaxSlots * MaxSubs
           q == old \o new
           c == IF Len(q) > N THEN N ELSE Len(q)
           cut == SubSeq(q, 1, c)
           p == IF ar.plug = "IDLE" /\ new # <<>> THEN "WFPRMIND" ELSE ar.plug
           r == Queued(ar, new)
<1>1. r = [ar EXCEPT !.queue = cut, !.plug = p]  BY DEF Queued
<1>2. N \in Nat /\ N > 0  BY Numbers
<1>3. old \in Seq(V) /\ new \in Seq(V) /\ Len(old) <= N /\ ((ar.plug = "IDLE") <=> (old = <<>>))
  BY DEF ArType
<1>4. p \in Plugsm /\ (p = "IDLE" <=> old = <<>> /\ new = <<>>)
  BY <1>3 DEF ArType, Plugsm
<1> HIDE DEF V, N, old, p
<1>5. /\ q \in Seq(V) /\ Len(q) = Len(old) + Len(new)
      /\ \A i \in 1 .. Len(new) : q[Len(old) + i] = new[i]
  BY <1>3, ConcatProperties
<1>6. Len(old) \in Nat /\ Len(new) \in Nat /\ (old = <<>> <=> Len(old) = 0) /\ (new = <<>> <=> Len(new) = 0)
  BY <1>3, EmptySeq
<1> HIDE DEF q
<1>7. c \in Nat /\ c <= N /\ c <= Len(q) /\ (c = N \/ c = Len(q)) /\ (c = 0 <=> Len(q) = 0)
  BY <1>2, <1>5, <1>6
<1> HIDE DEF c
<1>8. /\ cut \in Seq(V) /\ Len(cut) = c /\ \A i \in 1 .. c : cut[i] = q[i]
  <2>1. \A i \in 1 .. c : q[i] \in V  BY <1>5, <1>6, <1>7, ElementOfSeq
  <2>2. c \in 0 .. Len(q)  BY <1>5, <1>6, <1>7
  <2> QED  BY <1>5, <1>6, <1>7, <2>1, <2>2, SubSeqProperties
<1> HIDE DEF cut, r
<1>9. /\ r \in ArType /\ r.used = ar.used /\ r.exp = ar.exp /\ r.queue = cut /\ r.plug = p
  <2>1. [ar EXCEPT !.queue = cut] \in ArType  BY <1>8 DEF ArType, V
  <2> QED  BY <1>1, <1>4, <1>8, <2>1 DEF ArType, V
<1>10. cut = <<>> <=> old = <<>> /\ new = <<>>
  <2>1. cut = <<>> <=> Len(cut) = 0  BY <1>8, EmptySeq
  <2> QED  BY <1>5, <1>6, <1>7, <1>8, <2>1
<1>11. ASSUME NEW k \in 1 .. Len(new)
       PROVE  \/ \E l \in 1 .. Len(cut) : cut[l] = new[k]
              \/ Len(cut) = N /\ ~(old = <<>> /\ Len(new) <= N)
  <2>1. CASE Len(old) + k <= c  BY <1>5, <1>6, <1>7, <1>8, <2>1
  <2>2. CASE Len(old) + k > c  BY <1>2, <1>5, <1>6, <1>7, <1>8, <2>2
  <2> QED  BY <1>6, <1>7, <2>1, <2>2
<1>12. Len(cut) <= N  BY <1>7, <1>8
<1> QED  BY <1>4, <1>9, <1>10, <1>11, <1>12 DEF r, N, old

\* Who inherits is a remaining AR that expects the place.
LEMMA InheritsIs ==
  ASSUME Types, NEW a, NEW b \in ArEntries, NEW o \in Seq(ArEntries), NEW i \in Entries, NEW j \in Places,
         FirstOwner(o, ars, tree[i].nbr, tree[i].subs[j].nbr) = b
  PROVE  /\ \E k \in 1 .. Len(o) : o[k] = b
         /\ Expects(ars[b], tree[i].nbr, tree[i].subs[j].nbr)
         /\ <<tree[i].nbr, tree[i].subs[j].nbr>> \in SlotNbrs \X SubNbrs
<1> DEFINE s == tree[i].nbr
           n == tree[i].subs[j].nbr
<1> HIDE DEF s, n
<1>1. PICK k \in 1 .. Len(o) : b = o[k] /\ Expects(ars[b], s, n)
  <2>1. FirstOwner(o, ars, s, n) = b /\ b # None  BY Numbers DEF s, n
  <2> QED  BY <2>1, FirstOwnerIs
<1>2. ars[b].exp \in Seq(ExpModule)  BY ExpectedType
<1>3. s \in SlotNbrs /\ n \in SubNbrs  BY <1>1, <1>2, ExpectsIs
<1> QED  BY <1>1, <1>3 DEF s, n

LEMMA AbortKeeps ==
  ASSUME TreeInv, NEW a \in ArEntries, Abort(a)
  PROVE  Kept
<1> DEFINE w == Without(a)
           told(b) == Announced(a, b, w)
<1>0. /\ Types /\ GoodTree(tree) /\ order \in Seq(ArEntries) /\ ars \in [ArEntries -> ArType] /\ OrderSound
      /\ conn.ar = None /\ NoneConnecting /\ ars[a].used
      /\ \A k \in 1 .. Len(order) : order[k] \in ArEntries /\ ars[order[k]].used
  BY ElementOfSeq DEF TreeInv, Types, Abort, NoneConnecting, OrderSound
<1>1. /\ order' = w /\ tree' = Cleared(a, w) /\ UNCHANGED conn
      /\ ars' = [b \in ArEntries |-> IF b = a THEN BlankAr ELSE IF ~ars[b].used THEN ars[b]
                               ELSE Queued(ars[b], told(b))]
  BY DEF Abort
<1>2. /\ w \in Seq(ArEntries) /\ Len(w) <= Len(order) /\ Len(w) \in Nat
      /\ \A k \in 1 .. Len(w) : w[k] \in ArEntries /\ w[k] # a /\ \E l \in 1 .. Len(order) : order[l] = w[k]
      /\ \A k, l \in 1 .. Len(w) : w[k] = w[l] => k = l
      /\ Len(order) > 0 /\ order[1] # a => Len(w) > 0 /\ w[1] = order[1]
  <2>1. w \in Seq(ArEntries)  BY <1>0, WithoutIs DEF OrderSound
  <2> QED  BY <1>0, <2>1, WithoutIs, ElementOfSeq, LenProperties DEF OrderSound
<1> HIDE DEF w
<1>3. /\ SameButOwners(tree, tree')
      /\ \A i \in Entries : \A j \in Places :
           tree'[i].subs[j].owner =
             IF tree[i].subs[j].owner # a THEN tree[i].subs[j].owner
             ELSE FirstOwner(w, ars, tree[i].nbr, tree[i].subs[j].nbr)
  BY <1>0, <1>1, <1>2, ClearedTree
<1>4. \A i \in Entries : \A j \in Places :
        /\ tree'[i].used = tree[i].used /\ tree'[i].nbr = tree[i].nbr
        /\ tree'[i].subs[j].used = tree[i].subs[j].used /\ tree'[i].subs[j].nbr = tree[i].subs[j].nbr
        /\ tree[i].subs[j].owner \in ArEntries \cup {None}
  BY <1>0, <1>3 DEF SameButOwners, GoodTree, TreeType, SlotType, SubType
<1>5. ASSUME NEW b \in ArEntries
      PROVE  /\ told(b) \in Seq(SlotNbrs \X SubNbrs) /\ Len(told(b)) <= MaxSlots * MaxSubs
             /\ \A i \in Entries : \A j \in Places : Inherits(a, b, w, i, j) =>
                  \E k \in 1 .. Len(told(b)) : told(b)[k] = <<tree[i].nbr, tree[i].subs[j].nbr>>
             /\ told(b) # <<>> => \E i \in Entries : \E j \in Places : Inherits(a, b, w, i, j)
  <2> DEFINE V == SlotNbrs \X SubNbrs
  <2>1. \A i \in Entries : \A j \in Places :
           Inherits(a, b, w, i, j) => <<tree[i].nbr, tree[i].subs[j].nbr>> \in V
    BY <1>0, <1>2, InheritsIs DEF Inherits
  <2> HIDE DEF V
  <2>2. LET r == told(b)
         IN  /\ r \in Seq(V) /\ Len(r) <= MaxSlots * MaxSubs
             /\ \A i \in Entries : \A j \in Places : Inherits(a, b, w, i, j) =>
                  \E k \in 1 .. Len(r) : r[k] = <<tree[i].nbr, tree[i].subs[j].nbr>>
             /\ r # <<>> => \E i \in Entries : \E j \in Places : Inherits(a, b, w, i, j)
    BY <1>0, <2>1, AnnouncedIs
  <2> QED  BY <2>2 DEF V
<1> HIDE DEF told
<1>6. ASSUME NEW b \in ArEntries, b # a, ars[b].used
      PROVE  /\ ars'[b] \in ArType /\ ars'[b].used = ars[b].used /\ ars'[b].exp = ars[b].exp
             /\ Len(ars'[b].queue) <= MaxSlots * MaxSubs
             /\ ((ars'[b].plug = "IDLE") <=> (ars'[b].queue = <<>>))
             /\ ars'[b].queue # <<>> => ars[b].queue # <<>> \/ told(b) # <<>>
             /\ \A k \in 1 .. Len(told(b)) :
                  \/ \E l \in 1 .. Len(ars'[b].queue) : ars'[b].queue[l] = told(b)[k]
                  \/ Len(ars'[b].queue) = MaxSlots * MaxSubs /\ ars[b].queue # <<>>
  <2> DEFINE x == ars[b]
             new == told(b)
             r == Queued(x, new)
  <2>1. ars'[b] = r  BY <1>1, <1>6
  <2>2. /\ x \in ArType /\ new \in Seq(SlotNbrs \X SubNbrs) /\ Len(new) <= MaxSlots * MaxSubs
        /\ Len(x.queue) <= MaxSlots * MaxSubs /\ ((x.plug = "IDLE") <=> (x.queue = <<>>))
    BY <1>0, <1>5 DEF TreeInv, NoneForgotten
  <2> HIDE DEF x, new
  <2>3. /\ r \in ArType /\ r.used = x.used /\ r.exp = x.exp
        /\ Len(r.queue) <= MaxSlots * MaxSubs /\ ((r.plug = "IDLE") <=> (r.queue = <<>>))
        /\ r.queue # <<>> => x.queue # <<>> \/ new # <<>>
        /\ \A k \in 1 .. Len(new) :
             \/ \E l \in 1 .. Len(r.queue) : r.queue[l] = new[k]
             \/ Len(r.queue) = MaxSlots * MaxSubs
                  /\ ~(x.queue = <<>> /\ Len(new) <= MaxSlots * MaxSubs)
    BY <2>2, QueuedIs
  <2> HIDE DEF r
  <2> QED  BY <2>1, <2>2, <2>3 DEF x, new
<1>7. /\ ars'[a] = BlankAr /\ BlankAr \in ArType /\ ~BlankAr.used /\ BlankAr.queue = <<>>
      /\ BlankAr.plug = "IDLE"
      /\ \A b \in ArEntries : b # a /\ ~ars[b].used => ars'[b] = ars[b]
  <2>1. /\ BlankAr \in ArType /\ ~BlankAr.used /\ BlankAr.queue = <<>> /\ BlankAr.plug = "IDLE"
    BY DEF BlankAr, ArType, Plugsm
  <2> QED  BY <1>1, <2>1
<1>8. \A b \in ArEntries : b # a => ars'[b].used = ars[b].used /\ ars'[b].exp = ars[b].exp
  BY <1>6, <1>7
<1>9. \A b \in ArEntries : \A s, n : b # a => Expects(ars'[b], s, n) = Expects(ars[b], s, n)
  BY <1>8, SameExpected
<1>10. ars' \in [ArEntries -> ArType]
  <2>1. \A b \in ArEntries : ars'[b] \in ArType  BY <1>0, <1>6, <1>7
  <2>2. ars' = [b \in ArEntries |-> ars'[b]]  BY <1>1
  <2> QED  BY <2>1, <2>2
<1>11. \A i \in Entries : \A j \in Places :
         \/ tree[i].subs[j].owner # a /\ tree'[i].subs[j].owner = tree[i].subs[j].owner
         \/ /\ tree[i].subs[j].owner = a /\ tree'[i].subs[j].owner = None
            /\ \A k \in 1 .. Len(w) : ~Expects(ars[w[k]], tree[i].nbr, tree[i].subs[j].nbr)
         \/ /\ tree[i].subs[j].owner = a
            /\ tree'[i].subs[j].owner = FirstOwner(w, ars, tree[i].nbr, tree[i].subs[j].nbr)
            /\ \E k \in 1 .. Len(w) : /\ tree'[i].subs[j].owner = w[k]
                                      /\ Expects(ars[w[k]], tree[i].nbr, tree[i].subs[j].nbr)
  <2> SUFFICES ASSUME NEW i \in Entries, NEW j \in Places, tree[i].subs[j].owner = a
               PROVE  \/ /\ tree'[i].subs[j].owner = None
                         /\ \A k \in 1 .. Len(w) : ~Expects(ars[w[k]], tree[i].nbr, tree[i].subs[j].nbr)
                      \/ /\ tree'[i].subs[j].owner = FirstOwner(w, ars, tree[i].nbr, tree[i].subs[j].nbr)
                         /\ \E k \in 1 .. Len(w) :
                              /\ tree'[i].subs[j].owner = w[k]
                              /\ Expects(ars[w[k]], tree[i].nbr, tree[i].subs[j].nbr)
    BY <1>3
  <2> DEFINE s == tree[i].nbr
             n == tree[i].subs[j].nbr
  <2>1. tree'[i].subs[j].owner = FirstOwner(w, ars, s, n)  BY <1>3
  <2> HIDE DEF s, n
  <2>2. \/ /\ FirstOwner(w, ars, s, n) = None
           /\ \A k \in 1 .. Len(w) : ~Expects(ars[w[k]], s, n)
        \/ \E k \in 1 .. Len(w) : FirstOwner(w, ars, s, n) = w[k] /\ Expects(ars[w[k]], s, n)
    BY <1>2, FirstOwnerIs
  <2> QED  BY <2>1, <2>2 DEF s, n
<1>12. Types'
  <2>1. GoodTree(tree')  BY <1>0, <1>3, OwnersGood
  <2> QED  BY <1>0, <1>1, <1>2, <1>10, <2>1 DEF Types
<1>13. OrderSound'  BY <1>0, <1>1, <1>2, <1>8 DEF OrderSound
<1>14. ConnSound'  BY <1>0, <1>1 DEF ConnSound, NoneConnecting
<1>15. ExpectedOnce'
  <2> SUFFICES ASSUME NEW k \in 1 .. Len(w)
               PROVE  \A m \in 1 .. Len(ars'[w[k]].exp) : ~Twice(ars'[w[k]].exp, m)
    BY <1>1 DEF ExpectedOnce
  <2>1. PICK l \in 1 .. Len(order) : order[l] = w[k]  BY <1>2
  <2>2. order[l] # conn.ar  BY <1>0, Numbers
  <2>3. ars'[w[k]].exp = ars[order[l]].exp  BY <1>2, <1>8, <2>1
  <2> QED  BY <2>2, <2>3 DEF TreeInv, ExpectedOnce
<1>16. Cared(tree)'
  <2> SUFFICES ASSUME NEW i \in Entries, NEW j \in Places, tree[i].used, tree[i].subs[j].used,
                      NEW k \in 1 .. Len(w),
                      Expects(ars'[w[k]], tree[i].nbr, tree[i].subs[j].nbr)
               PROVE  tree'[i].subs[j].owner # None
    BY <1>1, <1>4 DEF Cared
  <2>1. PICK l \in 1 .. Len(order) : order[l] = w[k]  BY <1>2
  <2>2. w[k] \in ArEntries /\ w[k] # a  BY <1>2
  <2>3. Expects(ars[w[k]], tree[i].nbr, tree[i].subs[j].nbr)  BY <1>9, <2>2
  <2>4. tree[i].subs[j].owner # None  BY <1>0, <2>1, <2>3, Numbers DEF TreeInv, Cared
  <2>5. \A p \in 1 .. Len(w) : w[p] # None  BY <1>2, Numbers
  <2>6. CASE tree[i].subs[j].owner # a  BY <1>11, <2>4, <2>6
  <2>7. CASE tree[i].subs[j].owner = a
    <3>1. \E p \in 1 .. Len(w) : tree'[i].subs[j].owner = w[p]
      BY <1>11, <2>3, <2>7
    <3> QED  BY <2>5, <3>1
  <2> QED  BY <2>6, <2>7
<1>17. NoneForgotten' /\ (\A b \in ArEntries : Len(ars[b].queue) <= MaxSlots * MaxSubs)'
  <2>1. MaxSlots * MaxSubs \in Nat /\ Len(<<>>) = 0  BY Numbers
  <2> QED  BY <1>6, <1>7, <2>1 DEF TreeInv, NoneForgotten
<1>18. ASSUME MaxAr <= 2, NEW b \in ArEntries, ars'[b].queue # <<>>
       PROVE  b # a /\ ars[b].used /\ Len(w) > 0 /\ w[1] = b
  <2>1. Heard(tree)  BY <1>18 DEF TreeInv
  <2>2. b # a  BY <1>7, <1>18
  <2>3. ASSUME ars[b].queue # <<>>  PROVE order[1] = b /\ ars[b].used /\ Len(order) > 0
    <3>1. Len(order) \in Nat  BY <1>0, LenProperties
    <3> QED  BY <1>0, <2>1, <2>3, <3>1 DEF Heard
  <2>4. CASE ars[b].queue # <<>>  BY <1>2, <2>2, <2>3, <2>4
  <2>5. CASE ars[b].queue = <<>>
    <3>1. ars[b].used /\ told(b) # <<>>  BY <1>6, <1>7, <1>18, <2>2, <2>5
    <3>2. PICK i \in Entries, j \in Places : Inherits(a, b, w, i, j)  BY <1>5, <3>1
    <3>3. PICK k \in 1 .. Len(w) : w[k] = b  BY <1>0, <1>2, <3>2, InheritsIs DEF Inherits
    <3>4. 1 \in 1 .. Len(w) /\ w[1] \in ArEntries /\ w[1] # a  BY <1>2, <3>3
    <3>5. w[1] = b
      <4>1. MaxAr \in Nat /\ w[1] \in 1 .. MaxAr /\ b \in 1 .. MaxAr /\ a \in 1 .. MaxAr
        BY <3>4, TreeAssumption DEF ArEntries
      <4> QED  BY <1>18, <2>2, <3>4, <4>1
    <3> QED  BY <1>2, <2>2, <3>1, <3>3, <3>5
  <2> QED  BY <2>4, <2>5
<1>19. ASSUME MaxAr <= 2  PROVE Heard(tree)'
  <2> SUFFICES ASSUME NEW b \in ArEntries, ars'[b].queue # <<>>, NEW i \in Entries, NEW j \in Places
               PROVE  /\ Len(w) > 0 /\ w[1] = b
                      /\ tree'[i].subs[j].owner \in {None, b}
    BY <1>1, <1>2, <1>18, <1>19 DEF Heard
  <2>1. b # a /\ Len(w) > 0 /\ w[1] = b  BY <1>18, <1>19
  <2>2. tree'[i].subs[j].owner \in ArEntries \cup {None} /\ tree'[i].subs[j].owner # a
    <3>1. \A l \in 1 .. Len(w) : w[l] \in ArEntries /\ w[l] # a  BY <1>2
    <3>2. CASE tree[i].subs[j].owner # a  BY <1>4, <1>11, <3>2
    <3>3. CASE tree'[i].subs[j].owner = None  BY <3>3, Numbers
    <3>4. CASE \E l \in 1 .. Len(w) : tree'[i].subs[j].owner = w[l]  BY <3>1, <3>4
    <3> QED  BY <1>11, <3>2, <3>3, <3>4
  <2>3. MaxAr \in Nat /\ ArEntries = 1 .. MaxAr  BY TreeAssumption DEF ArEntries
  <2> QED  BY <1>19, <2>1, <2>2, <2>3
<1>20. LiveStep
  <2>1. ASSUME NEW i \in Entries, NEW j \in Places, LostAt(tree', ars', i, j)
        PROVE  LostAt(tree, ars, i, j)
    <3>1. CASE tree[i].subs[j].owner # a /\ tree'[i].subs[j].owner = tree[i].subs[j].owner
      BY <1>4, <1>8, <1>9, <2>1, <3>1 DEF LostAt
    <3>2. ASSUME NEW k \in 1 .. Len(w), tree'[i].subs[j].owner = w[k],
                 Expects(ars[w[k]], tree[i].nbr, tree[i].subs[j].nbr)
          PROVE  FALSE
      <4>1. w[k] \in ArEntries /\ w[k] # a /\ ars[w[k]].used  BY <1>0, <1>2
      <4>2. ars'[w[k]].used /\ Expects(ars'[w[k]], tree[i].nbr, tree[i].subs[j].nbr)
        BY <1>8, <1>9, <3>2, <4>1
      <4> QED  BY <1>4, <2>1, <3>2, <4>2 DEF LostAt
    <3>3. tree'[i].subs[j].owner # None  BY <2>1 DEF LostAt
    <3> QED  BY <1>11, <3>1, <3>2, <3>3
  <2>2. Astray(tree', ars') \subseteq Astray(tree, ars)  BY <2>1, AstrayIs, Zenon
  <2> QED  BY <2>2 DEF LiveStep
<1>21. ServedStep
  BY <1>7, <1>11 DEF ServedStep
<1>22. HandedStep
  <2> SUFFICES ASSUME NEW i \in Entries, NEW j \in Places, Bequeathed(i, j)
               PROVE  Told(i, j) \/ (MaxAr > 2 /\ Full(ars'[NewOwner(i, j)]))
    BY DEF HandedStep
  <2> DEFINE b == tree'[i].subs[j].owner
  <2>1. /\ b # None /\ b # tree[i].subs[j].owner /\ NewOwner(i, j) = b
        /\ AsExpected(ars'[b], tree[i], tree[i].subs[j])
    BY Zenon DEF Bequeathed, NewOwner
  <2>2. /\ tree[i].subs[j].owner = a /\ b = FirstOwner(w, ars, tree[i].nbr, tree[i].subs[j].nbr)
        /\ \E k \in 1 .. Len(w) : b = w[k] /\ Expects(ars[w[k]], tree[i].nbr, tree[i].subs[j].nbr)
    BY <1>11, <2>1
  <2> HIDE DEF b
  <2>3. b \in ArEntries /\ b # a /\ ars[b].used /\ Expects(ars[b], tree[i].nbr, tree[i].subs[j].nbr)
    <3>1. PICK k \in 1 .. Len(w) : b = w[k] /\ Expects(ars[w[k]], tree[i].nbr, tree[i].subs[j].nbr)
      BY <2>2
    <3>2. w[k] \in ArEntries /\ w[k] # a /\ \E l \in 1 .. Len(order) : order[l] = w[k]  BY <1>2
    <3> QED  BY <1>0, <3>1, <3>2
  <2>4. AsExpected(ars[b], tree[i], tree[i].subs[j])
    BY <1>8, <2>1, <2>3, SameAsExpected
  <2>5. Inherits(a, b, w, i, j)  BY <2>2, <2>4 DEF Inherits
  <2>6. PICK k \in 1 .. Len(told(b)) : told(b)[k] = <<tree[i].nbr, tree[i].subs[j].nbr>>
    BY <1>5, <2>3, <2>5
  <2>7. \/ \E l \in 1 .. Len(ars'[b].queue) : ars'[b].queue[l] = <<tree[i].nbr, tree[i].subs[j].nbr>>
        \/ Len(ars'[b].queue) = MaxSlots * MaxSubs /\ ars[b].queue # <<>>
    BY <1>6, <2>3, <2>6
  <2>8. CASE \E l \in 1 .. Len(ars'[b].queue) :
               ars'[b].queue[l] = <<tree[i].nbr, tree[i].subs[j].nbr>>
    BY <2>1, <2>8 DEF Told
  <2>9. CASE Len(ars'[b].queue) = MaxSlots * MaxSubs /\ ars[b].queue # <<>>
    <3>1. ASSUME MaxAr <= 2  PROVE FALSE
      <4>1. Heard(tree)  BY <3>1 DEF TreeInv
      <4>2. tree[i].subs[j].owner \notin {None, b}  BY <2>2, <2>3, Numbers
      <4> QED  BY <2>3, <2>9, <4>1, <4>2 DEF Heard
    <3>2. MaxAr \in Nat  BY TreeAssumption
    <3> QED  BY <2>1, <2>9, <3>1, <3>2 DEF Full
  <2> QED  BY <2>7, <2>8, <2>9
<1> QED
  BY <1>12, <1>13, <1>14, <1>15, <1>16, <1>17, <1>19, <1>20, <1>21, <1>22 DEF TreeInv, Kept

\* The AR of a refused Connect goes; who is connected stays as he is.
LEMMA RefusedKeeps ==
  ASSUME TreeInv, ~NoneConnecting, Refused, Sound(tree'),
         \A i \in Entries : \A j \in Places :
           /\ tree[i].used /\ tree[i].subs[j].used /\ tree[i].subs[j].owner # None
           => tree'[i].subs[j].owner = tree[i].subs[j].owner
  PROVE  Kept
<1> DEFINE w == Without(conn.ar)
<1>0. /\ Types /\ GoodTree(tree) /\ order \in Seq(ArEntries) /\ ars \in [ArEntries -> ArType] /\ OrderSound
      /\ conn.ar \in ArEntries /\ conn.ar # None
  BY DEF TreeInv, Types, NoneConnecting
<1>1. /\ order' = w /\ conn' = NoConn /\ ars' = [ars EXCEPT ![conn.ar] = BlankAr]
  BY DEF Refused
<1>2. /\ w \in Seq(ArEntries) /\ Len(w) \in Nat
      /\ \A k \in 1 .. Len(w) : w[k] \in ArEntries /\ w[k] # conn.ar /\ \E l \in 1 .. Len(order) : order[l] = w[k]
      /\ \A k, l \in 1 .. Len(w) : w[k] = w[l] => k = l
      /\ Len(order) > 0 /\ order[1] # conn.ar => Len(w) > 0 /\ w[1] = order[1]
  <2>1. w \in Seq(ArEntries)  BY <1>0, WithoutIs DEF OrderSound
  <2> QED  BY <1>0, <2>1, WithoutIs, ElementOfSeq, LenProperties DEF OrderSound
<1> HIDE DEF w
<1>3. /\ BlankAr \in ArType /\ ~BlankAr.used /\ BlankAr.queue = <<>> /\ BlankAr.plug = "IDLE"
  BY DEF BlankAr, ArType, Plugsm
<1>4. /\ ars' \in [ArEntries -> ArType] /\ ars'[conn.ar] = BlankAr
      /\ \A b \in ArEntries : b # conn.ar => ars'[b] = ars[b]
  BY <1>0, <1>1, <1>3
<1>5. conn'.ar = None /\ conn' \in [ar : ArEntries \cup {None}, mod : Nat, sub : Nat, ok : BOOLEAN]
  BY <1>1 DEF NoConn
<1>6. Types'  BY <1>1, <1>2, <1>4, <1>5 DEF Types, Sound
<1>7. OrderSound'  BY <1>0, <1>1, <1>2, <1>4 DEF OrderSound
<1>8. ConnSound'  BY <1>5 DEF ConnSound, NoneConnecting
<1>9. \A k \in 1 .. Len(w) : ars'[w[k]] = ars[w[k]]  BY <1>2, <1>4
<1>10. ExpectedOnce'
  <2> SUFFICES ASSUME NEW k \in 1 .. Len(w)
               PROVE  \A m \in 1 .. Len(ars'[w[k]].exp) : ~Twice(ars'[w[k]].exp, m)
    BY <1>1 DEF ExpectedOnce
  <2>1. PICK l \in 1 .. Len(order) : order[l] = w[k]  BY <1>2
  <2>2. order[l] # conn.ar /\ ars'[w[k]] = ars[order[l]]  BY <1>2, <1>9, <2>1
  <2> QED  BY <2>2 DEF TreeInv, ExpectedOnce
<1>11. Cared(tree)'
  <2> SUFFICES ASSUME NEW i \in Entries, NEW j \in Places, tree'[i].used, tree'[i].subs[j].used,
                      NEW k \in 1 .. Len(w),
                      Expects(ars'[w[k]], tree'[i].nbr, tree'[i].subs[j].nbr)
               PROVE  tree'[i].subs[j].owner # None
    BY <1>1 DEF Cared
  <2>1. PICK l \in 1 .. Len(order) : order[l] = w[k]  BY <1>2
  <2>2. order[l] # conn.ar /\ Expects(ars[order[l]], tree'[i].nbr, tree'[i].subs[j].nbr)
    BY <1>2, <1>9, <2>1
  <2> QED  BY <2>2 DEF Sound, Cared
<1>12. NoneForgotten' /\ (\A b \in ArEntries : Len(ars[b].queue) <= MaxSlots * MaxSubs)'
  <2>1. MaxSlots * MaxSubs \in Nat /\ Len(<<>>) = 0  BY Numbers
  <2> QED  BY <1>3, <1>4, <2>1 DEF TreeInv, NoneForgotten
<1>13. ASSUME MaxAr <= 2  PROVE Heard(tree)'
  <2>1. Heard(tree')  BY <1>13 DEF Sound
  <2> SUFFICES ASSUME NEW b \in ArEntries, ars'[b].queue # <<>>
               PROVE  /\ Len(w) > 0 /\ w[1] = b
                      /\ \A i \in Entries : \A j \in Places :
                           tree'[i].subs[j].owner \notin {None, b}
                             => ~Expects(ars'[b], tree'[i].nbr, tree'[i].subs[j].nbr)
    BY <1>1 DEF Heard
  <2>2. b # conn.ar /\ ars'[b] = ars[b]  BY <1>3, <1>4
  <2> QED  BY <1>2, <2>1, <2>2 DEF Heard
<1>14. LiveStep  BY <1>1, <1>3, <1>4 DEF LiveStep
<1>15. ServedStep /\ HandedStep  BY <1>0, KeptOwners DEF GoodTree
<1> QED  BY <1>6, <1>7, <1>8, <1>10, <1>11, <1>12, <1>13, <1>14, <1>15 DEF TreeInv, Kept

\* The Connect goes on to its next module or submodule.
LEMMA ConnectGoesOn ==
  ASSUME TreeInv, UNCHANGED <<order, ars>>, Sound(tree'), ConnSound', ~NoneConnecting,
         conn' \in [ar : ArEntries \cup {None}, mod : Nat, sub : Nat, ok : BOOLEAN], conn'.ar = conn.ar,
         \A i \in Entries : \A j \in Places : LostAt(tree', ars, i, j) => LostAt(tree, ars, i, j),
         \A i \in Entries : \A j \in Places :
           /\ tree[i].used /\ tree[i].subs[j].used /\ tree[i].subs[j].owner # None
           => tree'[i].subs[j].owner = tree[i].subs[j].owner
  PROVE  Kept
<1>1. Types'  BY DEF TreeInv, Types, Sound
<1>2. OrderSound' /\ ExpectedOnce' /\ NoneForgotten'
  BY DEF TreeInv, OrderSound, ExpectedOnce, NoneForgotten, Twice
<1>3. Cared(tree)'  BY DEF Sound, Cared
<1>4. (MaxAr <= 2 => Heard(tree))'  BY DEF Sound, Heard
<1>5. (\A a \in ArEntries : Len(ars[a].queue) <= MaxSlots * MaxSubs)'  BY DEF TreeInv
<1>6. TreeInv'  BY <1>1, <1>2, <1>3, <1>4, <1>5 DEF TreeInv
<1>7. LiveStep
  <2>1. Astray(tree', ars) \subseteq Astray(tree, ars)  BY AstrayIs, Zenon
  <2> QED  BY <2>1 DEF LiveStep
<1>8. ServedStep /\ HandedStep  BY KeptOwners DEF TreeInv, Types, GoodTree
<1> QED  BY <1>6, <1>7, <1>8 DEF Kept

LEMMA ConnectedKeeps ==
  ASSUME TreeInv, Connected
  PROVE  Kept
<1>0. /\ Types /\ GoodTree(tree) /\ OrderSound /\ ConnSound /\ Exp = ars[conn.ar].exp
      /\ conn.ar \in ArEntries /\ conn' = NoConn /\ conn.mod > Len(Exp) /\ ~NoneConnecting
      /\ UNCHANGED <<tree, order, ars>> /\ Exp \in Seq(ExpModule) /\ Len(Exp) \in Nat
      /\ conn.mod \in Nat
  <2>1. conn.ar \in ArEntries /\ ~NoneConnecting /\ Types
    BY DEF TreeInv, Types, NoneConnecting, Connected
  <2>2. Exp \in Seq(ExpModule) /\ Exp = ars[conn.ar].exp  BY <2>1, ExpectedType DEF Exp
  <2>3. Len(Exp) \in Nat  BY <2>2, LenProperties
  <2>4. conn.mod \in Nat  BY <2>1 DEF Types
  <2> QED  BY <2>1, <2>2, <2>3, <2>4 DEF TreeInv, Types, Connected, Asked
<1>1. conn'.ar = None /\ conn' \in [ar : ArEntries \cup {None}, mod : Nat, sub : Nat, ok : BOOLEAN]
  BY <1>0 DEF NoConn
<1>2. \A m \in 1 .. Len(Exp) : ~Twice(Exp, m) /\ m < conn.mod
  BY <1>0 DEF ConnSound
<1>3. ExpectedOnce'
  <2> SUFFICES ASSUME NEW k \in 1 .. Len(order)
               PROVE  \A m \in 1 .. Len(ars[order[k]].exp) : ~Twice(ars[order[k]].exp, m)
    BY <1>0 DEF ExpectedOnce
  <2>1. CASE order[k] = conn.ar  BY <1>0, <1>2, <2>1
  <2>2. CASE order[k] # conn.ar  BY <2>2 DEF TreeInv, ExpectedOnce
  <2> QED  BY <2>1, <2>2
<1>4. Cared(tree)'
  <2> SUFFICES ASSUME NEW i \in Entries, NEW j \in Places, tree[i].used, tree[i].subs[j].used,
                      NEW k \in 1 .. Len(order),
                      Expects(ars[order[k]], tree[i].nbr, tree[i].subs[j].nbr)
               PROVE  tree[i].subs[j].owner # None
    BY <1>0 DEF Cared
  <2>1. CASE order[k] # conn.ar  BY <2>1 DEF TreeInv, Cared
  <2>2. CASE order[k] = conn.ar
    <3> DEFINE a == ars[conn.ar]
               s == tree[i].nbr
               n == tree[i].subs[j].nbr
               m == ExpMod(a, s)
               x == ExpSubOf(a, s, n)
    <3>1. /\ m \in 1 .. Len(Exp) /\ Exp[m].nbr = s
          /\ x \in 1 .. Len(Exp[m].subs) /\ Exp[m].subs[x].nbr = n
      <4>1. Expects(a, s, n) /\ a.exp \in Seq(ExpModule) /\ Exp = a.exp  BY <1>0, <2>2
      <4> HIDE DEF a, s, n
      <4> QED  BY <4>1, ExpectsIs DEF m, x
    <3>2. Done(m, x)  BY <1>2, <3>1 DEF Done
    <3>3. TakenUp(tree)  BY <1>0 DEF ConnSound
    <3> HIDE DEF m, x
    <3> QED  BY <3>1, <3>2, <3>3 DEF TakenUp
  <2> QED  BY <2>1, <2>2
<1>5. Types' /\ OrderSound' /\ NoneForgotten' /\ ConnSound'
      /\ (\A a \in ArEntries : Len(ars[a].queue) <= MaxSlots * MaxSubs)'
  BY <1>0, <1>1 DEF TreeInv, Types, OrderSound, NoneForgotten, ConnSound, NoneConnecting
<1>6. (MaxAr <= 2 => Heard(tree))'  BY <1>0 DEF TreeInv, Heard
<1>7. TreeInv'  BY <1>3, <1>4, <1>5, <1>6 DEF TreeInv
<1>8. LiveStep  BY <1>0 DEF LiveStep
<1>9. ServedStep /\ HandedStep  BY <1>0, KeptOwners DEF GoodTree
<1> QED  BY <1>7, <1>8, <1>9 DEF Kept

LEMMA RefuseConnectKeeps ==
  ASSUME TreeInv, RefuseConnect
  PROVE  Kept
<1>1. Sound(tree)  BY DEF TreeInv, Types, ConnSound, Sound
<1> QED  BY <1>1, RefusedKeeps DEF RefuseConnect

\* The module and the submodule at which a Connect is.
LEMMA AtModule ==
  ASSUME TreeInv, Asked
  PROVE  /\ conn.ar \in ArEntries /\ Exp = ars[conn.ar].exp /\ Exp \in Seq(ExpModule)
         /\ Len(Exp) \in Nat /\ conn.mod \in 1 .. Len(Exp) /\ conn.sub \in Nat
         /\ TheMod \in ExpModule /\ TheMod.nbr \in SlotNbrs /\ TheMod.ident \in Modules
         /\ TheMod.subs \in Seq(ExpSub) /\ Len(TheMod.subs) \in Nat
         /\ \A x \in 1 .. Len(TheMod.subs) : TheMod.subs[x].nbr \in SubNbrs
<1>1. conn.ar \in ArEntries /\ ~NoneConnecting /\ Types /\ ConnSound
  BY DEF TreeInv, Types, NoneConnecting, Asked
<1>2. Exp \in Seq(ExpModule) /\ Exp = ars[conn.ar].exp  BY <1>1, ExpectedType DEF Exp
<1>3. Len(Exp) \in Nat  BY <1>2, LenProperties
<1>4. conn.mod \in 1 .. Len(Exp) /\ conn.sub \in Nat
  BY <1>1, <1>3 DEF Types, ConnSound, Asked
<1>5. TheMod \in ExpModule  BY <1>2, <1>4, ElementOfSeq DEF TheMod
<1>6. /\ TheMod.nbr \in SlotNbrs /\ TheMod.ident \in Modules /\ TheMod.subs \in Seq(ExpSub)
  BY <1>5 DEF ExpModule
<1>7. \A x \in 1 .. Len(TheMod.subs) : TheMod.subs[x] \in ExpSub  BY <1>6, ElementOfSeq
<1>8. \A x \in 1 .. Len(TheMod.subs) : TheMod.subs[x].nbr \in SubNbrs  BY <1>7 DEF ExpSub
<1>9. Len(TheMod.subs) \in Nat  BY <1>6, LenProperties
<1> QED  BY <1>1, <1>2, <1>3, <1>4, <1>5, <1>6, <1>8, <1>9

LEMMA TakeModuleKeeps ==
  ASSUME TreeInv, NEW plug \in Modules \cup {None}, TakeModule(plug)
  PROVE  Kept
<1>0. /\ Asked /\ conn.sub = 0 /\ ~NoneConnecting /\ Types /\ ConnSound
      /\ conn \in [ar : ArEntries \cup {None}, mod : Nat, sub : Nat, ok : BOOLEAN]
  BY DEF TakeModule, Asked, TreeInv, Types
<1>1. TheMod.nbr \in SlotNbrs /\ conn.mod \in 1 .. Len(Exp) /\ Len(TheMod.subs) \in Nat
      /\ TheMod.subs \in Seq(ExpSub) /\ Len(Exp) \in Nat
  BY <1>0, AtModule
<1>2. Plugged(tree')
  <2>1. CASE tree' = tree  BY <2>1, NothingPlugged
  <2>2. CASE tree' # tree
    <3>1. plug # None /\ tree' = PlugModule(tree, TheMod.nbr, plug)
      BY <2>2 DEF TakeModule
    <3>2. plug \in Modules  BY <3>1
    <3> QED  BY <1>1, <3>1, <3>2, ModulePlugged
  <2> QED  BY <2>1, <2>2
<1>3. /\ Sound(tree')
      /\ \A i \in Entries : \A j \in Places : LostAt(tree', ars, i, j) => LostAt(tree, ars, i, j)
      /\ \A i \in Entries : \A j \in Places :
           tree[i].used /\ tree[i].subs[j].used => tree'[i].subs[j] = tree[i].subs[j]
  BY <1>2, PluggedKeeps, Zenon
<1>4. CASE Refused
  BY <1>0, <1>3, <1>4, RefusedKeeps
<1>5. CASE ~Refused
  <2>1. /\ ~Twice(Exp, conn.mod) /\ Slot(tree', TheMod.nbr) # None /\ TheMod.subs # <<>>
        /\ conn' = [conn EXCEPT !.sub = 1] /\ UNCHANGED <<order, ars>>
    BY <1>5 DEF TakeModule
  <2>2. /\ conn'.ar = conn.ar /\ conn'.mod = conn.mod /\ conn'.sub = 1 /\ conn'.ok = conn.ok
        /\ conn' \in [ar : ArEntries \cup {None}, mod : Nat, sub : Nat, ok : BOOLEAN]
    BY <1>0, <2>1
  <2>3. 1 \in 1 .. Len(TheMod.subs)  BY <1>1, <2>1, EmptySeq
  <2>4. Exp' = Exp /\ TheMod' = TheMod  BY <2>1, <2>2 DEF Exp, TheMod
  <2>5. TakenUp(tree')  BY <1>0, <1>3 DEF Sound
  <2>6. \A m \in 1 .. Len(Exp) : \A x \in 1 .. Len(Exp[m].subs) : Done(m, x)' => Done(m, x)
    <3> SUFFICES ASSUME NEW m \in 1 .. Len(Exp), NEW x \in 1 .. Len(Exp[m].subs), Done(m, x)'
                 PROVE  Done(m, x)
      OBVIOUS
    <3>1. m < conn.mod \/ (m = conn.mod /\ x < 1)  BY <2>2 DEF Done
    <3>2. m = conn.mod => x \in 1 .. Len(TheMod.subs)  BY DEF TheMod
    <3> QED  BY <1>1, <3>1, <3>2 DEF Done
  <2>7. TakenUp(tree)'  BY <2>4, <2>5, <2>6 DEF TakenUp
  <2>8. ConnSound'
    BY <1>0, <1>1, <2>1, <2>2, <2>3, <2>4, <2>7 DEF ConnSound
  <2> QED  BY <1>0, <1>3, <2>1, <2>2, <2>8, ConnectGoesOn
<1> QED  BY <1>4, <1>5

LEMMA TakeSubmoduleKeeps ==
  ASSUME TreeInv, NEW plug \in Submodules \cup {None}, NEW sound \in BOOLEAN,
         TakeSubmodule(plug, sound)
  PROVE  Kept
<1> DEFINE sub == TheMod.subs[conn.sub]
           t == IF SubFull(tree, TheMod.nbr, sub.nbr) # None \/ plug = None THEN tree
                ELSE PlugSubmodule(tree, order, ars, TheMod.nbr, sub.nbr, TheMod.ident, plug)
           i == Slot(t, TheMod.nbr)
           j == Sub(t[i], sub.nbr)
           ok == conn.ok /\ ~Twice(TheMod.subs, conn.sub) /\ j # None /\ sound
           last == conn.sub = Len(TheMod.subs)
<1>0. /\ Asked /\ conn.sub > 0 /\ ~NoneConnecting /\ Types /\ ConnSound
      /\ conn \in [ar : ArEntries \cup {None}, mod : Nat, sub : Nat, ok : BOOLEAN]
  BY DEF TakeSubmodule, Asked, TreeInv, Types
<1>1. /\ conn.ar \in ArEntries /\ conn.ar # None /\ conn.mod \in 1 .. Len(Exp) /\ Len(Exp) \in Nat
      /\ TheMod.nbr \in SlotNbrs /\ TheMod.ident \in Modules /\ Len(TheMod.subs) \in Nat
      /\ conn.sub \in 1 .. Len(TheMod.subs) /\ sub.nbr \in SubNbrs
  BY <1>0, AtModule, Numbers DEF ConnSound
<1>2. /\ tree' = IF ok /\ Takes(t[i].subs[j]) THEN GivenTo(t, i, j, conn.ar) ELSE t
      /\ IF last /\ ~ok THEN Refused
         ELSE /\ conn' = IF last THEN [conn EXCEPT !.mod = @ + 1, !.sub = 0]
                         ELSE [conn EXCEPT !.sub = @ + 1, !.ok = ok]
              /\ UNCHANGED <<order, ars>>
  BY Zenon DEF TakeSubmodule, GivenTo
<1>3. Plugged(t)
  <2>1. CASE t = tree  BY <2>1, NothingPlugged
  <2>2. CASE t # tree
    <3>1. /\ plug # None
          /\ t = PlugSubmodule(tree, order, ars, TheMod.nbr, sub.nbr, TheMod.ident, plug)
      BY <2>2
    <3>2. plug \in Submodules  BY <3>1
    <3> HIDE DEF t, sub
    <3> QED  BY <1>1, <3>1, <3>2, SubmodulePlugged
  <2> QED  BY <2>1, <2>2
<1> HIDE DEF t
<1>4. /\ Sound(t)
      /\ \A k \in Entries : \A l \in Places : LostAt(t, ars, k, l) => LostAt(tree, ars, k, l)
      /\ \A k \in Entries : \A l \in Places :
           tree[k].used /\ tree[k].subs[l].used => t[k].subs[l] = tree[k].subs[l]
      /\ \A s : Slot(tree, s) # None => Slot(t, s) # None
  BY <1>3, PluggedKeeps, Zenon
<1>5. i # None /\ i \in Entries /\ t[i].used /\ t[i].nbr = TheMod.nbr
  <2>1. i # None  BY <1>0, <1>4 DEF ConnSound
  <2> QED  BY <2>1, SlotIs
<1>6. ASSUME j # None  PROVE j \in Places /\ t[i].subs[j].used /\ t[i].subs[j].nbr = sub.nbr
  BY <1>6, SubIs
<1> HIDE DEF i, j
<1>7. Expects(ars[conn.ar], TheMod.nbr, sub.nbr)
  BY <1>0, <1>1, DoneExpected DEF TheMod
<1> HIDE DEF sub
<1>8. ok \in BOOLEAN /\ (ok => conn.ok /\ j # None)  BY <1>0
<1> HIDE DEF ok
<1>9. /\ Sound(tree')
      /\ \A k \in Entries : \A l \in Places : LostAt(tree', ars, k, l) => LostAt(tree, ars, k, l)
      /\ \A k \in Entries : \A l \in Places :
           /\ tree[k].used /\ tree[k].subs[l].used /\ tree[k].subs[l].owner # None
           => tree'[k].subs[l].owner = tree[k].subs[l].owner
      /\ Slot(tree', TheMod.nbr) # None
      /\ ok => /\ j \in Places /\ tree'[i].used /\ tree'[i].nbr = TheMod.nbr
               /\ tree'[i].subs[j].used /\ tree'[i].subs[j].nbr = sub.nbr
               /\ tree'[i].subs[j].owner # None
  <2>1. CASE ok /\ Takes(t[i].subs[j])
    <3> DEFINE v == GivenTo(t, i, j, conn.ar)
    <3>1. j \in Places /\ t[i].subs[j].used /\ t[i].subs[j].nbr = sub.nbr
          /\ t[i].subs[j].owner = None
      BY <1>6, <1>8, <2>1 DEF Takes
    <3>2. Expects(ars[conn.ar], t[i].nbr, t[i].subs[j].nbr)  BY <1>5, <1>7, <3>1
    <3>3. /\ Sound(v) /\ SameButOwners(t, v) /\ v[i].subs[j].owner = conn.ar
          /\ \A k \in Entries : \A l \in Places : k # i \/ l # j => v[k].subs[l] = t[k].subs[l]
          /\ \A k \in Entries : \A l \in Places : LostAt(v, ars, k, l) => LostAt(t, ars, k, l)
      BY <1>0, <1>4, <1>5, <3>1, <3>2, TakenKeeps
    <3>4. tree' = v  BY <1>2, <2>1
    <3> HIDE DEF v
    <3>5. ASSUME NEW k \in Entries, NEW l \in Places,
                 tree[k].used, tree[k].subs[l].used, tree[k].subs[l].owner # None
          PROVE  v[k].subs[l].owner = tree[k].subs[l].owner
      BY <1>4, <3>1, <3>3, <3>5
    <3>6. v[i].used /\ v[i].nbr = TheMod.nbr /\ v[i].subs[j].used /\ v[i].subs[j].nbr = sub.nbr
      BY <1>5, <3>1, <3>3 DEF SameButOwners
    <3>7. Slot(v, TheMod.nbr) # None  BY <1>5, <3>6, SlotIs
    <3> QED  BY <1>1, <1>4, <3>1, <3>3, <3>4, <3>5, <3>6, <3>7
  <2>2. CASE ~(ok /\ Takes(t[i].subs[j]))
    <3>1. tree' = t  BY <1>2, <2>2
    <3>2. ok => j \in Places /\ t[i].subs[j].used /\ t[i].subs[j].nbr = sub.nbr
                /\ t[i].subs[j].owner # None
      BY <1>6, <1>8, <2>2 DEF Takes
    <3>3. Slot(t, TheMod.nbr) # None  BY <1>5 DEF i
    <3> QED  BY <1>4, <1>5, <3>1, <3>2, <3>3
  <2> QED  BY <2>1, <2>2
<1>10. CASE last /\ ~ok
  <2>1. Refused  BY <1>2, <1>10
  <2> QED  BY <1>0, <1>9, <2>1, RefusedKeeps
<1>11. CASE ~(last /\ ~ok)
  <2>1. /\ conn' = IF last THEN [conn EXCEPT !.mod = @ + 1, !.sub = 0]
                   ELSE [conn EXCEPT !.sub = @ + 1, !.ok = ok]
        /\ UNCHANGED <<order, ars>>
    BY <1>2, <1>11
  <2>2. /\ conn' \in [ar : ArEntries \cup {None}, mod : Nat, sub : Nat, ok : BOOLEAN]
        /\ conn'.ar = conn.ar
        /\ last => conn'.mod = conn.mod + 1 /\ conn'.sub = 0 /\ conn'.ok = conn.ok /\ ok
        /\ ~last => conn'.mod = conn.mod /\ conn'.sub = conn.sub + 1 /\ conn'.ok = ok
    <3> HIDE DEF last
    <3>1. CASE last
      <4>1. conn' = [[conn EXCEPT !.mod = @ + 1] EXCEPT !.sub = 0]  BY <2>1, <3>1
      <4>2. [conn EXCEPT !.mod = @ + 1] \in [ar : ArEntries \cup {None}, mod : Nat, sub : Nat, ok : BOOLEAN]
        BY <1>0
      <4> QED  BY <1>0, <1>11, <3>1, <4>1, <4>2
    <3>2. CASE ~last
      <4>1. conn' = [[conn EXCEPT !.sub = @ + 1] EXCEPT !.ok = ok]  BY <2>1, <3>2
      <4>2. [conn EXCEPT !.sub = @ + 1] \in [ar : ArEntries \cup {None}, mod : Nat, sub : Nat, ok : BOOLEAN]
        BY <1>0
      <4> QED  BY <1>0, <1>8, <3>2, <4>1, <4>2
    <3> QED  BY <3>1, <3>2
  <2>3. Exp' = Exp  BY <2>1, <2>2 DEF Exp
  <2>4. ~last => TheMod' = TheMod  BY <2>2, <2>3 DEF TheMod
  <2>5. TakenUp(tree') /\ GoodTree(tree')  BY <1>0, <1>9 DEF Sound
  <2>6. ASSUME NEW m \in 1 .. Len(Exp), NEW x \in 1 .. Len(Exp[m].subs), Done(m, x)', ~Done(m, x)
        PROVE  m = conn.mod /\ x = conn.sub /\ ok
    <3>1. CASE last
      <4>1. m < conn.mod + 1  BY <2>2, <2>6, <3>1 DEF Done
      <4>2. m = conn.mod  BY <1>0, <1>1, <2>6, <4>1 DEF Done
      <4>3. x \in 1 .. conn.sub  BY <3>1, <4>2 DEF TheMod
      <4>4. x = conn.sub  BY <1>1, <1>8, <2>2, <2>6, <3>1, <4>2, <4>3 DEF Done
      <4> QED  BY <2>2, <3>1, <4>2, <4>4
    <3>2. CASE ~last
      <4>1. m < conn.mod \/ (m = conn.mod /\ x < conn.sub + 1 /\ ok)
        BY <2>2, <2>6, <3>2 DEF Done
      <4>2. m = conn.mod /\ x < conn.sub + 1 /\ ok  BY <2>6, <4>1 DEF Done
      <4>3. x \in 1 .. Len(TheMod.subs)  BY <4>2 DEF TheMod
      <4> QED  BY <1>1, <1>8, <2>6, <4>2, <4>3 DEF Done
    <3> QED  BY <3>1, <3>2
  <2>7. TakenUp(tree)'
    <3> SUFFICES ASSUME NEW m \in 1 .. Len(Exp), NEW x \in 1 .. Len(Exp[m].subs), Done(m, x)',
                        NEW k \in Entries, NEW l \in Places,
                        tree'[k].used, tree'[k].nbr = Exp[m].nbr,
                        tree'[k].subs[l].used, tree'[k].subs[l].nbr = Exp[m].subs[x].nbr
                 PROVE  tree'[k].subs[l].owner # None
      BY <2>3 DEF TakenUp
    <3>1. CASE Done(m, x)  BY <2>5, <3>1 DEF TakenUp
    <3>2. CASE ~Done(m, x)
      <4>1. m = conn.mod /\ x = conn.sub /\ ok  BY <2>6, <3>2
      <4>2. Exp[m].nbr = TheMod.nbr /\ Exp[m].subs[x].nbr = sub.nbr  BY <4>1 DEF TheMod, sub
      <4>3. k = i  BY <1>5, <1>9, <2>5, <4>1, <4>2 DEF GoodTree, SlotsOnce
      <4>4. l = j
        <5>1. SubsOnce(tree')  BY <2>5 DEF GoodTree
        <5> QED  BY <1>5, <1>9, <4>1, <4>2, <4>3, <5>1 DEF SubsOnce
      <4> QED  BY <1>9, <4>1, <4>3, <4>4
    <3> QED  BY <3>1, <3>2
  <2>8. ConnSound'
    <3>1. /\ \E k \in 1 .. Len(order') : order'[k] = conn'.ar
          /\ ars'[conn'.ar].queue = <<>> /\ ars'[conn'.ar].plug = "IDLE"
      BY <1>0, <2>1, <2>2 DEF ConnSound
    <3>2. /\ ~Twice(Exp, conn.mod) /\ \A m \in 1 .. conn.mod - 1 : ~Twice(Exp, m)
      BY <1>0 DEF ConnSound
    <3>3. CASE last
      <4>1. conn'.mod \in 1 .. Len(Exp') + 1 /\ conn'.sub = 0 /\ conn'.ok
        BY <1>1, <1>8, <2>2, <2>3, <3>3
      <4>2. \A m \in 1 .. conn'.mod - 1 : ~Twice(Exp', m)  BY <1>1, <2>2, <2>3, <3>2, <3>3
      <4> QED  BY <2>7, <3>1, <4>1, <4>2 DEF ConnSound
    <3>4. CASE ~last
      <4>1. /\ conn'.mod = conn.mod /\ conn'.sub \in 1 .. Len(TheMod.subs) /\ conn'.sub > 0
            /\ TheMod' = TheMod
        BY <1>1, <2>2, <2>4, <3>4
      <4> QED  BY <1>1, <1>9, <2>3, <2>7, <3>1, <3>2, <4>1 DEF ConnSound
    <3> QED  BY <3>3, <3>4
  <2> QED  BY <1>0, <1>9, <2>1, <2>2, <2>8, ConnectGoesOn
<1> QED  BY <1>10, <1>11

LEMMA StepKeeps == ASSUME TreeInv, [TreeNext]_treeVars  PROVE  Kept
<1>1. CASE UNCHANGED treeVars
  <2>1. NoneConnecting \/ ~NoneConnecting  OBVIOUS
  <2>2. TreeInv'
    <3>1. Types' /\ OrderSound' /\ ExpectedOnce' /\ NoneForgotten'
      BY <1>1 DEF treeVars, TreeInv, Types, OrderSound, ExpectedOnce, NoneForgotten, Twice
    <3>2. ConnSound'
      BY <1>1 DEF treeVars, TreeInv, ConnSound, NoneConnecting, TakenUp, Done, Exp, TheMod, Twice
    <3>3. Cared(tree)' /\ (MaxAr <= 2 => Heard(tree))'
      BY <1>1 DEF treeVars, TreeInv, Cared, Heard
    <3>4. (\A a \in ArEntries : Len(ars[a].queue) <= MaxSlots * MaxSubs)'  BY <1>1 DEF treeVars, TreeInv
    <3> QED  BY <3>1, <3>2, <3>3, <3>4 DEF TreeInv
  <2>3. LiveStep  BY <1>1 DEF treeVars, LiveStep
  <2>4. ServedStep /\ HandedStep
    BY <1>1, KeptOwners DEF treeVars, TreeInv, Types, GoodTree
  <2> QED  BY <2>2, <2>3, <2>4 DEF Kept
<1>2. ASSUME NEW e \in Expectations, ConnectBegins(e)  PROVE Kept  BY <1>2, ConnectBeginsKeeps
<1>3. ASSUME NEW plug \in Modules \cup {None}, TakeModule(plug)  PROVE Kept
  BY <1>3, TakeModuleKeeps
<1>4. ASSUME NEW plug \in Submodules \cup {None}, NEW sound \in BOOLEAN, TakeSubmodule(plug, sound)
      PROVE  Kept
  BY <1>4, TakeSubmoduleKeeps
<1>5. CASE Connected  BY <1>5, ConnectedKeeps
<1>6. CASE RefuseConnect  BY <1>6, RefuseConnectKeeps
<1>7. ASSUME NEW a \in ArEntries, Abort(a)  PROVE Kept  BY <1>7, AbortKeeps
<1>8. ASSUME NEW a \in ArEntries, (\E accepted \in BOOLEAN : PrmEnd(a, accepted)) \/ ReleasedCnf(a) \/ ReadyCnf(a)
      PROVE  Kept
  BY <1>8, PlugsmSteps
<1>9. CASE ConnectStep  BY <1>2, <1>3, <1>4, <1>5, <1>6, <1>9 DEF ConnectStep
<1>10. ASSUME NEW a \in ArEntries,
              \/ Abort(a)
              \/ \E accepted \in BOOLEAN : PrmEnd(a, accepted)
              \/ ReleasedCnf(a)
              \/ ReadyCnf(a)
       PROVE  Kept
  BY <1>7, <1>8, <1>10
<1>11. CASE TreeNext
  BY <1>9, <1>10, <1>11, ApplSteps, Zenon DEF TreeNext
<1> QED  BY <1>1, <1>11

LEMMA InitHolds == TreeInit => TreeInv
<1> SUFFICES ASSUME TreeInit  PROVE TreeInv
  OBVIOUS
<1>1. GoodTree(tree)
  <2>1. BlankSub \in SubType  BY DEF BlankSub, SubType, None
  <2>2. BlankSlot \in SlotType  BY <2>1 DEF BlankSlot, SlotType, None
  <2>3. tree \in TreeType  BY <2>2 DEF TreeInit, TreeType
  <2>4. \A i \in Entries : ~tree[i].used /\ \A j \in Places : ~tree[i].subs[j].used
    BY DEF TreeInit, BlankSlot, BlankSub
  <2> QED  BY <2>3, <2>4 DEF GoodTree, SlotsOnce, SubsOnce, EmptyUnused
<1>2. \A a \in ArEntries : ars[a] = BlankAr  BY DEF TreeInit
<1>3. Types
  <2>1. BlankAr \in ArType  BY DEF BlankAr, ArType, Plugsm
  <2>2. ars \in [ArEntries -> ArType]  BY <2>1 DEF TreeInit
  <2>3. order \in Seq(ArEntries)  BY DEF TreeInit
  <2> QED  BY <1>1, <2>2, <2>3 DEF Types, TreeInit, NoConn
<1>4. Len(order) = 0  BY DEF TreeInit
<1>5. OrderSound /\ ExpectedOnce /\ Cared(tree)
  BY <1>4 DEF OrderSound, ExpectedOnce, Cared
<1>6. ConnSound  BY DEF TreeInit, ConnSound, NoneConnecting, NoConn
<1>7. NoneForgotten /\ Heard(tree)  BY <1>2 DEF NoneForgotten, Heard, BlankAr
<1>8. \A a \in ArEntries : Len(ars[a].queue) <= MaxSlots * MaxSubs
  <2>1. MaxSlots * MaxSubs \in Nat  BY Numbers
  <2>2. \A a \in ArEntries : Len(ars[a].queue) = 0  BY <1>2 DEF BlankAr
  <2> DEFINE N == MaxSlots * MaxSubs
  <2> HIDE DEF N
  <2>3. N \in Nat  BY <2>1 DEF N
  <2>4. \A a \in ArEntries : Len(ars[a].queue) <= N  BY <2>2, <2>3
  <2> QED  BY <2>4 DEF N
<1> QED  BY <1>3, <1>5, <1>6, <1>7, <1>8 DEF TreeInv

\* The device tree, the ARs and the Connect in progress are in every state
\* as TreeInv says.
THEOREM TreeInvAlways == TreeSpec => []TreeInv
<1>1. TreeInv /\ [TreeNext]_treeVars => TreeInv'  BY StepKeeps DEF Kept
<1> QED  BY <1>1, InitHolds, PTL DEF TreeSpec

\* The types of the tree, of the ARs and of the Connect in progress: TreeTypeOK.
THEOREM TreeTyped == TreeSpec => []TreeTypeOK
<1>1. TreeInv => TreeTypeOK
  <2> SUFFICES ASSUME TreeInv  PROVE TreeTypeOK
    OBVIOUS
  <2>1. tree \in TreeType /\ order \in Seq(ArEntries) /\ ars \in [ArEntries -> ArType]
        /\ conn \in [ar : ArEntries \cup {None}, mod : Nat, sub : Nat, ok : BOOLEAN]
    BY DEF TreeInv, Types, GoodTree
  <2> QED  BY <2>1, Zenon DEF TreeTypeOK, TreeType, SlotType, SubType, ArType
<1> QED  BY <1>1, TreeInvAlways, PTL

\* An AR's machine for Released alarms rests exactly while nothing is queued for it
\* (pf_plugsm.c), whatever is plugged, pulled, connected and released: NoneForgotten.
THEOREM NoneForgottenAlways == TreeSpec => []NoneForgotten
<1>1. TreeInv => NoneForgotten  BY DEF TreeInv
<1> QED  BY <1>1, TreeInvAlways, PTL

\* A submodule that is reported, or not, is not, or is, as it was expected.
LEMMA TruthfulState == TreeInv => DiffTruthful
<1> SUFFICES ASSUME TreeInv, NEW k \in 1 .. Len(order), NEW diag \in SUBSET Places,
                    order[k] # conn.ar, NEW m \in 1 .. Len(ars[order[k]].exp),
                    NEW x \in 1 .. Len(ars[order[k]].exp[m].subs),
                    ModuleState(tree, ars[order[k]].exp[m]) # "SUBSTITUTE"
             PROVE  LET a == order[k]
                        mod == ars[a].exp[m]
                        fine == Fine(a, mod, mod.subs[x], diag)
                    IN  /\ Reported(tree, a, ars[a].exp, m, x, diag) <=> ~fine
                        /\ SubReported(tree, a, ars[a].exp, m, x, diag) <=> ~fine
  BY Zenon DEF DiffTruthful
<1> DEFINE a == order[k]
           mod == ars[a].exp[m]
           sub == mod.subs[x]
           i == Slot(tree, mod.nbr)
           j == Sub(tree[i], sub.nbr)
           state == ModuleState(tree, mod)
           subState == SubState(tree, a, i, sub, diag)
           fine == Fine(a, mod, sub, diag)
<1>1. a \in ArEntries /\ ars[a].exp \in Seq(ExpModule)
  BY ElementOfSeq, ExpectedType DEF TreeInv, Types
<1>2. /\ i = None => state = "NO_MODULE"
      /\ i # None => state = "PROPER"
  BY DEF ModuleState
<1>3. CASE i = None
  <2>1. state = "NO_MODULE"  BY <1>2, <1>3
  <2>2. m \in DiffModules(tree, a, ars[a].exp, diag)  BY <2>1 DEF DiffModules
  <2>3. Reported(tree, a, ars[a].exp, m, x, diag)  BY <2>1, <2>2 DEF Reported
  <2>4. SubReported(tree, a, ars[a].exp, m, x, diag)  BY <2>1 DEF SubReported
  <2>5. ~fine  BY <2>1 DEF Fine
  <2> QED  BY <2>3, <2>4, <2>5
<1>4. CASE i # None
  <2>1. state = "PROPER"  BY <1>2, <1>4
  <2>2. i \in Entries /\ tree[i].used /\ tree[i].nbr = mod.nbr  BY <1>4, SlotIs
  <2>3. j # None => j \in Places /\ tree[i].subs[j].used /\ tree[i].subs[j].nbr = sub.nbr
    BY SubIs
  <2>4. j # None => tree[i].subs[j].owner # None
    <3>1. ~Twice(ars[a].exp, m)  BY DEF TreeInv, ExpectedOnce
    <3>2. x \in Nat
      <4>1. mod \in ExpModule  BY <1>1, ElementOfSeq
      <4>2. mod.subs \in Seq(ExpSub)  BY <4>1 DEF ExpModule
      <4> QED  BY <4>2, LenProperties
    <3>3. Expects(ars[a], mod.nbr, sub.nbr)
      <4> DEFINE r == ars[a]
                 s == mod.nbr
                 n == sub.nbr
      <4>1. /\ r.exp \in Seq(ExpModule) /\ m \in 1 .. Len(r.exp) /\ ~Twice(r.exp, m)
            /\ r.exp[m].nbr = s /\ x \in 1 .. Len(r.exp[m].subs) /\ r.exp[m].subs[x].nbr = n
        BY <1>1, <3>1
      <4> HIDE DEF r, s, n
      <4>2. Expects(r, s, n)  BY <4>1, <3>2, ExpectsIs
      <4> QED  BY <4>2 DEF r, s, n
    <3>4. Cared(tree)  BY DEF TreeInv
    <3> HIDE DEF i, j, sub, mod
    <3> QED  BY <2>2, <2>3, <3>3, <3>4 DEF Cared, a
  <2>5. subState = "OK" <=> fine
    BY <2>1, <2>4 DEF SubState, Fine
  <2>6. DiffSubs(tree, a, mod, diag) =
          {y \in 1 .. Len(mod.subs) : SubState(tree, a, i, mod.subs[y], diag) # "OK"}
    BY <2>1 DEF DiffSubs
  <2>7. x \in DiffSubs(tree, a, mod, diag) <=> subState # "OK"  BY <2>6
  <2>8. x \in DiffSubs(tree, a, mod, diag) => m \in DiffModules(tree, a, ars[a].exp, diag)
    BY <2>1 DEF DiffModules
  <2>9. Reported(tree, a, ars[a].exp, m, x, diag) <=> x \in DiffSubs(tree, a, mod, diag)
    BY <2>1, <2>8 DEF Reported
  <2>10. SubReported(tree, a, ars[a].exp, m, x, diag) <=> subState # "OK"
    BY <2>1 DEF SubReported
  <2> HIDE DEF fine, subState
  <2> QED  BY <2>5, <2>7, <2>9, <2>10 DEF fine
<1> QED  BY <1>3, <1>4

\* An expected submodule is reported to the controller exactly when the AR cannot use
\* it as it is (pf_cmdev_generate_submodule_diff), for any tree, any number of ARs and
\* any expectations: DiffTruthful.
THEOREM DiffTruthfulAlways == TreeSpec => []DiffTruthful
BY TruthfulState, TreeInvAlways, PTL

\* A submodule that a connected AR expects has an owner, and no step but a Connect that
\* is refused half way leaves one to an AR that is gone (pf_device_clear): Owned.
THEOREM OwnedAlways == TreeSpec => Owned
<1>1. TreeInv => NoOrphan  BY NoOrphanIs DEF TreeInv
<1>2. TreeInv /\ [TreeNext]_treeVars =>
        [(~NoneConnecting /\ conn' = NoConn /\ ~ars'[conn.ar].used)
         \/ Astray(tree', ars') \subseteq Astray(tree, ars)]_treeVars
  BY StepKeeps DEF Kept, LiveStep
<1> QED  BY <1>1, <1>2, TreeInvAlways, PTL DEF TreeSpec, Owned, OwnersLive

\* A submodule stays with its owner as long as both are there, and an AR that inherits
\* one that it expects as it is will be told, with more than two ARs unless its queue
\* is full (pf_device_clear, pf_plugsm.c): Inherited.
THEOREM InheritedAlways == TreeSpec => Inherited
<1>1. TreeInv /\ [TreeNext]_treeVars => [ServedStep]_treeVars /\ [HandedStep]_treeVars
  BY StepKeeps DEF Kept
<1>2. TreeSpec => [][ServedStep]_treeVars /\ [][HandedStep]_treeVars
  BY <1>1, TreeInvAlways, PTL DEF TreeSpec
<1> QED  BY <1>2 DEF Inherited, FirstServed, HandedOver, ServedStep, HandedStep
=============================================================================
