--------------------------- MODULE SchedulerProofs ---------------------------
(***************************************************************************)
(* Proofs about Scheduler, for any pool size, any timers and any number of *)
(* threads.  Provided only the main thread removes timers, and only those  *)
(* it alone adds: no slot is ever lost, shared or handed out twice; the    *)
(* busy list is in the order of the deadlines, and a callback runs when it *)
(* is due.  Provided also that a handle is added by one thread: it never   *)
(* has two timers, and only a call on it takes its timer away.             *)
(***************************************************************************)
EXTENDS Scheduler, ListLemmas, FiniteSetTheorems

\* Who uses which handle: pf_cmsm.c, pf_cpm_driver_sw.c, pf_ppm_driver_sw.c,
\* pf_cmrpc.c and pf_alarm.c add and remove their timers from the periodic
\* call; the timer of pf_dcp.c:1935 is added by Ethernet threads, never removed.
Discipline == \A h \in Handles : Removers[h] # {} => MainOnly(h)

\* The pool: the two lists and the slots in hand partition the slots.
Pool ==
  /\ first \in Seq(Slots) /\ free \in Seq(Slots)
  /\ Distinct(first) /\ Distinct(free)
  /\ Busy \cap ToSet(free) = {}
  /\ \A t \in Threads : InHand(t) =>
       job[t].ix \in Slots /\ job[t].ix \notin Busy /\ job[t].ix \notin ToSet(free)
  /\ \A t, u \in Threads : InHand(t) /\ InHand(u) /\ job[t].ix = job[u].ix => t = u
  /\ \A k \in Slots : k \in Busy \/ k \in ToSet(free)
                      \/ \E t \in Threads : InHand(t) /\ job[t].ix = k

\* A call in progress works on a handle its thread uses, and the slot it has
\* filled or linked carries that handle.
Jobs ==
  /\ \A t \in Threads : pc[t] # Ready => job[t].h \in Handles /\ t \in Adders[job[t].h]
  /\ \A t \in Threads : pc[t] = "filled" => owner[job[t].ix] = job[t].h
  /\ \A t \in Threads : pc[t] = "linked" => job[t].ix \in Slots
  /\ pc[Main] = "linked" => job[Main].ix \in Busy /\ owner[job[Main].ix] = job[Main].h

\* A handle of the main thread names an armed slot of its own, or the
\* callback that is about to reset it runs.
MainHandles ==
  \A h \in Handles : MainOnly(h) /\ handle[h] # None =>
    \/ handle[h] \in Busy /\ owner[handle[h]] = h
    \/ cb = h /\ fresh

\* A callback runs only inside a tick.
Shape == TypeOK /\ (cb # NoHandle => lag # None)

IInv == Pool /\ Jobs /\ MainHandles /\ Shape

-----------------------------------------------------------------------------
USE DEF None, Ready

\* The range of a sequence, as the library and the prover write it.
LEMMA ToSetSame == ASSUME NEW s PROVE ToSet(s) = {s[i] : i \in DOMAIN s}
BY DEF ToSet

\* The free list at initialisation.
LEMMA InitialFree ==
  /\ [k \in Slots |-> k] \in Seq(Slots)
  /\ ToSet([k \in Slots |-> k]) = Slots
  /\ Distinct([k \in Slots |-> k])
<1>1. NSlots \in Nat /\ Slots = 1 .. NSlots  BY PoolAssumption DEF Slots
<1>2. [k \in Slots |-> k] \in [1 .. NSlots -> Slots]  BY <1>1
<1>3. [k \in Slots |-> k] \in Seq(Slots)  BY <1>1, <1>2, SeqDef
<1> QED  BY <1>1, <1>3 DEF ToSet, Distinct

\* The invariant holds when pf_scheduler_init() has put every slot in the free list.
THEOREM InitInv == ASSUME Init PROVE IInv
<1> USE ThreadAssumption
<1>1. Busy = {} /\ first \in Seq(Slots) /\ Distinct(first)
  BY DEF Init, Busy, ToSet, Distinct
<1>2. Pool
  BY <1>1, InitialFree DEF Init, Pool, InHand
<1>3. Jobs /\ MainHandles
  BY DEF Init, Jobs, MainHandles
<1>4. Shape
  <2>1. now \in 0 .. ClockMod - 1
    BY ClockAssumption DEF Init
  <2>2. NoJob \in [h : Handles \cup {NoHandle}, ix : Slots \cup {None}, when : Int]
    BY DEF NoJob
  <2>3. /\ in_use \in [Slots -> BOOLEAN] /\ DOMAIN name = Slots
        /\ owner \in [Slots -> Handles \cup {NoHandle}] /\ when \in [Slots -> Int]
        /\ handle \in [Handles -> Slots \cup {None}] /\ pc \in [Threads -> Steps]
        /\ left \in [Slots -> Int]
    BY DEF Init, Steps
  <2>4. job \in [Threads -> [h : Handles \cup {NoHandle}, ix : Slots \cup {None}, when : Int]]
    BY <2>2 DEF Init
  <2>5. first \in Seq(Slots) /\ free \in Seq(Slots)
    BY <1>2 DEF Pool
  <2>6. lag = None /\ cb = NoHandle /\ fresh = FALSE
    BY DEF Init
  <2> QED  BY <2>1, <2>3, <2>4, <2>5, <2>6 DEF Shape, TypeOK
<1> QED  BY <1>2, <1>3, <1>4 DEF IInv

\* The second critical section links at a place of the busy list.
LEMMA PositionInRange ==
  ASSUME first \in Seq(Slots), NEW k \in Slots
  PROVE  Position(k) \in 1 .. Len(first) + 1
<1> DEFINE Lead == {i \in DOMAIN first : \A j \in 1 .. i : Diff(when[k], when[first[j]]) > 0}
<1>1. Len(first) \in Nat /\ DOMAIN first = 1 .. Len(first)  BY ListType
<1>2. IsFiniteSet(1 .. Len(first)) /\ Cardinality(1 .. Len(first)) = Len(first)
  <2>1. 0 \in Int /\ 1 \in Int /\ Len(first) \in Int  BY <1>1
  <2>2. Cardinality(1 .. Len(first)) = IF 1 > Len(first) THEN 0 ELSE Len(first) - 1 + 1
    BY <2>1, FS_Interval
  <2> QED  BY <1>1, <2>1, <2>2, FS_Interval
<1>3. Lead \subseteq 1 .. Len(first)  BY <1>1
<1> HIDE DEF Lead
<1>4. Cardinality(Lead) <= Len(first) /\ IsFiniteSet(Lead)
  BY <1>2, <1>3, FS_Subset
<1>5. Cardinality(Lead) \in Nat  BY <1>4, FS_CardinalityType
<1>6. Position(k) = 1 + Cardinality(Lead)  BY DEF Position, Lead
<1> QED  BY <1>1, <1>4, <1>5, <1>6

-----------------------------------------------------------------------------
(* One lemma per action.                                                   *)

\* Taking the head of the free list puts it in hand.
LEMMA AddTakeInv ==
  ASSUME IInv, NEW t \in Threads, NEW h \in Handles, NEW d \in Delays, AddTake(t, h, d)
  PROVE  IInv'
<1> USE ThreadAssumption
<1> DEFINE k == Head(free)
<1>1. /\ Pool /\ Jobs /\ MainHandles /\ Shape
      /\ free # << >> /\ MayAdd(t, h)
      /\ free' = Tail(free) /\ first' = first
      /\ pc' = [pc EXCEPT ![t] = "taken"]
      /\ job' = [job EXCEPT ![t] = [h |-> h, ix |-> k, when |-> Deadline(d)]]
      /\ left' = [left EXCEPT ![k] = d]
      /\ UNCHANGED <<now, fields, handle, ticking>>
  BY DEF IInv, AddTake
<1>2. k \in Slots /\ k \in ToSet(free) /\ Tail(free) \in Seq(Slots)
      /\ ToSet(Tail(free)) = ToSet(free) \ {k} /\ Distinct(Tail(free))
  BY <1>1, PopSet DEF Pool
<1>3. pc[t] \in {"ready", "restart"}
  BY <1>1 DEF MayAdd, MayCall
<1>4. t \in Adders[h]
  <2>1. CASE pc[t] = "restart" /\ job[t].h = h
    BY <1>1, <2>1 DEF Jobs
  <2>2. CASE ~ (pc[t] = "restart" /\ job[t].h = h)
    BY <1>1, <2>2 DEF MayAdd
  <2> QED  BY <2>1, <2>2
<1>5. Deadline(d) \in Int
  <2>1. now \in Int /\ d \in Int /\ ClockMod \in Nat \ {0}
    BY <1>1, ClockAssumption DEF Shape, TypeOK
  <2> QED  BY <2>1 DEF Deadline
<1> HIDE DEF k
<1>6. Pool'
  <2>1. Busy' = Busy  BY <1>1 DEF Busy
  <2>2. /\ pc'[t] = "taken" /\ job'[t].ix = k
        /\ \A u \in Threads \ {t} : pc'[u] = pc[u] /\ job'[u] = job[u]
    BY <1>1 DEF Shape, TypeOK
  <2>3. \A u \in Threads \ {t} : InHand(u)' <=> InHand(u)  BY <2>2 DEF InHand
  <2>4. InHand(t)' /\ ~ InHand(t)  BY <1>3, <2>2 DEF InHand
  <2>5. \A u \in Threads : InHand(u)' =>
          job'[u].ix \in Slots /\ job'[u].ix \notin Busy' /\ job'[u].ix \notin ToSet(free')
    BY <1>1, <1>2, <2>1, <2>2, <2>3 DEF Pool
  <2>6. \A u, v \in Threads : InHand(u)' /\ InHand(v)' /\ job'[u].ix = job'[v].ix => u = v
    BY <1>1, <1>2, <2>2, <2>3 DEF Pool
  <2>7. ASSUME NEW j \in Slots
        PROVE  j \in Busy' \/ j \in ToSet(free') \/ \E u \in Threads : InHand(u)' /\ job'[u].ix = j
    <3>1. CASE j = k  BY <2>2, <2>4, <3>1
    <3>2. CASE \E u \in Threads : InHand(u) /\ job[u].ix = j
      BY <2>2, <2>3, <2>4, <3>2
    <3> QED  BY <1>1, <1>2, <2>1, <3>1, <3>2 DEF Pool
  <2> QED  BY <1>1, <1>2, <2>1, <2>5, <2>6, <2>7 DEF Pool
<1>7. Jobs'
  <2>1. /\ pc'[t] = "taken" /\ job'[t].h = h
        /\ \A u \in Threads \ {t} : pc'[u] = pc[u] /\ job'[u] = job[u]
    BY <1>1 DEF Shape, TypeOK
  <2>2. Busy' = Busy /\ owner' = owner  BY <1>1 DEF Busy, fields
  <2> QED  BY <1>1, <1>4, <2>1, <2>2 DEF Jobs
<1>8. MainHandles'
  BY <1>1 DEF MainHandles, MainOnly, Busy, fields, ticking
<1>9. Shape'
  <2>1. [h |-> h, ix |-> k, when |-> Deadline(d)] \in
          [h : Handles \cup {NoHandle}, ix : Slots \cup {None}, when : Int]
    BY <1>2, <1>5
  <2>2. d \in Int  BY ClockAssumption
  <2>3. first' \in Seq(Slots) /\ free' \in Seq(Slots)  BY <1>6 DEF Pool
  <2>4. job' \in [Threads -> [h : Handles \cup {NoHandle}, ix : Slots \cup {None}, when : Int]]
    BY <1>1, <2>1 DEF Shape, TypeOK
  <2>5. pc' \in [Threads -> Steps] /\ left' \in [Slots -> Int]
    BY <1>1, <2>2 DEF Shape, TypeOK, Steps
  <2> QED  BY <1>1, <2>3, <2>4, <2>5 DEF Shape, TypeOK, fields, ticking
<1> QED  BY <1>6, <1>7, <1>8, <1>9 DEF IInv

\* Out of slots: nothing but the caller's handle and progress changes.
LEMMA AddFailInv ==
  ASSUME IInv, NEW t \in Threads, NEW h \in Handles, AddFail(t, h)
  PROVE  IInv'
<1> USE ThreadAssumption
<1>1. /\ Pool /\ Jobs /\ MainHandles /\ Shape /\ MayAdd(t, h)
      /\ handle' = [handle EXCEPT ![h] = None]
      /\ pc' = [pc EXCEPT ![t] = "ready"]
      /\ job' = [job EXCEPT ![t] = NoJob]
      /\ fresh' = Served(t, h)
      /\ UNCHANGED <<now, lists, fields, lag, cb, left>>
  BY DEF IInv, AddFail
<1>2. /\ pc'[t] = "ready" /\ job'[t] = NoJob
      /\ \A u \in Threads \ {t} : pc'[u] = pc[u] /\ job'[u] = job[u]
  BY <1>1 DEF Shape, TypeOK
<1>3. pc[t] \in {"ready", "restart"}
  BY <1>1 DEF MayAdd, MayCall
<1>4. \A u \in Threads : (InHand(u)' <=> InHand(u)) /\ (InHand(u) => u # t)
  BY <1>2, <1>3 DEF InHand
<1>5. Busy' = Busy /\ first' = first /\ free' = free /\ owner' = owner
  BY <1>1 DEF Busy, lists, fields
<1>6. Pool'
  <2>1. \A u \in Threads : InHand(u)' => InHand(u) /\ job'[u].ix = job[u].ix
    BY <1>2, <1>4
  <2>2. \A u \in Threads : InHand(u) => InHand(u)' /\ job'[u].ix = job[u].ix
    BY <1>2, <1>4
  <2>3. \A u \in Threads : InHand(u)' =>
          job'[u].ix \in Slots /\ job'[u].ix \notin Busy' /\ job'[u].ix \notin ToSet(free')
    BY <1>1, <1>5, <2>1 DEF Pool
  <2>4. \A u, v \in Threads : InHand(u)' /\ InHand(v)' /\ job'[u].ix = job'[v].ix => u = v
    BY <1>1, <2>1 DEF Pool
  <2>5. \A k \in Slots : k \in Busy' \/ k \in ToSet(free')
                         \/ \E u \in Threads : InHand(u)' /\ job'[u].ix = k
    BY <1>1, <1>5, <2>2 DEF Pool
  <2> QED  BY <1>1, <1>5, <2>3, <2>4, <2>5 DEF Pool
<1>7. Jobs'
  BY <1>1, <1>2, <1>5 DEF Jobs
<1>8. MainHandles'
  <2> SUFFICES ASSUME NEW g \in Handles, MainOnly(g), handle'[g] # None
               PROVE  \/ handle'[g] \in Busy' /\ owner'[handle'[g]] = g
                      \/ cb' = g /\ fresh'
    BY DEF MainHandles, MainOnly
  <2>1. g # h /\ handle'[g] = handle[g]  BY <1>1 DEF Shape, TypeOK
  <2>2. cb = g /\ fresh => fresh'  BY <1>1, <2>1 DEF Served, InCallback
  <2> QED  BY <1>1, <1>5, <2>1, <2>2 DEF MainHandles
<1>9. Shape'
  <2>1. NoJob \in [h : Handles \cup {NoHandle}, ix : Slots \cup {None}, when : Int]
    BY DEF NoJob
  <2>2. fresh' \in BOOLEAN  BY <1>1 DEF Served, Shape, TypeOK
  <2>3. pc' \in [Threads -> Steps]  BY <1>1 DEF Shape, TypeOK, Steps
  <2>4. job' \in [Threads -> [h : Handles \cup {NoHandle}, ix : Slots \cup {None}, when : Int]]
    BY <1>1, <2>1 DEF Shape, TypeOK
  <2>5. handle' \in [Handles -> Slots \cup {None}]  BY <1>1 DEF Shape, TypeOK
  <2> QED  BY <1>1, <2>2, <2>3, <2>4, <2>5 DEF Shape, TypeOK, lists, fields
<1> QED  BY <1>6, <1>7, <1>8, <1>9 DEF IInv

\* in_use is set while the slot is in hand.
LEMMA AddMarkInv ==
  ASSUME IInv, NEW t \in Threads, AddMark(t)
  PROVE  IInv'
<1> USE ThreadAssumption
<1>1. /\ Pool /\ Jobs /\ MainHandles /\ Shape /\ pc[t] = "taken"
      /\ in_use' = [in_use EXCEPT ![job[t].ix] = TRUE]
      /\ pc' = [pc EXCEPT ![t] = "marked"]
      /\ UNCHANGED <<now, lists, name, owner, when, handle, job, ticking, left>>
  BY DEF IInv, AddMark
<1>2. /\ pc'[t] = "marked" /\ \A u \in Threads \ {t} : pc'[u] = pc[u]
      /\ first' = first /\ free' = free /\ Busy' = Busy /\ job' = job
  BY <1>1 DEF Shape, TypeOK, Busy, lists
<1>3. \A u \in Threads : InHand(u)' <=> InHand(u)
  BY <1>1, <1>2 DEF InHand
<1>4. Pool'  BY <1>1, <1>2, <1>3 DEF Pool
<1>5. Jobs'  BY <1>1, <1>2 DEF Jobs
<1>6. MainHandles'  BY <1>1, <1>2 DEF MainHandles, MainOnly, ticking
<1>7. Shape'
  <2>1. pc' \in [Threads -> Steps]  BY <1>1 DEF Shape, TypeOK, Steps
  <2>2. in_use' \in [Slots -> BOOLEAN]  BY <1>1 DEF Shape, TypeOK
  <2> QED  BY <1>1, <2>1, <2>2 DEF Shape, TypeOK, lists, ticking
<1> QED  BY <1>4, <1>5, <1>6, <1>7 DEF IInv

\* The fields of the slot in hand are filled: it is on no list, so no
\* handle of the main thread names it.
LEMMA AddFillInv ==
  ASSUME IInv, NEW t \in Threads, AddFill(t)
  PROVE  IInv'
<1> USE ThreadAssumption
<1> DEFINE k == job[t].ix
<1>1. /\ Pool /\ Jobs /\ MainHandles /\ Shape /\ pc[t] = "marked"
      /\ name' = [name EXCEPT ![k] = NameOf[job[t].h]]
      /\ owner' = [owner EXCEPT ![k] = job[t].h]
      /\ when' = [when EXCEPT ![k] = job[t].when]
      /\ pc' = [pc EXCEPT ![t] = "filled"]
      /\ UNCHANGED <<now, lists, in_use, handle, job, ticking, left>>
  BY DEF IInv, AddFill
<1>2. /\ pc'[t] = "filled" /\ \A u \in Threads \ {t} : pc'[u] = pc[u]
      /\ first' = first /\ free' = free /\ Busy' = Busy /\ job' = job
  BY <1>1 DEF Shape, TypeOK, Busy, lists
<1>3. \A u \in Threads : InHand(u)' <=> InHand(u)
  BY <1>1, <1>2 DEF InHand
<1>4. k \in Slots /\ k \notin Busy /\ InHand(t)
  BY <1>1 DEF Pool, InHand
<1>5. owner'[k] = job[t].h /\ \A j \in Slots \ {k} : owner'[j] = owner[j]
  BY <1>1, <1>4 DEF Shape, TypeOK
<1>6. Pool'  BY <1>1, <1>2, <1>3 DEF Pool
<1>7. Jobs'
  <2>1. \A u \in Threads : pc[u] = "filled" => InHand(u) /\ job[u].ix \in Slots /\ (u # t => job[u].ix # k)
    BY <1>1, <1>4 DEF Pool, InHand
  <2>2. \A u \in Threads : pc'[u] = "filled" => owner'[job'[u].ix] = job'[u].h
    BY <1>1, <1>2, <1>5, <2>1 DEF Jobs
  <2>3. pc'[Main] = "linked" => job'[Main].ix \in Busy' /\ owner'[job'[Main].ix] = job'[Main].h
    <3> SUFFICES ASSUME pc'[Main] = "linked"
                 PROVE  job[Main].ix \in Busy /\ owner'[job[Main].ix] = job[Main].h
      BY <1>2
    <3>1. Main # t /\ pc[Main] = "linked"  BY <1>2
    <3>2. job[Main].ix \in Slots /\ job[Main].ix \in Busy /\ owner[job[Main].ix] = job[Main].h
      BY <1>1, <3>1 DEF Jobs
    <3> QED  BY <1>4, <1>5, <3>2
  <2>4. \A u \in Threads : pc'[u] # "ready" => job'[u].h \in Handles /\ u \in Adders[job'[u].h]
    BY <1>1, <1>2 DEF Jobs
  <2>5. \A u \in Threads : pc'[u] = "linked" => job'[u].ix \in Slots
    BY <1>1, <1>2 DEF Jobs
  <2> QED  BY <2>2, <2>3, <2>4, <2>5 DEF Jobs
<1>8. MainHandles'
  <2> SUFFICES ASSUME NEW g \in Handles, MainOnly(g), handle[g] # None
               PROVE  \/ handle[g] \in Busy /\ owner'[handle[g]] = g
                      \/ cb = g /\ fresh
    BY <1>1, <1>2 DEF MainHandles, MainOnly, ticking
  <2>1. handle[g] \in Slots  BY <1>1 DEF Shape, TypeOK
  <2> QED  BY <1>1, <1>4, <1>5, <2>1 DEF MainHandles
<1>9. Shape'
  <2>1. pc' \in [Threads -> Steps]  BY <1>1 DEF Shape, TypeOK, Steps
  <2>2. job[t] \in [h : Handles \cup {NoHandle}, ix : Slots \cup {None}, when : Int]
    BY <1>1 DEF Shape, TypeOK
  <2>3. /\ owner' \in [Slots -> Handles \cup {NoHandle}]
        /\ when' \in [Slots -> Int] /\ DOMAIN name' = Slots
    BY <1>1, <2>2 DEF Shape, TypeOK
  <2> QED  BY <1>1, <2>1, <2>3 DEF Shape, TypeOK, lists, ticking
<1> QED  BY <1>6, <1>7, <1>8, <1>9 DEF IInv

\* The slot goes from the thread's hands to the busy list.
LEMMA AddLinkInv ==
  ASSUME IInv, NEW t \in Threads, AddLink(t)
  PROVE  IInv'
<1> USE ThreadAssumption
<1> DEFINE k == job[t].ix
<1>1. /\ Pool /\ Jobs /\ MainHandles /\ Shape /\ pc[t] = "filled"
      /\ first' = InsertAt(first, Position(k), k)
      /\ pc' = [pc EXCEPT ![t] = "linked"]
      /\ UNCHANGED <<now, free, fields, handle, job, ticking, left>>
  BY DEF IInv, AddLink
<1>2. /\ pc'[t] = "linked" /\ \A u \in Threads \ {t} : pc'[u] = pc[u]
      /\ free' = free /\ job' = job /\ owner' = owner
  BY <1>1 DEF Shape, TypeOK, fields
<1>3. k \in Slots /\ k \notin Busy /\ k \notin ToSet(free) /\ InHand(t)
  BY <1>1 DEF Pool, InHand
<1>4. ~ InHand(t)' /\ \A u \in Threads \ {t} : InHand(u)' <=> InHand(u)
  BY <1>1, <1>2 DEF InHand
<1> HIDE DEF k
<1>5. first' \in Seq(Slots) /\ Busy' = Busy \cup {k} /\ Distinct(first')
  <2>1. Position(k) \in 1 .. Len(first) + 1
    BY <1>1, <1>3, PositionInRange DEF Pool
  <2> QED  BY <1>1, <1>3, <2>1, InsertAtSet DEF Pool, Busy
<1>6. Pool'
  <2>1. \A u \in Threads \ {t} : InHand(u) => job[u].ix # k
    BY <1>1, <1>3 DEF Pool, k
  <2>2. \A u \in Threads : InHand(u)' =>
          job'[u].ix \in Slots /\ job'[u].ix \notin Busy' /\ job'[u].ix \notin ToSet(free')
    BY <1>1, <1>2, <1>4, <1>5, <2>1 DEF Pool
  <2>3. \A u, v \in Threads : InHand(u)' /\ InHand(v)' /\ job'[u].ix = job'[v].ix => u = v
    BY <1>1, <1>2, <1>4 DEF Pool
  <2>4. ASSUME NEW j \in Slots
        PROVE  j \in Busy' \/ j \in ToSet(free') \/ \E u \in Threads : InHand(u)' /\ job'[u].ix = j
    <3>1. CASE j = k  BY <1>5, <3>1
    <3>2. CASE j # k
      BY <1>1, <1>2, <1>4, <1>5, <3>2 DEF Pool, k
    <3> QED  BY <3>1, <3>2
  <2>5. Busy' \cap ToSet(free') = {}  BY <1>1, <1>2, <1>3, <1>5 DEF Pool
  <2> QED  BY <1>1, <1>2, <1>5, <2>2, <2>3, <2>4, <2>5 DEF Pool
<1>7. Jobs'
  <2>1. pc'[Main] = "linked" => job'[Main].ix \in Busy' /\ owner'[job'[Main].ix] = job'[Main].h
    <3>1. CASE t = Main  BY <1>1, <1>2, <1>5, <3>1 DEF Jobs, k
    <3>2. CASE t # Main  BY <1>1, <1>2, <1>5, <3>2 DEF Jobs
    <3> QED  BY <3>1, <3>2
  <2>2. \A u \in Threads : pc'[u] = "linked" => job'[u].ix \in Slots
    BY <1>1, <1>2, <1>3 DEF Jobs, k
  <2>3. \A u \in Threads : pc'[u] # "ready" => job'[u].h \in Handles /\ u \in Adders[job'[u].h]
    BY <1>1, <1>2 DEF Jobs
  <2>4. \A u \in Threads : pc'[u] = "filled" => owner'[job'[u].ix] = job'[u].h
    BY <1>1, <1>2 DEF Jobs
  <2> QED  BY <2>1, <2>2, <2>3, <2>4 DEF Jobs
<1>8. MainHandles'
  BY <1>1, <1>2, <1>5 DEF MainHandles, MainOnly, ticking
<1>9. Shape'
  <2>1. pc' \in [Threads -> Steps]  BY <1>1 DEF Shape, TypeOK, Steps
  <2> QED  BY <1>1, <1>5, <2>1 DEF Shape, TypeOK, fields, ticking
<1> QED  BY <1>6, <1>7, <1>8, <1>9 DEF IInv

\* The handle is written, outside the mutex, with the slot just linked.
LEMMA AddAssignInv ==
  ASSUME IInv, NEW t \in Threads, AddAssign(t)
  PROVE  IInv'
<1> USE ThreadAssumption
<1> DEFINE k == job[t].ix
           h == job[t].h
<1>1. /\ Pool /\ Jobs /\ MainHandles /\ Shape /\ pc[t] = "linked"
      /\ handle' = [handle EXCEPT ![h] = k]
      /\ pc' = [pc EXCEPT ![t] = "ready"]
      /\ job' = [job EXCEPT ![t] = NoJob]
      /\ fresh' = Served(t, h)
      /\ UNCHANGED <<now, lists, fields, lag, cb, left>>
  BY DEF IInv, AddAssign
<1>2. /\ pc'[t] = "ready" /\ job'[t] = NoJob
      /\ \A u \in Threads \ {t} : pc'[u] = pc[u] /\ job'[u] = job[u]
  BY <1>1 DEF Shape, TypeOK
<1>3. h \in Handles /\ t \in Adders[h] /\ k \in Slots
  BY <1>1 DEF Jobs
<1>4. \A u \in Threads : (InHand(u)' <=> InHand(u)) /\ (InHand(u) => u # t)
  BY <1>1, <1>2 DEF InHand
<1>5. Busy' = Busy /\ first' = first /\ free' = free /\ owner' = owner
  BY <1>1 DEF Busy, lists, fields
<1>6. Pool'  BY <1>1, <1>2, <1>4, <1>5 DEF Pool
<1>7. Jobs'  BY <1>1, <1>2, <1>5 DEF Jobs
<1>8. MainHandles'
  <2> SUFFICES ASSUME NEW g \in Handles, MainOnly(g), handle'[g] # None
               PROVE  \/ handle'[g] \in Busy /\ owner[handle'[g]] = g
                      \/ cb = g /\ fresh'
    BY <1>1, <1>5 DEF MainHandles, MainOnly
  <2>1. CASE g = h
    <3>1. t = Main  BY <1>3, <2>1 DEF MainOnly
    <3>2. k \in Busy /\ owner[k] = h  BY <1>1, <3>1 DEF Jobs
    <3>3. handle'[g] = k  BY <1>1, <1>3, <2>1 DEF Shape, TypeOK
    <3> QED  BY <2>1, <3>2, <3>3
  <2>2. CASE g # h
    <3>1. handle'[g] = handle[g]  BY <1>1, <2>2 DEF Shape, TypeOK
    <3>2. cb = g /\ fresh => fresh'  BY <1>1, <2>2 DEF Served, InCallback
    <3> QED  BY <1>1, <3>1, <3>2 DEF MainHandles
  <2> QED  BY <2>1, <2>2
<1>9. Shape'
  <2>1. NoJob \in [h : Handles \cup {NoHandle}, ix : Slots \cup {None}, when : Int]
    BY DEF NoJob
  <2>2. fresh' \in BOOLEAN  BY <1>1 DEF Served, Shape, TypeOK
  <2>3. pc' \in [Threads -> Steps]  BY <1>1 DEF Shape, TypeOK, Steps
  <2>4. job' \in [Threads -> [h : Handles \cup {NoHandle}, ix : Slots \cup {None}, when : Int]]
    BY <1>1, <2>1 DEF Shape, TypeOK
  <2>5. handle' \in [Handles -> Slots \cup {None}]  BY <1>1, <1>3 DEF Shape, TypeOK
  <2> QED  BY <1>1, <2>2, <2>3, <2>4, <2>5 DEF Shape, TypeOK, lists, fields
<1> QED  BY <1>6, <1>7, <1>8, <1>9 DEF IInv

\* Position of an element of a list.
LEMMA PosInRange ==
  ASSUME NEW s \in Seq(Slots), NEW k \in ToSet(s)
  PROVE  PosIn(s, k) \in 1 .. Len(s) /\ s[PosIn(s, k)] = k
<1>1. DOMAIN s = 1 .. Len(s) /\ \E i \in DOMAIN s : s[i] = k
  BY ListType DEF ToSet
<1> QED  BY <1>1 DEF PosIn

\* What a removal does under the discipline: nothing, or it moves the main
\* thread's own armed slot from the busy to the free list.
LEMMA RemoveEffectFacts ==
  ASSUME IInv, Discipline, NEW t \in Threads, NEW h \in Handles,
         MayRemove(t, h), RemoveEffect(h)
  PROVE  /\ t = Main /\ MainOnly(h) /\ pc[Main] = "ready"
         /\ \/ UNCHANGED <<first, in_use, free, handle, left>>
            \/ \E k \in Slots :
                 /\ handle[h] = k /\ k \in Busy /\ owner[k] = h
                 /\ first' \in Seq(Slots) /\ Distinct(first') /\ ToSet(first') = Busy \ {k}
                 /\ free' \in Seq(Slots) /\ Distinct(free') /\ ToSet(free') = ToSet(free) \cup {k}
                 /\ handle' = [handle EXCEPT ![h] = None]
                 /\ in_use' \in [Slots -> BOOLEAN] /\ left' \in [Slots -> Int]
<1> USE ThreadAssumption
<1>1. Pool /\ Jobs /\ MainHandles /\ Shape  BY DEF IInv
<1>2. t = Main /\ MainOnly(h) /\ pc[Main] = "ready"
  BY DEF MayRemove, MayCall, Discipline, MainOnly
<1>3. ~ (cb = h /\ fresh)  BY <1>2 DEF MayRemove
<1>4. CASE handle[h] # None /\ Recognised(h, handle[h])
  <2> DEFINE k == handle[h]
  <2>1. k \in Slots /\ k \in Busy /\ owner[k] = h
    BY <1>1, <1>2, <1>3, <1>4 DEF MainHandles, Shape, TypeOK
  <2>2. /\ first' = Without(first, k) /\ free' = <<k>> \o free
        /\ in_use' = [in_use EXCEPT ![k] = FALSE]
        /\ handle' = [handle EXCEPT ![h] = None]
        /\ left' = [left EXCEPT ![k] = 0]
    BY <1>4 DEF RemoveEffect
  <2> HIDE DEF k
  <2>3. first' = RemoveAt(first, PosIn(first, k))
    BY <2>1, <2>2 DEF Without, Busy
  <2>4. PosIn(first, k) \in 1 .. Len(first) /\ first[PosIn(first, k)] = k
    BY <1>1, <2>1, PosInRange DEF Pool, Busy
  <2>5. first' \in Seq(Slots) /\ Distinct(first') /\ ToSet(first') = Busy \ {k}
    <3> DEFINE i == PosIn(first, k)
    <3>1. first \in Seq(Slots) /\ Distinct(first) /\ i \in 1 .. Len(first)
          /\ first[i] = k /\ first' = RemoveAt(first, i)
      BY <1>1, <2>3, <2>4 DEF Pool
    <3> HIDE DEF i
    <3>2. /\ RemoveAt(first, i) \in Seq(Slots) /\ Distinct(RemoveAt(first, i))
          /\ ToSet(RemoveAt(first, i)) = ToSet(first) \ {first[i]}
      BY <3>1, RemoveAtSet
    <3>3. ToSet(first) = Busy  BY DEF Busy
    <3> QED  BY <3>1, <3>2, <3>3, Zenon
  <2>6. free' \in Seq(Slots) /\ Distinct(free') /\ ToSet(free') = ToSet(free) \cup {k}
    BY <1>1, <2>1, <2>2, PushSet DEF Pool
  <2>7. in_use' \in [Slots -> BOOLEAN] /\ left' \in [Slots -> Int]
    <3>1. in_use \in [Slots -> BOOLEAN] /\ left \in [Slots -> Int]
      BY <1>1 DEF Shape, TypeOK
    <3>2. in_use' = [in_use EXCEPT ![k] = FALSE] /\ left' = [left EXCEPT ![k] = 0]
      BY <2>2
    <3>3. in_use' \in [Slots -> BOOLEAN]  BY <3>1, <3>2
    <3>4. left' \in [Slots -> Int]
      <4>1. left' = [i \in Slots |-> IF i = k THEN 0 ELSE left[i]]
        BY <3>1, <3>2
      <4>2. \A i \in Slots : (IF i = k THEN 0 ELSE left[i]) \in Int
        BY <3>1
      <4> QED  BY <4>1, <4>2, Zenon
    <3> QED  BY <3>3, <3>4
  <2> QED  BY <1>2, <2>1, <2>2, <2>5, <2>6, <2>7 DEF k
<1>5. CASE ~ (handle[h] # None /\ Recognised(h, handle[h]))
  BY <1>2, <1>5 DEF RemoveEffect
<1> QED  BY <1>4, <1>5

\* A removal, alone or as the first half of a restart, keeps the invariant
\* when the caller's progress stays outside pf_scheduler_add().
LEMMA RemovalInv ==
  ASSUME IInv, Discipline, NEW t \in Threads, NEW h \in Handles,
         MayRemove(t, h), RemoveEffect(h),
         UNCHANGED <<now, name, owner, when, ticking>>,
         pc' \in [Threads -> Steps],
         job' \in [Threads -> [h : Handles \cup {NoHandle}, ix : Slots \cup {None}, when : Int]],
         pc'[t] \in {"ready", "restart"},
         pc'[t] = "restart" => job'[t].h = h /\ t \in Adders[h],
         \A u \in Threads \ {t} : pc'[u] = pc[u] /\ job'[u] = job[u]
  PROVE  IInv'
<1> USE ThreadAssumption
<1>1. Pool /\ Jobs /\ MainHandles /\ Shape  BY DEF IInv
<1>2. t = Main /\ MainOnly(h) /\ pc[Main] = "ready"  BY RemoveEffectFacts
<1>3. \A u \in Threads : (InHand(u)' <=> InHand(u)) /\ (InHand(u) => u # t)
  BY <1>2 DEF InHand
<1>4. Jobs'
  <2>1. \A u \in Threads : pc'[u] # "ready" => job'[u].h \in Handles /\ u \in Adders[job'[u].h]
    BY <1>1 DEF Jobs
  <2>2. \A u \in Threads : pc'[u] = "filled" => owner'[job'[u].ix] = job'[u].h
    BY <1>1 DEF Jobs
  <2>3. \A u \in Threads : pc'[u] = "linked" => job'[u].ix \in Slots
    BY <1>1 DEF Jobs
  <2>4. pc'[Main] # "linked"  BY <1>2
  <2> QED  BY <2>1, <2>2, <2>3, <2>4 DEF Jobs
<1>5. CASE UNCHANGED <<first, in_use, free, handle, left>>
  <2>1. Pool'  BY <1>1, <1>3, <1>5 DEF Pool, Busy
  <2>2. MainHandles'  BY <1>1, <1>5 DEF MainHandles, MainOnly, Busy, ticking
  <2>3. Shape'  BY <1>1, <1>5 DEF Shape, TypeOK, ticking
  <2> QED  BY <1>4, <2>1, <2>2, <2>3 DEF IInv
<1>6. ASSUME NEW k \in Slots,
             handle[h] = k /\ k \in Busy /\ owner[k] = h,
             first' \in Seq(Slots) /\ Distinct(first') /\ ToSet(first') = Busy \ {k},
             free' \in Seq(Slots) /\ Distinct(free') /\ ToSet(free') = ToSet(free) \cup {k},
             handle' = [handle EXCEPT ![h] = None],
             in_use' \in [Slots -> BOOLEAN] /\ left' \in [Slots -> Int]
      PROVE  IInv'
  <2>1. Busy' = Busy \ {k}  BY <1>6 DEF Busy
  <2>2. Pool'
    <3>1. \A u \in Threads : InHand(u)' =>
            job'[u].ix \in Slots /\ job'[u].ix \notin Busy' /\ job'[u].ix \notin ToSet(free')
      BY <1>1, <1>3, <1>6, <2>1 DEF Pool
    <3>2. \A u, v \in Threads : InHand(u)' /\ InHand(v)' /\ job'[u].ix = job'[v].ix => u = v
      BY <1>1, <1>3 DEF Pool
    <3>3. \A j \in Slots : j \in Busy' \/ j \in ToSet(free')
                           \/ \E u \in Threads : InHand(u)' /\ job'[u].ix = j
      BY <1>1, <1>3, <1>6, <2>1 DEF Pool
    <3>4. Busy' \cap ToSet(free') = {}  BY <1>1, <1>6, <2>1 DEF Pool
    <3> QED  BY <1>6, <3>1, <3>2, <3>3, <3>4 DEF Pool
  <2>3. MainHandles'
    <3> SUFFICES ASSUME NEW g \in Handles, MainOnly(g), handle'[g] # None
                 PROVE  \/ handle'[g] \in Busy' /\ owner[handle'[g]] = g
                        \/ cb = g /\ fresh
      BY DEF MainHandles, MainOnly, ticking
    <3>1. g # h /\ handle'[g] = handle[g]  BY <1>1, <1>6 DEF Shape, TypeOK
    <3> QED  BY <1>1, <1>6, <2>1, <3>1 DEF MainHandles
  <2>4. Shape'
    <3>1. handle' \in [Handles -> Slots \cup {None}]  BY <1>1, <1>6 DEF Shape, TypeOK
    <3> QED  BY <1>1, <1>6, <3>1 DEF Shape, TypeOK, ticking
  <2> QED  BY <1>4, <2>2, <2>3, <2>4 DEF IInv
<1> QED  BY <1>5, <1>6, RemoveEffectFacts

\* A remove, and the first half of a restart, takes out the caller's own timer.
LEMMA TimerRemoveInv ==
  ASSUME IInv, Discipline, NEW t \in Threads, NEW h \in Handles, TimerRemove(t, h)
  PROVE  IInv'
<1>1. /\ MayRemove(t, h) /\ RemoveEffect(h)
      /\ UNCHANGED <<now, name, owner, when, ticking>> /\ pc' = pc /\ job' = job
  BY DEF TimerRemove, calls
<1>2. pc[t] = "ready"  BY <1>1 DEF MayRemove, MayCall
<1> QED  BY <1>1, <1>2, RemovalInv DEF IInv, Shape, TypeOK

\* A restart removes the timer before it adds it again.
LEMMA TimerRestartInv ==
  ASSUME IInv, Discipline, NEW t \in Threads, NEW h \in Handles, TimerRestart(t, h)
  PROVE  IInv'
<1> DEFINE j == [NoJob EXCEPT !.h = h]
<1>1. /\ MayRemove(t, h) /\ RemoveEffect(h) /\ t \in Adders[h]
      /\ UNCHANGED <<now, name, owner, when, ticking>>
      /\ pc' = [pc EXCEPT ![t] = "restart"] /\ job' = [job EXCEPT ![t] = j]
  BY DEF TimerRestart
<1>2. j \in [h : Handles \cup {NoHandle}, ix : Slots \cup {None}, when : Int] /\ j.h = h
  BY DEF NoJob
<1> HIDE DEF j
<1>3. /\ pc' \in [Threads -> Steps] /\ pc'[t] = "restart" /\ job'[t].h = h
      /\ job' \in [Threads -> [h : Handles \cup {NoHandle}, ix : Slots \cup {None}, when : Int]]
      /\ \A u \in Threads \ {t} : pc'[u] = pc[u] /\ job'[u] = job[u]
  BY <1>1, <1>2 DEF IInv, Shape, TypeOK, Steps
<1> QED  BY <1>1, <1>3, RemovalInv

\* pf_scheduler_tick() begins,
LEMMA TickStartInv == ASSUME IInv, TickStart PROVE IInv'
<1>1. /\ Pool /\ Jobs /\ MainHandles /\ Shape /\ lag' = 0
      /\ UNCHANGED <<now, lists, fields, handle, calls, cb, fresh, left>>
  BY DEF IInv, TickStart
<1>2. Pool'  BY <1>1 DEF Pool, lists, calls, Busy, InHand
<1>3. Jobs'  BY <1>1 DEF Jobs, lists, calls, fields, Busy
<1>4. MainHandles'  BY <1>1 DEF MainHandles, MainOnly, lists, fields, Busy
<1>5. Shape'  BY <1>1 DEF Shape, TypeOK, lists, fields, calls
<1> QED  BY <1>2, <1>3, <1>4, <1>5 DEF IInv

\* and ends when nothing is due.
LEMMA TickEndInv == ASSUME IInv, TickEnd PROVE IInv'
<1>1. /\ Pool /\ Jobs /\ MainHandles /\ Shape /\ lag' = None /\ cb = NoHandle
      /\ UNCHANGED <<now, lists, fields, handle, calls, cb, fresh, left>>
  BY DEF IInv, TickEnd
<1>2. Pool'  BY <1>1 DEF Pool, lists, calls, Busy, InHand
<1>3. Jobs'  BY <1>1 DEF Jobs, lists, calls, fields, Busy
<1>4. MainHandles'  BY <1>1 DEF MainHandles, MainOnly, lists, fields, Busy
<1>5. Shape'  BY <1>1 DEF Shape, TypeOK, lists, fields, calls
<1> QED  BY <1>2, <1>3, <1>4, <1>5 DEF IInv

\* The head of the busy list becomes the head of the free list; only the
\* handle whose callback now runs can still name it.
LEMMA TickFireInv == ASSUME IInv, TickFire PROVE IInv'
<1> USE ThreadAssumption
<1> DEFINE k == Head(first)
<1>1. /\ Pool /\ Jobs /\ MainHandles /\ Shape
      /\ first # << >> /\ first' = Tail(first) /\ free' = <<k>> \o free
      /\ cb = NoHandle /\ cb' = owner[k] /\ fresh' = TRUE /\ lag # None
      /\ in_use' = [in_use EXCEPT ![k] = FALSE] /\ left' = [left EXCEPT ![k] = 0]
      /\ pc[Main] = "ready"
      /\ UNCHANGED <<now, name, owner, when, handle, calls, lag>>
  BY DEF IInv, TickFire, HeadExpired
<1>2. k \in Slots /\ k \in Busy /\ first' \in Seq(Slots) /\ Busy' = Busy \ {k} /\ Distinct(first')
  BY <1>1, PopSet DEF Pool, Busy
<1>3. free' \in Seq(Slots) /\ ToSet(free') = ToSet(free) \cup {k} /\ Distinct(free')
  <2>1. k \notin ToSet(free)  BY <1>1, <1>2 DEF Pool
  <2> QED  BY <1>1, <1>2, <2>1, PushSet DEF Pool
<1>4. pc' = pc /\ job' = job /\ \A u \in Threads : InHand(u)' <=> InHand(u)
  BY <1>1 DEF calls, InHand
<1> HIDE DEF k
<1>5. Pool'
  <2>1. \A u \in Threads : InHand(u)' =>
          job'[u].ix \in Slots /\ job'[u].ix \notin Busy' /\ job'[u].ix \notin ToSet(free')
    BY <1>1, <1>2, <1>3, <1>4 DEF Pool
  <2>2. \A u, v \in Threads : InHand(u)' /\ InHand(v)' /\ job'[u].ix = job'[v].ix => u = v
    BY <1>1, <1>4 DEF Pool
  <2>3. \A j \in Slots : j \in Busy' \/ j \in ToSet(free')
                         \/ \E u \in Threads : InHand(u)' /\ job'[u].ix = j
    BY <1>1, <1>2, <1>3, <1>4 DEF Pool
  <2>4. Busy' \cap ToSet(free') = {}  BY <1>1, <1>2, <1>3 DEF Pool
  <2> QED  BY <1>2, <1>3, <2>1, <2>2, <2>3, <2>4 DEF Pool
<1>6. Jobs'
  <2>1. pc'[Main] # "linked"  BY <1>1, <1>4
  <2>2. owner' = owner  BY <1>1
  <2> QED  BY <1>1, <1>4, <2>1, <2>2 DEF Jobs
<1>7. MainHandles'
  <2> SUFFICES ASSUME NEW g \in Handles, MainOnly(g), handle[g] # None
               PROVE  \/ handle[g] \in Busy' /\ owner[handle[g]] = g
                      \/ cb' = g /\ fresh'
    BY <1>1 DEF MainHandles, MainOnly
  <2>1. handle[g] \in Busy /\ owner[handle[g]] = g
    BY <1>1 DEF MainHandles
  <2> QED  BY <1>1, <1>2, <2>1
<1>8. Shape'
  <2>1. in_use \in [Slots -> BOOLEAN] /\ left \in [Slots -> Int]
    BY <1>1 DEF Shape, TypeOK
  <2>2. in_use' \in [Slots -> BOOLEAN]  BY <1>1, <2>1
  <2>3. left' \in [Slots -> Int]
    <3>1. left' = [i \in Slots |-> IF i = k THEN 0 ELSE left[i]]
      BY <1>1, <2>1
    <3>2. \A i \in Slots : (IF i = k THEN 0 ELSE left[i]) \in Int
      BY <2>1
    <3> QED  BY <3>1, <3>2, Zenon
  <2>4. cb' \in Handles \cup {NoHandle}  BY <1>1, <1>2 DEF Shape, TypeOK
  <2> QED  BY <1>1, <1>2, <1>3, <2>2, <2>3, <2>4 DEF Shape, TypeOK, calls
<1> QED  BY <1>5, <1>6, <1>7, <1>8 DEF IInv

\* A callback clears its handle,
LEMMA CbResetInv == ASSUME IInv, CbReset PROVE IInv'
<1> USE ThreadAssumption
<1>1. /\ Pool /\ Jobs /\ MainHandles /\ Shape
      /\ handle' = [handle EXCEPT ![cb] = None] /\ fresh' = FALSE
      /\ UNCHANGED <<now, lists, fields, calls, lag, cb, left>>
  BY DEF IInv, CbReset
<1>2. Pool'  BY <1>1 DEF Pool, lists, calls, Busy, InHand
<1>3. Jobs'  BY <1>1 DEF Jobs, lists, calls, fields, Busy
<1>4. MainHandles'
  <2> SUFFICES ASSUME NEW g \in Handles, MainOnly(g), handle'[g] # None
               PROVE  handle'[g] \in Busy /\ owner[handle'[g]] = g
    BY <1>1 DEF MainHandles, MainOnly, Busy, lists, fields
  <2>1. g # cb /\ handle'[g] = handle[g]  BY <1>1 DEF Shape, TypeOK
  <2> QED  BY <1>1, <2>1 DEF MainHandles
<1>5. Shape'
  <2>1. handle' \in [Handles -> Slots \cup {None}]  BY <1>1 DEF Shape, TypeOK
  <2> QED  BY <1>1, <2>1 DEF Shape, TypeOK, lists, fields, calls
<1> QED  BY <1>2, <1>3, <1>4, <1>5 DEF IInv

\* and returns.
LEMMA CbEndInv == ASSUME IInv, CbEnd PROVE IInv'
<1>1. /\ Pool /\ Jobs /\ MainHandles /\ Shape /\ cb' = NoHandle /\ ~ fresh
      /\ UNCHANGED <<now, lists, fields, handle, calls, lag, fresh, left>>
  BY DEF IInv, CbEnd
<1>2. Pool'  BY <1>1 DEF Pool, lists, calls, Busy, InHand
<1>3. Jobs'  BY <1>1 DEF Jobs, lists, calls, fields, Busy
<1>4. MainHandles'  BY <1>1 DEF MainHandles, MainOnly, lists, fields, Busy
<1>5. Shape'  BY <1>1 DEF Shape, TypeOK, lists, fields, calls
<1> QED  BY <1>2, <1>3, <1>4, <1>5 DEF IInv

\* The clock is no part of the lists.
LEMMA AdvanceInv == ASSUME IInv, Advance PROVE IInv'
<1>1. /\ Pool /\ Jobs /\ MainHandles /\ Shape
      /\ now' = (now + 1) % ClockMod
      /\ left' = [k \in Slots |-> IF k \in Busy \cup Held THEN left[k] - 1 ELSE left[k]]
      /\ lag' = (IF lag = None THEN None ELSE lag + 1)
      /\ UNCHANGED <<lists, fields, handle, calls, cb, fresh>>
  BY DEF IInv, Advance
<1>2. Pool'  BY <1>1 DEF Pool, lists, calls, Busy, InHand
<1>3. Jobs'  BY <1>1 DEF Jobs, lists, calls, fields, Busy
<1>4. MainHandles'  BY <1>1 DEF MainHandles, MainOnly, lists, fields, Busy
<1>5. Shape'
  <2>1. now' \in 0 .. ClockMod - 1
    <3>1. now \in Int /\ ClockMod \in Nat \ {0}
      BY <1>1, ClockAssumption DEF Shape, TypeOK
    <3> QED  BY <1>1, <3>1
  <2>2. left' \in [Slots -> Int]
    <3>1. \A k \in Slots : (IF k \in Busy \cup Held THEN left[k] - 1 ELSE left[k]) \in Int
      BY <1>1 DEF Shape, TypeOK
    <3> QED  BY <1>1, <3>1, Zenon
  <2>3. lag' \in Nat \cup {None} /\ (lag # None => lag' # None)
    BY <1>1 DEF Shape, TypeOK
  <2> QED  BY <1>1, <2>1, <2>2, <2>3 DEF Shape, TypeOK, lists, fields, calls
<1> QED  BY <1>2, <1>3, <1>4, <1>5 DEF IInv

-----------------------------------------------------------------------------
\* Nothing changes.
LEMMA StutterInv == ASSUME IInv, UNCHANGED vars PROVE IInv'
<1>1. /\ Pool /\ Jobs /\ MainHandles /\ Shape
      /\ UNCHANGED <<now, first, free, in_use, name, owner, when, handle, pc, job, lag, cb, fresh, left>>
  BY DEF IInv, vars, lists, fields, calls, ticking
<1>2. Pool'  BY <1>1 DEF Pool, Busy, InHand
<1>3. Jobs'  BY <1>1 DEF Jobs, Busy
<1>4. MainHandles'  BY <1>1 DEF MainHandles, MainOnly, Busy
<1>5. Shape'  BY <1>1 DEF Shape, TypeOK
<1> QED  BY <1>2, <1>3, <1>4, <1>5 DEF IInv

\* Every step of the scheduler and its callers keeps the invariant.
THEOREM StepInv == ASSUME IInv, Discipline, [Next]_vars PROVE IInv'
<1>1. ASSUME NEW t \in Threads, ClientStep(t) PROVE IInv'
  BY <1>1, AddTakeInv, AddFailInv, AddMarkInv, AddFillInv, AddLinkInv, AddAssignInv,
     TimerRemoveInv, TimerRestartInv
     DEF ClientStep, AddStep
<1>2. CASE TickStep
  BY <1>2, TickStartInv, TickFireInv, CbResetInv, CbEndInv, TickEndInv DEF TickStep
<1>3. CASE Advance  BY <1>3, AdvanceInv
<1>4. CASE UNCHANGED vars  BY <1>4, StutterInv
<1> QED  BY <1>1, <1>2, <1>3, <1>4 DEF Next

\* What the invariant says in the terms of the checked properties.
LEMMA InvImplies == ASSUME IInv PROVE TypeOK /\ PoolPartition
<1>1. Held = {job[t].ix : t \in {u \in Threads : InHand(u)}}  BY DEF Held
<1>2. Busy \subseteq Slots /\ ToSet(free) \subseteq Slots
  BY ListType DEF IInv, Pool, Busy
<1>3. Held \subseteq Slots /\ Held \cap (Busy \cup ToSet(free)) = {}
  BY <1>1 DEF IInv, Pool
<1>4. Slots = Busy \cup ToSet(free) \cup Held
  BY <1>1, <1>2, <1>3 DEF IInv, Pool
<1> QED  BY <1>3, <1>4 DEF IInv, Pool, Shape, PoolPartition, NoRepeat, Distinct

\* The invariant holds in every reachable state.
THEOREM Invariance == ASSUME Discipline PROVE Spec => []IInv
<1>1. Init => IInv  BY InitInv
<1>2. IInv /\ [Next]_vars => IInv'  BY StepInv
<1> QED  BY <1>1, <1>2, PTL DEF Spec

\* Type correctness, for every pool, clock and set of threads.
THEOREM TypeCorrect == ASSUME Discipline PROVE Spec => []TypeOK
BY Invariance, InvImplies, PTL

\* No slot is lost, shared or handed out twice.
THEOREM PoolSafe == ASSUME Discipline PROVE Spec => []PoolPartition
BY Invariance, InvImplies, PTL

-----------------------------------------------------------------------------
(* Clock values.  They wrap, so what is compared are distances modulo the  *)
(* range: two values are the same clock if they differ by a multiple of    *)
(* it, and a distance below half the range is what Diff() computes.        *)

SameClock(a, b) == (a - b) % ClockMod = 0

\* The assumption on the clock, as the prover uses it.
LEMMA RangeIsPositive == ClockMod \in Nat \ {0} /\ MaxDelay \in Nat /\ MaxLate \in Nat
BY ClockAssumption

\* The same clock: a multiple of the range lies between.
LEMMA SameClockIff ==
  ASSUME NEW a \in Int, NEW b \in Int
  PROVE  SameClock(a, b) <=> \E q \in Int : a = b + ClockMod * q
<1>1. ASSUME SameClock(a, b) PROVE \E q \in Int : a = b + ClockMod * q
  <2> DEFINE d == (a - b) \div ClockMod
  <2>1. d \in Int /\ (a - b) % ClockMod = (a - b) - ClockMod * d
    BY a - b \in Int, RangeIsPositive, Remainder
  <2> HIDE DEF d
  <2>2. ClockMod * d \in Int  BY <2>1, RangeIsPositive
  <2>3. a = b + ClockMod * d  BY <1>1, <2>1, <2>2 DEF SameClock
  <2> QED  BY <2>1, <2>3
<1>2. ASSUME NEW q \in Int, a = b + ClockMod * q PROVE SameClock(a, b)
  <2>1. ClockMod * q \in Int /\ 0 \in 0 .. ClockMod - 1  BY RangeIsPositive
  <2>2. a - b = 0 + ClockMod * q /\ a - b \in Int  BY <1>2, <2>1
  <2>3. (a - b) % ClockMod = 0  BY <2>1, <2>2, RangeIsPositive, RemainderIs
  <2> QED  BY <2>3 DEF SameClock
<1> QED  BY <1>1, <1>2

\* A value reduced to the range is the same clock,
LEMMA ReducedSame ==
  ASSUME NEW a \in Int PROVE SameClock(a % ClockMod, a) /\ a % ClockMod \in Int
<1> DEFINE d == a \div ClockMod
           e == a % ClockMod
<1>1. d \in Int /\ e \in 0 .. ClockMod - 1 /\ e = a - ClockMod * d
  BY RangeIsPositive, Remainder
<1> HIDE DEF d, e
<1>2. -d \in Int /\ e = a + ClockMod * (-d)  BY <1>1, RangeIsPositive
<1>3. e \in Int  BY <1>1
<1>4. SameClock(e, a)  BY <1>2, <1>3, SameClockIff
<1> QED  BY <1>3, <1>4 DEF e

\* and being the same clock composes, also with a step of both.
LEMMA SameTrans ==
  ASSUME NEW a \in Int, NEW b \in Int, NEW c \in Int, NEW x \in Int,
         SameClock(a, b + x), SameClock(b, c)
  PROVE  SameClock(a, c + x)
<1>1. b + x \in Int /\ c + x \in Int  OBVIOUS
<1>2. PICK q \in Int : a = b + x + ClockMod * q  BY <1>1, SameClockIff
<1>3. PICK r \in Int : b = c + ClockMod * r  BY SameClockIff
<1>4. q + r \in Int /\ ClockMod * (q + r) = ClockMod * q + ClockMod * r
      /\ ClockMod * q \in Int /\ ClockMod * r \in Int
  BY RangeIsPositive
<1>5. a = c + x + ClockMod * (q + r)  BY <1>2, <1>3, <1>4
<1> QED  BY <1>1, <1>4, <1>5, SameClockIff

\* Being the same clock value is symmetric.
LEMMA SameSym ==
  ASSUME NEW a \in Int, NEW b \in Int, SameClock(a, b) PROVE SameClock(b, a)
<1>1. PICK q \in Int : a = b + ClockMod * q  BY SameClockIff
<1>2. -q \in Int /\ ClockMod * (-q) = -(ClockMod * q) /\ ClockMod * q \in Int
  BY RangeIsPositive
<1>3. b = a + ClockMod * (-q)  BY <1>1, <1>2
<1> QED  BY <1>2, <1>3, SameClockIff

\* The signed difference of two clock values is the real distance, as long as
\* that is below half the range: the wrap of the clock does not matter.
LEMMA DiffIs ==
  ASSUME NEW a \in Int, NEW b \in Int, NEW x \in Int, SameClock(a, b + x),
         - (MaxDelay + MaxLate) <= x, x <= MaxDelay + MaxLate
  PROVE  Diff(a, b) = x
<1>1. /\ ClockMod \in Nat \ {0} /\ a - b \in Int /\ b + x \in Int
      /\ 2 * x < ClockMod /\ - ClockMod < 2 * x
  BY RangeIsPositive, ClockAssumption
<1>2. PICK q \in Int : a = b + x + ClockMod * q  BY <1>1, SameClockIff
<1>3. ClockMod * q \in Int  BY <1>1
<1>4. CASE x >= 0
  <2>1. a - b = x + ClockMod * q /\ x \in 0 .. ClockMod - 1  BY <1>1, <1>2, <1>3, <1>4
  <2>2. (a - b) % ClockMod = x  BY <1>1, <2>1, RemainderIs
  <2> QED  BY <1>1, <2>2 DEF Diff
<1>5. CASE x < 0
  <2>1. ClockMod * (q - 1) = ClockMod * q - ClockMod /\ q - 1 \in Int  BY <1>1
  <2>2. a - b = (x + ClockMod) + ClockMod * (q - 1) /\ x + ClockMod \in 0 .. ClockMod - 1
    BY <1>1, <1>2, <1>3, <1>5, <2>1
  <2>3. (a - b) % ClockMod = x + ClockMod  BY <1>1, <2>1, <2>2, RemainderIs
  <2> QED  BY <1>1, <2>3 DEF Diff
<1> QED  BY <1>4, <1>5

-----------------------------------------------------------------------------
(* Lists in the order of the time left.                                    *)

Sorted(s, l) == \A i, j \in DOMAIN s : i < j => l[s[i]] <= l[s[j]]

\* Taking an element out keeps the order, whatever its time becomes;
LEMMA SortedRemove ==
  ASSUME NEW s \in Seq(Slots), NEW i \in 1 .. Len(s), Distinct(s), NEW l, NEW m,
         Sorted(s, l), \A k \in Slots : k # s[i] => m[k] = l[k]
  PROVE  Sorted(RemoveAt(s, i), m)
<1> DEFINE r == RemoveAt(s, i)
<1>1. /\ Len(s) \in Nat /\ DOMAIN s = 1 .. Len(s) /\ \A j \in 1 .. Len(s) : s[j] \in Slots
  BY ListType
<1>2. /\ r \in Seq(Slots) /\ Len(r) = Len(s) - 1
      /\ \A j \in 1 .. Len(s) - 1 : r[j] = IF j < i THEN s[j] ELSE s[j + 1]
  BY RemoveAtShape
<1>3. DOMAIN r = 1 .. Len(s) - 1  BY <1>2, ListType
<1> HIDE DEF r
<1>4. \A j \in 1 .. Len(s) - 1 :
        \E k \in 1 .. Len(s) : /\ k = (IF j < i THEN j ELSE j + 1) /\ r[j] = s[k]
                               /\ m[r[j]] = l[s[k]]
  <2> SUFFICES ASSUME NEW j \in 1 .. Len(s) - 1
               PROVE  \E k \in 1 .. Len(s) : /\ k = (IF j < i THEN j ELSE j + 1)
                                             /\ r[j] = s[k] /\ m[r[j]] = l[s[k]]
    OBVIOUS
  <2> DEFINE k == IF j < i THEN j ELSE j + 1
  <2>1. k \in 1 .. Len(s) /\ k # i  BY <1>1
  <2>2. r[j] = s[k]  BY <1>2
  <2> HIDE DEF k
  <2>3. s[k] # s[i] /\ s[k] \in Slots  BY <1>1, <2>1 DEF Distinct
  <2>4. m[s[k]] = l[s[k]]  BY <2>3
  <2> QED  BY <2>1, <2>2, <2>4 DEF k
<1>5. ASSUME NEW a \in 1 .. Len(s) - 1, NEW b \in 1 .. Len(s) - 1, a < b
      PROVE  m[r[a]] <= m[r[b]]
  <2>1. PICK c \in 1 .. Len(s) : c = (IF a < i THEN a ELSE a + 1) /\ m[r[a]] = l[s[c]]
    BY <1>4
  <2>2. PICK d \in 1 .. Len(s) : d = (IF b < i THEN b ELSE b + 1) /\ m[r[b]] = l[s[d]]
    BY <1>4
  <2>3. c < d  BY <1>1, <1>5, <2>1, <2>2
  <2> QED  BY <1>1, <2>1, <2>2, <2>3 DEF Sorted
<1>6. Sorted(r, m)  BY <1>3, <1>5 DEF Sorted
<1> QED  BY <1>6 DEF r

\* so does taking the head,
LEMMA SortedTail ==
  ASSUME NEW s \in Seq(Slots), s # << >>, Distinct(s), NEW l, NEW m, Sorted(s, l),
         \A k \in Slots : k # Head(s) => m[k] = l[k]
  PROVE  Sorted(Tail(s), m)
<1> DEFINE r == Tail(s)
<1>1. /\ Len(s) \in Nat /\ Len(s) # 0 /\ DOMAIN s = 1 .. Len(s)
      /\ \A j \in 1 .. Len(s) : s[j] \in Slots
  BY ListType, EmptySeq
<1>2. /\ r \in Seq(Slots) /\ Len(r) = Len(s) - 1 /\ Head(s) = s[1]
      /\ \A j \in 1 .. Len(s) - 1 : r[j] = s[j + 1]
  BY <1>1, HeadTailProperties
<1>3. DOMAIN r = 1 .. Len(s) - 1  BY <1>2, ListType
<1> HIDE DEF r
<1>4. \A j \in 1 .. Len(s) - 1 : j + 1 \in 1 .. Len(s) /\ m[r[j]] = l[s[j + 1]]
  <2> SUFFICES ASSUME NEW j \in 1 .. Len(s) - 1
               PROVE  j + 1 \in 1 .. Len(s) /\ m[r[j]] = l[s[j + 1]]
    OBVIOUS
  <2>1. j + 1 \in 1 .. Len(s) /\ 1 \in 1 .. Len(s) /\ j + 1 # 1  BY <1>1
  <2>2. s[j + 1] # Head(s) /\ s[j + 1] \in Slots  BY <1>1, <1>2, <2>1 DEF Distinct
  <2> QED  BY <1>2, <2>1, <2>2
<1>5. ASSUME NEW a \in 1 .. Len(s) - 1, NEW b \in 1 .. Len(s) - 1, a < b
      PROVE  m[r[a]] <= m[r[b]]
  <2>1. a + 1 < b + 1  BY <1>5
  <2> QED  BY <1>1, <1>4, <2>1 DEF Sorted
<1>6. Sorted(r, m)  BY <1>3, <1>5 DEF Sorted
<1> QED  BY <1>6 DEF r

\* and putting one in between those with less and those with as much time.
LEMMA SortedInsert ==
  ASSUME NEW s \in Seq(Slots), NEW e \in Slots, NEW i \in 1 .. Len(s) + 1, NEW l,
         Sorted(s, l), \A k \in Slots : l[k] \in Int,
         \A j \in 1 .. Len(s) : IF j < i THEN l[s[j]] <= l[e] ELSE l[e] <= l[s[j]]
  PROVE  Sorted(InsertAt(s, i, e), l)
<1> DEFINE r == InsertAt(s, i, e)
<1>1. /\ Len(s) \in Nat /\ DOMAIN s = 1 .. Len(s) /\ \A j \in 1 .. Len(s) : s[j] \in Slots
  BY ListType
<1>2. /\ r \in Seq(Slots) /\ Len(r) = Len(s) + 1
      /\ \A j \in 1 .. Len(s) + 1 : r[j] = IF j < i THEN s[j] ELSE IF j = i THEN e ELSE s[j - 1]
  BY InsertAtShape
<1>3. DOMAIN r = 1 .. Len(s) + 1  BY <1>2, ListType
<1> HIDE DEF r
<1>4. ASSUME NEW a \in 1 .. Len(s) + 1, NEW b \in 1 .. Len(s) + 1, a < b
      PROVE  l[r[a]] <= l[r[b]]
  <2>1. CASE b < i
    <3>1. a \in 1 .. Len(s) /\ b \in 1 .. Len(s) /\ r[a] = s[a] /\ r[b] = s[b]
      BY <1>1, <1>2, <1>4, <2>1
    <3> QED  BY <1>1, <1>4, <3>1 DEF Sorted
  <2>2. CASE b = i
    <3>1. a \in 1 .. Len(s) /\ a < i /\ r[a] = s[a] /\ r[b] = e  BY <1>1, <1>2, <1>4, <2>2
    <3> QED  BY <3>1
  <2>3. CASE i < b /\ a < i
    <3>1. /\ a \in 1 .. Len(s) /\ b - 1 \in 1 .. Len(s) /\ a < i /\ ~ (b - 1 < i)
          /\ r[a] = s[a] /\ r[b] = s[b - 1]
      BY <1>1, <1>2, <1>4, <2>3
    <3>2. l[s[a]] \in Int /\ l[e] \in Int /\ l[s[b - 1]] \in Int  BY <1>1, <3>1
    <3> QED  BY <3>1, <3>2
  <2>4. CASE i < b /\ a = i
    <3>1. b - 1 \in 1 .. Len(s) /\ ~ (b - 1 < i) /\ r[a] = e /\ r[b] = s[b - 1]
      BY <1>1, <1>2, <1>4, <2>4
    <3> QED  BY <3>1
  <2>5. CASE i < a
    <3>1. a - 1 \in 1 .. Len(s) /\ b - 1 \in 1 .. Len(s) /\ a - 1 < b - 1
          /\ r[a] = s[a - 1] /\ r[b] = s[b - 1]
      BY <1>1, <1>2, <1>4, <2>5
    <3> QED  BY <1>1, <3>1 DEF Sorted
  <2> QED  BY <1>4, <2>1, <2>2, <2>3, <2>4, <2>5
<1>5. Sorted(r, l)  BY <1>3, <1>4 DEF Sorted
<1> QED  BY <1>5 DEF r

\* The leading entries that the second critical section passes are the first
\* ones of the list, up to the place where it links.
LEMMA LeadIsPrefix ==
  ASSUME NEW n \in Nat, NEW S, S \subseteq 1 .. n,
         \A i \in S : 1 .. i \subseteq S
  PROVE  S = 1 .. Cardinality(S) /\ Cardinality(S) \in 0 .. n
<1> DEFINE c == Cardinality(S)
<1>1. /\ IsFiniteSet(1 .. n) /\ Cardinality(1 .. n) = n
  BY 1 \in Int, n \in Int, FS_Interval
<1>2. IsFiniteSet(S) /\ c <= n
  <2>1. S \in SUBSET (1 .. n)  OBVIOUS
  <2>2. IsFiniteSet(S) /\ Cardinality(S) <= Cardinality(1 .. n)  BY <1>1, <2>1, FS_Subset
  <2> QED  BY <1>1, <2>2
<1>3. c \in Nat  BY <1>2, FS_CardinalityType
<1> HIDE DEF c
<1>4. IsFiniteSet(1 .. c) /\ Cardinality(1 .. c) = c
  BY <1>3, 1 \in Int, c \in Int, FS_Interval
<1>5. S \subseteq 1 .. c
  <2> SUFFICES ASSUME NEW i \in S PROVE i <= c
    BY <1>3
  <2>1. i \in Nat /\ i >= 1  OBVIOUS
  <2>2. Cardinality(1 .. i) = i  BY <2>1, 1 \in Int, i \in Int, FS_Interval
  <2>3. 1 .. i \in SUBSET S  OBVIOUS
  <2>4. Cardinality(1 .. i) <= Cardinality(S)  BY <1>2, <2>3, FS_Subset
  <2> QED  BY <2>2, <2>4 DEF c
<1>6. S = 1 .. c
  BY <1>4, <1>5, FS_Subset DEF c
<1> QED  BY <1>2, <1>3, <1>6 DEF c

-----------------------------------------------------------------------------
(* The deadlines.  The deadline of a slot that is armed or in hand is the  *)
(* clock value left[k] units from now, and left[k] stays within what half  *)
(* the range can tell apart.                                               *)

DueAt(w, n, l) == SameClock(w, n + l) /\ - MaxLate <= l /\ l <= MaxDelay

Timely ==
  /\ \A k \in Busy : DueAt(when[k], now, left[k])
  /\ \A t \in Threads : pc[t] \in {"taken", "marked"} =>
       DueAt(job[t].when, now, left[job[t].ix])
  /\ \A t \in Threads : pc[t] = "filled" =>
       DueAt(when[job[t].ix], now, left[job[t].ix])
  /\ lag <= MaxLate

TInv == IInv /\ Timely /\ BusyInOrder

\* What the types say of the numbers.
LEMMA Numbers ==
  ASSUME IInv
  PROVE  /\ now \in Int /\ lag \in Int
         /\ left \in [Slots -> Int] /\ when \in [Slots -> Int]
         /\ \A t \in Threads : job[t].when \in Int
         /\ \A t \in Threads : InHand(t) => job[t].ix \in Slots
         /\ Busy \subseteq Slots /\ first \in Seq(Slots)
<1>1. TypeOK /\ Pool  BY DEF IInv, Shape
<1>2. now \in Int /\ lag \in Int  BY <1>1 DEF TypeOK
<1>3. \A t \in Threads : job[t].when \in Int  BY <1>1 DEF TypeOK
<1>4. Busy \subseteq Slots  BY <1>1, ListType DEF Pool, Busy
<1> QED  BY <1>1, <1>2, <1>3, <1>4 DEF TypeOK, Pool

\* The distance of two armed deadlines is the difference of the time left,
LEMMA DistanceOf ==
  ASSUME NEW n \in Int, NEW v \in Int, NEW w \in Int, NEW x \in Int, NEW y \in Int,
         DueAt(v, n, x), DueAt(w, n, y)
  PROVE  Diff(v, w) = x - y
<1>1. MaxDelay \in Nat /\ MaxLate \in Nat  BY RangeIsPositive
<1>2. - (MaxDelay + MaxLate) <= x - y /\ x - y <= MaxDelay + MaxLate /\ x - y \in Int
  BY <1>1 DEF DueAt
<1>3. SameClock(n + y, w)  BY SameSym DEF DueAt
<1>4. SameClock(n, w + (- y))
  <2>1. SameClock(n, (n + y) + (- y))
    <3>1. (n + y) + (- y) = n /\ 0 \in Int /\ n = n + ClockMod * 0  BY RangeIsPositive
    <3>2. SameClock(n, n)  BY <3>1, SameClockIff
    <3> QED  BY <3>1, <3>2
  <2>2. n + y \in Int /\ - y \in Int  OBVIOUS
  <2> QED  BY <1>3, <2>1, <2>2, SameTrans
<1>5. SameClock(v, n + x) /\ - y \in Int /\ w + (- y) \in Int  BY DEF DueAt
<1>6. SameClock(v, (w + (- y)) + x)  BY <1>4, <1>5, SameTrans
<1>7. (w + (- y)) + x = w + (x - y)  OBVIOUS
<1>8. SameClock(v, w + (x - y))  BY <1>6, <1>7
<1> QED  BY <1>2, <1>8, DiffIs

\* and what tick() sees expired has no time left.
LEMMA ExpiredIs ==
  ASSUME NEW n \in Int, NEW g \in 0 .. MaxLate, NEW w \in Int, NEW x \in Int,
         DueAt(w, n, x), Expired((n - g) % ClockMod, w)
  PROVE  x <= 0
<1> DEFINE e == (n - g) % ClockMod
<1>1. MaxDelay \in Nat /\ MaxLate \in Nat  BY RangeIsPositive
<1>2. n - g \in Int /\ n + x \in Int /\ g \in Int /\ - x \in Int /\ - g \in Int
  BY <1>1
<1>3. SameClock(e, n - g) /\ e \in Int  BY <1>2, ReducedSame
<1> HIDE DEF e
<1>4. SameClock(n + x, w)  BY <1>2, SameSym DEF DueAt
<1>5. SameClock(n, n)
  <2>1. 0 \in Int /\ n = n + ClockMod * 0  BY RangeIsPositive
  <2> QED  BY <2>1, SameClockIff
<1>6. SameClock(n - g, w + (- x - g))
  <2>1. n - g = (n + x) + (- x - g) /\ - x - g \in Int  BY <1>2
  <2>2. SameClock(n - g, n - g)
    <3>1. 0 \in Int /\ n - g = (n - g) + ClockMod * 0  BY <1>2, RangeIsPositive
    <3> QED  BY <1>2, <3>1, SameClockIff
  <2>3. SameClock(n - g, (n + x) + (- x - g))  BY <2>1, <2>2
  <2> QED  BY <1>2, <1>4, <2>1, <2>3, SameTrans
<1>7. SameClock(e, w + (- x - g))
  <2>1. w + (- x - g) \in Int /\ (n - g) + 0 = n - g /\ 0 \in Int
        /\ (w + (- x - g)) + 0 = w + (- x - g)
    BY <1>2
  <2>2. SameClock(e, (n - g) + 0)  BY <1>3, <2>1
  <2>3. SameClock(e, (w + (- x - g)) + 0)  BY <1>2, <1>3, <1>6, <2>1, <2>2, SameTrans
  <2> QED  BY <2>1, <2>3
<1>8. /\ - (MaxDelay + MaxLate) <= - x - g /\ - x - g <= MaxDelay + MaxLate
      /\ - x - g \in Int
  BY <1>1, <1>2 DEF DueAt
<1>9. Diff(e, w) = - x - g  BY <1>3, <1>7, <1>8, DiffIs
<1>10. - x - g >= 0  BY <1>9 DEF Expired, e
<1> QED  BY <1>2, <1>10

\* A step that leaves the clock, the lists and the deadlines alone, and brings
\* nobody nearer to linking, changes nothing about the time.
LEMMA StillTimely ==
  ASSUME TInv, UNCHANGED <<now, first, when, left, job>>, lag' <= MaxLate,
         \A t \in Threads : pc'[t] = pc[t]
                            \/ pc'[t] \notin {"taken", "marked", "filled"}
  PROVE  Timely' /\ BusyInOrder'
<1>1. Busy' = Busy  BY DEF Busy
<1> QED  BY <1>1 DEF TInv, Timely, BusyInOrder

\* A slot is taken with its whole delay left,
LEMMA AddTakeTimely ==
  ASSUME TInv, NEW t \in Threads, NEW h \in Handles, NEW d \in Delays, AddTake(t, h, d)
  PROVE  Timely' /\ BusyInOrder'
<1> DEFINE k == Head(free)
           w == Deadline(d)
<1>1. /\ IInv /\ Timely /\ BusyInOrder /\ Pool
      /\ free # << >> /\ first' = first /\ now' = now /\ when' = when /\ lag' = lag
      /\ pc' = [pc EXCEPT ![t] = "taken"]
      /\ job' = [job EXCEPT ![t] = [h |-> h, ix |-> k, when |-> w]]
      /\ left' = [left EXCEPT ![k] = d]
  BY DEF TInv, IInv, AddTake, fields, ticking
<1>2. k \in Slots /\ k \in ToSet(free)
  BY <1>1, PopSet DEF Pool
<1>3. k \notin Busy /\ \A u \in Threads : InHand(u) => job[u].ix # k
  BY <1>1, <1>2 DEF Pool
<1>4. DueAt(w, now, d)
  <2>1. now \in Int /\ d \in Int /\ now + d \in Int /\ 1 <= d /\ d <= MaxDelay
    BY <1>1, Numbers, ClockAssumption
  <2>2. w = (now + d) % ClockMod  BY DEF Deadline
  <2>3. SameClock(w, now + d)  BY <2>1, <2>2, ReducedSame
  <2> QED  BY <2>1, <2>3, RangeIsPositive DEF DueAt
<1> HIDE DEF k, w
<1>5. /\ pc'[t] = "taken" /\ job'[t].ix = k /\ job'[t].when = w
      /\ \A u \in Threads \ {t} : pc'[u] = pc[u] /\ job'[u] = job[u]
  BY <1>1 DEF IInv, Shape, TypeOK
<1>6. left'[k] = d /\ \A j \in Slots : j # k => left'[j] = left[j]
  BY <1>1, <1>2, Numbers
<1>7. Busy' = Busy /\ Busy \subseteq Slots  BY <1>1, Numbers DEF Busy
<1>8. \A j \in Busy : left'[j] = left[j]  BY <1>3, <1>6, <1>7
<1>9. Timely'
  <2>1. \A j \in Busy' : DueAt(when'[j], now', left'[j])
    BY <1>1, <1>7, <1>8 DEF Timely
  <2>2. \A u \in Threads : pc'[u] \in {"taken", "marked"} =>
          DueAt(job'[u].when, now', left'[job'[u].ix])
    <3> SUFFICES ASSUME NEW u \in Threads, pc'[u] \in {"taken", "marked"}
                 PROVE  DueAt(job'[u].when, now', left'[job'[u].ix])
      OBVIOUS
    <3>1. CASE u = t  BY <1>1, <1>4, <1>5, <1>6, <3>1
    <3>2. CASE u # t
      <4>1. pc[u] \in {"taken", "marked"} /\ job'[u] = job[u] /\ InHand(u)
        BY <1>5, <3>2 DEF InHand
      <4>2. left'[job[u].ix] = left[job[u].ix]
        BY <1>1, <1>3, <1>6, <4>1, Numbers
      <4> QED  BY <1>1, <4>1, <4>2 DEF Timely
    <3> QED  BY <3>1, <3>2
  <2>3. \A u \in Threads : pc'[u] = "filled" =>
          DueAt(when'[job'[u].ix], now', left'[job'[u].ix])
    <3> SUFFICES ASSUME NEW u \in Threads, pc'[u] = "filled"
                 PROVE  DueAt(when'[job'[u].ix], now', left'[job'[u].ix])
      OBVIOUS
    <3>1. u # t /\ pc[u] = "filled" /\ job'[u] = job[u] /\ InHand(u)
      BY <1>5 DEF InHand
    <3>2. left'[job[u].ix] = left[job[u].ix]
      BY <1>1, <1>3, <1>6, <3>1, Numbers
    <3> QED  BY <1>1, <3>1, <3>2 DEF Timely
  <2> QED  BY <1>1, <2>1, <2>2, <2>3 DEF Timely
<1>10. BusyInOrder'
  <2>1. \A i \in DOMAIN first : first[i] \in Busy  BY DEF Busy, ToSet
  <2> QED  BY <1>1, <1>8, <2>1 DEF BusyInOrder
<1> QED  BY <1>9, <1>10

\* marked and
LEMMA AddMarkTimely ==
  ASSUME TInv, NEW t \in Threads, AddMark(t)
  PROVE  Timely' /\ BusyInOrder'
<1>1. /\ IInv /\ Timely /\ BusyInOrder /\ pc[t] = "taken"
      /\ UNCHANGED <<now, first, when, left, job, lag>>
      /\ pc' = [pc EXCEPT ![t] = "marked"]
  BY DEF TInv, AddMark, lists, ticking
<1>2. pc'[t] = "marked" /\ \A u \in Threads \ {t} : pc'[u] = pc[u]
  BY <1>1 DEF IInv, Shape, TypeOK
<1>3. Busy' = Busy  BY <1>1 DEF Busy
<1>4. \A u \in Threads : pc'[u] \in {"taken", "marked"} => pc[u] \in {"taken", "marked"}
  BY <1>1, <1>2
<1>5. \A u \in Threads : pc'[u] = "filled" => pc[u] = "filled"
  BY <1>1, <1>2
<1> QED  BY <1>1, <1>3, <1>4, <1>5 DEF Timely, BusyInOrder

\* given its deadline;
LEMMA AddFillTimely ==
  ASSUME TInv, NEW t \in Threads, AddFill(t)
  PROVE  Timely' /\ BusyInOrder'
<1> DEFINE k == job[t].ix
           w == job[t].when
<1>1. /\ IInv /\ Timely /\ BusyInOrder /\ Pool /\ pc[t] = "marked"
      /\ UNCHANGED <<now, first, left, job, lag>>
      /\ when' = [when EXCEPT ![k] = w]
      /\ pc' = [pc EXCEPT ![t] = "filled"]
  BY DEF TInv, IInv, AddFill, lists, ticking
<1>2. pc'[t] = "filled" /\ \A u \in Threads \ {t} : pc'[u] = pc[u]
  BY <1>1 DEF IInv, Shape, TypeOK
<1>3. InHand(t) /\ k \in Slots  BY <1>1, Numbers DEF InHand
<1>4. k \notin Busy /\ \A u \in Threads : u # t /\ InHand(u) => job[u].ix # k
  BY <1>1, <1>3 DEF Pool
<1>5. DueAt(w, now, left[k])  BY <1>1 DEF Timely
<1>6. Busy' = Busy /\ Busy \subseteq Slots  BY <1>1, Numbers DEF Busy
<1> HIDE DEF k, w
<1>7. when'[k] = w /\ \A j \in Slots : j # k => when'[j] = when[j]
  BY <1>1, <1>3, Numbers
<1>8. \A j \in Busy' : DueAt(when'[j], now', left'[j])
  BY <1>1, <1>4, <1>6, <1>7 DEF Timely
<1>9. \A u \in Threads : pc'[u] \in {"taken", "marked"} =>
        DueAt(job'[u].when, now', left'[job'[u].ix])
  BY <1>1, <1>2 DEF Timely
<1>10. \A u \in Threads : pc'[u] = "filled" =>
         DueAt(when'[job'[u].ix], now', left'[job'[u].ix])
  <2> SUFFICES ASSUME NEW u \in Threads, pc'[u] = "filled"
               PROVE  DueAt(when'[job[u].ix], now, left[job[u].ix])
    BY <1>1
  <2>1. CASE u = t  BY <1>5, <1>7, <2>1 DEF k
  <2>2. CASE u # t
    <3>1. pc[u] = "filled" /\ InHand(u)  BY <1>2, <2>2 DEF InHand
    <3>2. when'[job[u].ix] = when[job[u].ix]
      BY <1>1, <1>4, <1>7, <2>2, <3>1, Numbers
    <3> QED  BY <1>1, <3>1, <3>2 DEF Timely
  <2> QED  BY <2>1, <2>2
<1> QED  BY <1>1, <1>8, <1>9, <1>10 DEF Timely, BusyInOrder

\* it is linked where its deadline belongs.
LEMMA PositionIsRight ==
  ASSUME TInv, NEW k \in Slots, DueAt(when[k], now, left[k])
  PROVE  \A j \in 1 .. Len(first) : IF j < Position(k) THEN left[first[j]] <= left[k]
                                                       ELSE left[k] <= left[first[j]]
<1> DEFINE Lead == {i \in DOMAIN first : \A j \in 1 .. i : Diff(when[k], when[first[j]]) > 0}
           n == Len(first)
           c == Cardinality(Lead)
<1>1. IInv /\ Timely /\ BusyInOrder  BY DEF TInv
<1>2. /\ n \in Nat /\ DOMAIN first = 1 .. n
      /\ \A j \in 1 .. n : first[j] \in Busy /\ first[j] \in Slots
  BY <1>1, Numbers, ListType DEF Busy
<1>3. \A j \in 1 .. n : Diff(when[k], when[first[j]]) = left[k] - left[first[j]]
  <2> SUFFICES ASSUME NEW j \in 1 .. n
               PROVE  Diff(when[k], when[first[j]]) = left[k] - left[first[j]]
    OBVIOUS
  <2> DEFINE f == first[j]
  <2>1. f \in Busy /\ f \in Slots  BY <1>2
  <2> HIDE DEF f, n
  <2>2. DueAt(when[f], now, left[f])  BY <1>1, <2>1 DEF Timely
  <2>3. now \in Int /\ when[k] \in Int /\ when[f] \in Int /\ left[k] \in Int /\ left[f] \in Int
    BY <1>1, <2>1, Numbers
  <2>4. Diff(when[k], when[f]) = left[k] - left[f]
    BY <2>2, <2>3, DistanceOf
  <2> QED  BY <2>4 DEF f
<1>4. Lead \subseteq 1 .. n /\ \A i \in Lead : 1 .. i \subseteq Lead
  <2>1. Lead \subseteq 1 .. n  BY <1>2
  <2>2. ASSUME NEW i \in Lead, NEW a \in 1 .. i PROVE a \in Lead
    <3>1. i \in 1 .. n /\ \A j \in 1 .. i : Diff(when[k], when[first[j]]) > 0
      BY <1>2
    <3>2. a \in 1 .. n /\ \A j \in 1 .. a : j \in 1 .. i  BY <1>2, <3>1
    <3> QED  BY <1>2, <3>1, <3>2
  <2> QED  BY <2>1, <2>2
<1>5. \A i \in 1 .. n : i \in Lead <=> \A j \in 1 .. i : Diff(when[k], when[first[j]]) > 0
  BY <1>2
<1>6. Position(k) = 1 + c  BY DEF Position
<1> HIDE DEF Lead, n
<1>7. Lead = 1 .. c /\ c \in 0 .. n  BY <1>2, <1>4, LeadIsPrefix
<1> HIDE DEF c
<1> SUFFICES ASSUME NEW j \in 1 .. n
             PROVE  IF j < Position(k) THEN left[first[j]] <= left[k]
                                       ELSE left[k] <= left[first[j]]
  BY DEF n
<1>8. left[k] \in Int /\ left[first[j]] \in Int  BY <1>1, <1>2, Numbers
<1>9. CASE j < Position(k)
  <2>1. j \in Lead  BY <1>2, <1>6, <1>7, <1>9
  <2>2. Diff(when[k], when[first[j]]) > 0  BY <1>2, <1>5, <2>1
  <2> QED  BY <1>3, <1>8, <1>9, <2>2
<1>10. CASE ~ (j < Position(k))
  <2>1. c + 1 \in 1 .. n /\ c + 1 <= j /\ c + 1 \notin Lead
    BY <1>2, <1>6, <1>7, <1>10
  <2>2. PICK i \in 1 .. c + 1 : ~ (Diff(when[k], when[first[i]]) > 0)
    BY <1>5, <2>1
  <2>3. i \in 1 .. n /\ (i < j \/ i = j)  BY <1>2, <1>7, <2>1
  <2>4. left[first[i]] \in Int  BY <1>1, <1>2, <2>3, Numbers
  <2>5. left[k] <= left[first[i]]  BY <1>3, <1>8, <2>2, <2>3, <2>4
  <2>6. left[first[i]] <= left[first[j]]
    BY <1>1, <1>2, <1>8, <2>3, <2>4 DEF BusyInOrder
  <2> QED  BY <1>8, <1>10, <2>4, <2>5, <2>6
<1> QED  BY <1>9, <1>10

\* A slot is linked behind those that are due earlier, in front of the others.
LEMMA AddLinkTimely ==
  ASSUME TInv, NEW t \in Threads, AddLink(t)
  PROVE  Timely' /\ BusyInOrder'
<1> DEFINE k == job[t].ix
           p == Position(k)
<1>1. /\ IInv /\ Timely /\ BusyInOrder /\ Pool /\ pc[t] = "filled"
      /\ first' = InsertAt(first, p, k)
      /\ UNCHANGED <<now, when, left, job, lag>>
      /\ pc' = [pc EXCEPT ![t] = "linked"]
  BY DEF TInv, IInv, AddLink, fields, ticking
<1>2. pc'[t] = "linked" /\ \A u \in Threads \ {t} : pc'[u] = pc[u]
  BY <1>1 DEF IInv, Shape, TypeOK
<1>3. k \in Slots /\ DueAt(when[k], now, left[k])
  BY <1>1, Numbers DEF InHand, Timely
<1>4. first \in Seq(Slots) /\ p \in 1 .. Len(first) + 1
  BY <1>1, <1>3, PositionInRange DEF Pool
<1>5. \A j \in 1 .. Len(first) : IF j < p THEN left[first[j]] <= left[k]
                                          ELSE left[k] <= left[first[j]]
  BY <1>3, PositionIsRight
<1> HIDE DEF k, p
<1>6. Busy' = Busy \cup {k}
  BY <1>1, <1>3, <1>4, InsertAtSet DEF Busy
<1>7. Sorted(first, left)  BY <1>1 DEF BusyInOrder, Sorted
<1>8. \A j \in Slots : left[j] \in Int  BY <1>1, Numbers
<1>9. Sorted(first', left)
  BY <1>1, <1>3, <1>4, <1>5, <1>7, <1>8, SortedInsert
<1>10. BusyInOrder'  BY <1>1, <1>9 DEF BusyInOrder, Sorted
<1>11. \A j \in Busy' : DueAt(when'[j], now', left'[j])
  BY <1>1, <1>3, <1>6 DEF Timely
<1>12. \A u \in Threads : pc'[u] \in {"taken", "marked", "filled"} => pc'[u] = pc[u]
  BY <1>2
<1> QED  BY <1>1, <1>10, <1>11, <1>12 DEF Timely

\* What a removal does, field by field.
LEMMA RemovedSlot ==
  ASSUME IInv, Discipline, NEW t \in Threads, NEW h \in Handles,
         MayRemove(t, h), RemoveEffect(h)
  PROVE  \/ UNCHANGED <<first, in_use, free, handle, left>>
         \/ \E k \in Busy, i \in 1 .. Len(first) :
              /\ handle[h] = k /\ owner[k] = h
              /\ first[i] = k /\ first' = RemoveAt(first, i) /\ Busy' = Busy \ {k}
              /\ in_use' = [in_use EXCEPT ![k] = FALSE]
              /\ handle' = [handle EXCEPT ![h] = None]
              /\ left' = [left EXCEPT ![k] = 0]
<1>1. Pool /\ MainHandles /\ Shape  BY DEF IInv
<1>2. MainOnly(h) /\ t = Main  BY RemoveEffectFacts
<1>3. ~ (cb = h /\ fresh)  BY <1>2 DEF MayRemove
<1>4. CASE ~ (handle[h] # None /\ Recognised(h, handle[h]))
  BY <1>4 DEF RemoveEffect
<1>5. CASE handle[h] # None /\ Recognised(h, handle[h])
  <2> DEFINE k == handle[h]
             i == PosIn(first, k)
  <2>1. k \in Busy /\ owner[k] = h  BY <1>1, <1>2, <1>3, <1>5 DEF MainHandles
  <2>2. /\ first' = Without(first, k)
        /\ in_use' = [in_use EXCEPT ![k] = FALSE]
        /\ handle' = [handle EXCEPT ![h] = None]
        /\ left' = [left EXCEPT ![k] = 0]
    BY <1>5 DEF RemoveEffect
  <2> HIDE DEF k
  <2>3. first' = RemoveAt(first, i)  BY <2>1, <2>2 DEF Without, Busy
  <2>4. i \in 1 .. Len(first) /\ first[i] = k
    BY <1>1, <2>1, PosInRange DEF Pool, Busy
  <2> HIDE DEF i
  <2>5. Busy' = Busy \ {k}
    <3>1. ToSet(RemoveAt(first, i)) = ToSet(first) \ {first[i]}
      BY <1>1, <2>4, RemoveAtSet DEF Pool
    <3> QED  BY <2>3, <2>4, <3>1 DEF Busy
  <2> QED  BY <2>1, <2>2, <2>3, <2>4, <2>5 DEF k
<1> QED  BY <1>4, <1>5

\* A removal keeps the others' order and time.
LEMMA RemovalTimely ==
  ASSUME TInv, Discipline, NEW t \in Threads, NEW h \in Handles,
         MayRemove(t, h), RemoveEffect(h), UNCHANGED <<now, when, lag>>,
         \A u \in Threads : pc'[u] \in {"taken", "marked", "filled"} =>
           pc'[u] = pc[u] /\ job'[u] = job[u]
  PROVE  Timely' /\ BusyInOrder'
<1>1. IInv /\ Timely /\ BusyInOrder /\ Pool  BY DEF TInv, IInv
<1>2. CASE UNCHANGED <<first, in_use, free, handle, left>>
  <2>1. Busy' = Busy  BY <1>2 DEF Busy
  <2>2. BusyInOrder'  BY <1>1, <1>2 DEF BusyInOrder
  <2> QED  BY <1>1, <1>2, <2>1, <2>2 DEF Timely
<1>3. ASSUME NEW k \in Busy, NEW i \in 1 .. Len(first), first[i] = k,
             first' = RemoveAt(first, i), Busy' = Busy \ {k},
             left' = [left EXCEPT ![k] = 0]
      PROVE  Timely' /\ BusyInOrder'
  <2>1. k \in Slots /\ Busy \subseteq Slots  BY <1>1, Numbers
  <2>2. \A j \in Slots : j # k => left'[j] = left[j]  BY <1>1, <1>3, <2>1, Numbers
  <2>3. BusyInOrder'
    <3>1. Sorted(first, left)  BY <1>1 DEF BusyInOrder, Sorted
    <3>2. /\ first \in Seq(Slots) /\ Distinct(first)
          /\ \A j \in Slots : j # first[i] => left'[j] = left[j]
      BY <1>1, <1>3, <2>2 DEF Pool
    <3>3. Sorted(RemoveAt(first, i), left')  BY <3>1, <3>2, SortedRemove
    <3> QED  BY <1>3, <3>3 DEF BusyInOrder, Sorted
  <2>4. \A j \in Busy' : DueAt(when'[j], now', left'[j])
    BY <1>1, <1>3, <2>1, <2>2 DEF Timely
  <2>5. ASSUME NEW u \in Threads, pc'[u] \in {"taken", "marked", "filled"}
        PROVE  pc'[u] = pc[u] /\ job'[u] = job[u] /\ left'[job[u].ix] = left[job[u].ix]
    <3>1. pc'[u] = pc[u] /\ job'[u] = job[u] /\ InHand(u)  BY <2>5 DEF InHand
    <3>2. job[u].ix \in Slots /\ job[u].ix # k  BY <1>1, <1>3, <3>1 DEF Pool
    <3> QED  BY <2>2, <3>1, <3>2
  <2> QED  BY <1>1, <2>3, <2>4, <2>5 DEF Timely
<1> QED  BY <1>1, <1>2, <1>3, RemovedSlot

\* pf_scheduler_remove() keeps the order,
LEMMA TimerRemoveTimely ==
  ASSUME TInv, Discipline, NEW t \in Threads, NEW h \in Handles, TimerRemove(t, h)
  PROVE  Timely' /\ BusyInOrder'
<1>1. /\ MayRemove(t, h) /\ RemoveEffect(h) /\ UNCHANGED <<now, when, lag>>
      /\ pc' = pc /\ job' = job
  BY DEF TimerRemove, calls, ticking
<1> QED  BY <1>1, RemovalTimely

\* and so does the removal of a restart.
LEMMA TimerRestartTimely ==
  ASSUME TInv, Discipline, NEW t \in Threads, NEW h \in Handles, TimerRestart(t, h)
  PROVE  Timely' /\ BusyInOrder'
<1>1. /\ MayRemove(t, h) /\ RemoveEffect(h) /\ UNCHANGED <<now, when, lag>>
      /\ pc' = [pc EXCEPT ![t] = "restart"]
      /\ \A u \in Threads \ {t} : job'[u] = job[u]
  BY DEF TimerRestart, ticking, TInv, IInv, Shape, TypeOK
<1>2. pc'[t] = "restart" /\ \A u \in Threads \ {t} : pc'[u] = pc[u]
  BY <1>1 DEF TInv, IInv, Shape, TypeOK
<1>3. \A u \in Threads : pc'[u] \in {"taken", "marked", "filled"} =>
        pc'[u] = pc[u] /\ job'[u] = job[u]
  BY <1>1, <1>2
<1> QED  BY <1>1, <1>3, RemovalTimely

\* The timer that fires was the first.
LEMMA TickFireTimely ==
  ASSUME TInv, TickFire
  PROVE  Timely' /\ BusyInOrder'
<1> DEFINE k == Head(first)
<1>1. /\ IInv /\ Timely /\ BusyInOrder /\ Pool /\ first # << >>
      /\ first' = Tail(first) /\ left' = [left EXCEPT ![k] = 0]
      /\ UNCHANGED <<now, when, pc, job, lag>>
  BY DEF TInv, IInv, TickFire, calls, HeadExpired
<1>2. k \in Slots /\ k \in Busy /\ Busy' = Busy \ {k}
  BY <1>1, PopSet DEF Pool, Busy
<1> HIDE DEF k
<1>3. \A j \in Slots : j # k => left'[j] = left[j]  BY <1>1, <1>2, Numbers
<1>4. BusyInOrder'
  <2>1. Sorted(first, left)  BY <1>1 DEF BusyInOrder, Sorted
  <2>2. /\ first \in Seq(Slots) /\ first # << >> /\ Distinct(first)
        /\ \A j \in Slots : j # Head(first) => left'[j] = left[j]
    BY <1>1, <1>3 DEF Pool, k
  <2>3. Sorted(Tail(first), left')  BY <2>1, <2>2, SortedTail
  <2> QED  BY <1>1, <2>3 DEF BusyInOrder, Sorted
<1>5. \A j \in Busy' : DueAt(when'[j], now', left'[j])
  <2>1. Busy \subseteq Slots  BY <1>1, Numbers
  <2> QED  BY <1>1, <1>2, <1>3, <2>1 DEF Timely
<1>6. ASSUME NEW u \in Threads, pc[u] \in {"taken", "marked", "filled"}
      PROVE  left'[job[u].ix] = left[job[u].ix]
  <2>1. InHand(u)  BY <1>6 DEF InHand
  <2>2. job[u].ix \in Slots /\ job[u].ix # k  BY <1>1, <1>2, <2>1 DEF Pool
  <2> QED  BY <1>3, <2>2
<1> QED  BY <1>1, <1>4, <1>5, <1>6 DEF Timely

\* The clock brings every deadline nearer by the same.
LEMMA Nearer ==
  ASSUME NEW w \in Int, NEW n \in Int, NEW l \in Int, DueAt(w, n, l), l > - MaxLate
  PROVE  DueAt(w, (n + 1) % ClockMod, l - 1)
<1> DEFINE m == (n + 1) % ClockMod
<1>1. MaxDelay \in Nat /\ MaxLate \in Nat  BY RangeIsPositive
<1>2. n + 1 \in Int /\ n + l \in Int /\ l - 1 \in Int  OBVIOUS
<1>3. SameClock(m, n + 1) /\ m \in Int  BY <1>2, ReducedSame
<1> HIDE DEF m
<1>4. SameClock(n + 1, m)  BY <1>2, <1>3, SameSym
<1>5. SameClock(n + l, m + (l - 1))
  <2>1. n + l = (n + 1) + (l - 1)  OBVIOUS
  <2>2. SameClock(n + l, n + l)
    <3>1. 0 \in Int /\ n + l = (n + l) + ClockMod * 0  BY <1>2, RangeIsPositive
    <3> QED  BY <1>2, <3>1, SameClockIff
  <2>3. SameClock(n + l, (n + 1) + (l - 1))  BY <2>1, <2>2
  <2> QED  BY <1>2, <1>3, <1>4, <2>3, SameTrans
<1>6. SameClock(w, m + (l - 1))
  <2>1. (n + l) + 0 = n + l /\ (m + (l - 1)) + 0 = m + (l - 1) /\ 0 \in Int
        /\ m + (l - 1) \in Int
    BY <1>2, <1>3
  <2>2. SameClock(w, (n + l) + 0)  BY <2>1 DEF DueAt
  <2>3. SameClock(w, (m + (l - 1)) + 0)  BY <1>2, <1>5, <2>1, <2>2, SameTrans
  <2> QED  BY <2>1, <2>3
<1>7. - MaxLate <= l - 1 /\ l - 1 <= MaxDelay  BY <1>1 DEF DueAt
<1> QED  BY <1>6, <1>7 DEF DueAt, m

\* The clock runs for every armed timer alike.
LEMMA AdvanceTimely ==
  ASSUME TInv, Advance
  PROVE  Timely' /\ BusyInOrder'
<1> DEFINE live == Busy \cup Held
<1>1. /\ IInv /\ Timely /\ BusyInOrder /\ Pool
      /\ \A k \in live : left[k] > - MaxLate
      /\ lag < MaxLate /\ now' = (now + 1) % ClockMod
      /\ left' = [k \in Slots |-> IF k \in live THEN left[k] - 1 ELSE left[k]]
      /\ lag' = (IF lag = None THEN None ELSE lag + 1)
      /\ UNCHANGED <<first, when, pc, job>>
  BY DEF TInv, IInv, Advance, lists, fields, calls
<1>2. \A u \in Threads : InHand(u) => job[u].ix \in live  BY DEF Held
<1>3. Busy \subseteq live /\ Busy' = Busy /\ Busy \subseteq Slots
  BY <1>1, Numbers DEF Busy
<1> HIDE DEF live
<1>4. ASSUME NEW k \in Slots, k \in live, NEW w \in Int, DueAt(w, now, left[k])
      PROVE  DueAt(w, now', left'[k]) /\ left'[k] = left[k] - 1
  <2>1. left'[k] = left[k] - 1  BY <1>1, <1>4
  <2>2. now \in Int /\ left[k] \in Int /\ left[k] > - MaxLate  BY <1>1, <1>4, Numbers
  <2>3. DueAt(w, (now + 1) % ClockMod, left[k] - 1)  BY <1>4, <2>2, Nearer
  <2> QED  BY <1>1, <2>1, <2>3
<1>5. \A k \in Busy : k \in Slots /\ k \in live /\ when[k] \in Int
                      /\ DueAt(when[k], now, left[k])
  BY <1>1, <1>3, Numbers DEF Timely
<1>6. \A k \in Busy' : DueAt(when'[k], now', left'[k])
  BY <1>1, <1>3, <1>4, <1>5
<1>7. ASSUME NEW u \in Threads, pc[u] \in {"taken", "marked", "filled"}
      PROVE  job[u].ix \in Slots /\ job[u].ix \in live
  BY <1>1, <1>2, <1>7, Numbers DEF InHand
<1>8. \A u \in Threads : pc[u] \in {"taken", "marked"} =>
        DueAt(job[u].when, now', left'[job[u].ix])
  <2> SUFFICES ASSUME NEW u \in Threads, pc[u] \in {"taken", "marked"}
               PROVE  DueAt(job[u].when, now', left'[job[u].ix])
    OBVIOUS
  <2>1. DueAt(job[u].when, now, left[job[u].ix]) /\ job[u].when \in Int
    BY <1>1, Numbers DEF Timely
  <2> QED  BY <1>4, <1>7, <2>1
<1>9. \A u \in Threads : pc[u] = "filled" =>
        DueAt(when[job[u].ix], now', left'[job[u].ix])
  <2> SUFFICES ASSUME NEW u \in Threads, pc[u] = "filled"
               PROVE  DueAt(when[job[u].ix], now', left'[job[u].ix])
    OBVIOUS
  <2>1. DueAt(when[job[u].ix], now, left[job[u].ix])  BY <1>1 DEF Timely
  <2>2. when[job[u].ix] \in Int  BY <1>1, <1>7, Numbers
  <2> QED  BY <1>4, <1>7, <2>1, <2>2
<1>10. lag' <= MaxLate
  <2>1. lag \in Int /\ MaxLate \in Nat  BY <1>1, Numbers, RangeIsPositive
  <2> QED  BY <1>1, <2>1
<1>11. BusyInOrder'
  <2> SUFFICES ASSUME NEW i \in DOMAIN first, NEW j \in DOMAIN first, i < j
               PROVE  left'[first[i]] <= left'[first[j]]
    BY <1>1 DEF BusyInOrder
  <2>1. first[i] \in Busy /\ first[j] \in Busy  BY DEF Busy, ToSet
  <2>2. left[first[i]] <= left[first[j]]  BY <1>1 DEF BusyInOrder
  <2>3. left[first[i]] \in Int /\ left[first[j]] \in Int  BY <1>1, <1>3, <2>1, Numbers
  <2>4. left'[first[i]] = left[first[i]] - 1 /\ left'[first[j]] = left[first[j]] - 1
    BY <1>4, <1>5, <2>1
  <2> QED  BY <2>2, <2>3, <2>4
<1> QED  BY <1>1, <1>6, <1>8, <1>9, <1>10, <1>11 DEF Timely

\* Every step keeps the order and the time.
LEMMA TimelyStep == ASSUME TInv, Discipline, [Next]_vars PROVE TInv'
<1>1. IInv'  BY StepInv DEF TInv
<1> SUFFICES Timely' /\ BusyInOrder'
  BY <1>1 DEF TInv
<1>2. lag <= MaxLate /\ lag \in Int  BY Numbers DEF TInv, Timely
<1>3. ASSUME NEW t \in Threads, ClientStep(t) PROVE Timely' /\ BusyInOrder'
  <2>1. ASSUME NEW h \in Handles, AddFail(t, h) PROVE Timely' /\ BusyInOrder'
    <3>1. /\ UNCHANGED <<now, first, when, left, lag>> /\ pc' = [pc EXCEPT ![t] = Ready]
          /\ job' = [job EXCEPT ![t] = NoJob]
      BY <2>1 DEF AddFail, lists, fields
    <3>2. /\ pc'[t] = Ready
          /\ \A u \in Threads \ {t} : pc'[u] = pc[u] /\ job'[u] = job[u]
      BY <3>1 DEF TInv, IInv, Shape, TypeOK
    <3>3. Busy' = Busy  BY <3>1 DEF Busy
    <3> QED  BY <3>1, <3>2, <3>3 DEF TInv, Timely, BusyInOrder
  <2>2. ASSUME AddAssign(t) PROVE Timely' /\ BusyInOrder'
    <3>1. /\ UNCHANGED <<now, first, when, left, lag>> /\ pc' = [pc EXCEPT ![t] = Ready]
          /\ job' = [job EXCEPT ![t] = NoJob]
      BY <2>2 DEF AddAssign, lists, fields
    <3>2. /\ pc'[t] = Ready
          /\ \A u \in Threads \ {t} : pc'[u] = pc[u] /\ job'[u] = job[u]
      BY <3>1 DEF TInv, IInv, Shape, TypeOK
    <3>3. Busy' = Busy  BY <3>1 DEF Busy
    <3> QED  BY <3>1, <3>2, <3>3 DEF TInv, Timely, BusyInOrder
  <2> QED
    BY <1>3, <2>1, <2>2, AddTakeTimely, AddMarkTimely, AddFillTimely, AddLinkTimely,
       TimerRemoveTimely, TimerRestartTimely
       DEF ClientStep, AddStep
<1>4. CASE TickStep
  <2>1. ASSUME TickStart \/ TickEnd \/ CbReset \/ CbEnd PROVE Timely' /\ BusyInOrder'
    <3>1. UNCHANGED <<now, first, when, left, pc, job>> /\ lag' \in {0, None, lag}
      BY <2>1 DEF TickStart, TickEnd, CbReset, CbEnd, lists, fields, calls
    <3>2. lag' <= MaxLate  BY <1>2, <3>1, RangeIsPositive
    <3> QED  BY <3>1, <3>2, StillTimely
  <2> QED  BY <1>4, <2>1, TickFireTimely DEF TickStep
<1>5. CASE Advance  BY <1>5, AdvanceTimely
<1>6. CASE UNCHANGED vars
  <2>1. UNCHANGED <<now, first, when, left, pc, job, lag>>
    BY <1>6 DEF vars, lists, fields, calls, ticking
  <2> QED  BY <1>2, <2>1, StillTimely
<1> QED  BY <1>3, <1>4, <1>5, <1>6 DEF Next

\* No timer is armed at the start.
LEMMA TimelyInit == ASSUME Init PROVE TInv
<1>1. IInv  BY InitInv
<1>2. first = << >> /\ Busy = {} /\ lag = None /\ \A t \in Threads : pc[t] = Ready
  BY DEF Init, Busy, ToSet
<1>3. lag <= MaxLate  BY <1>2, RangeIsPositive
<1>4. DOMAIN first = {}  BY <1>2
<1> QED  BY <1>1, <1>2, <1>3, <1>4 DEF TInv, Timely, BusyInOrder

\* The deadlines agree with the clock in every state.
LEMMA TimelyAlways == ASSUME Discipline PROVE Spec => []TInv
<1>1. Init => TInv  BY TimelyInit
<1>2. TInv /\ [Next]_vars => TInv'  BY TimelyStep
<1> QED  BY <1>1, <1>2, PTL DEF Spec

\* The busy list is in the order of the real deadlines, for any range of the
\* clock that is more than twice the longest delay and lateness together.
THEOREM OrderedByDeadline == ASSUME Discipline PROVE Spec => []BusyInOrder
<1>1. TInv => BusyInOrder  BY DEF TInv
<1> QED  BY <1>1, TimelyAlways, PTL

\* What tick() calls back is due, and nothing is due earlier.
LEMMA FiresDue ==
  ASSUME TInv, [Next]_vars, NEW h \in Handles, cb = NoHandle, cb' = h
  PROVE  LET k == Head(first) IN
         owner[k] = h /\ left[k] <= 0 /\ \A j \in Busy : left[k] <= left[j]
<1> USE ThreadAssumption
<1> DEFINE k == Head(first)
<1>1. IInv /\ Timely /\ BusyInOrder /\ Pool  BY DEF TInv, IInv
<1>2. TickFire
  <2>1. cb' # cb  OBVIOUS
  <2>2. ASSUME NEW t \in Threads, ClientStep(t) PROVE cb' = cb
    BY <2>2 DEF ClientStep, AddTake, AddFail, AddStep, AddMark, AddFill, AddLink, AddAssign,
                TimerRemove, TimerRestart, ticking
  <2>3. TickStart \/ TickEnd => cb' = cb
    BY DEF TickStart, TickEnd
  <2>4. ~ CbReset /\ ~ CbEnd  BY DEF CbReset, CbEnd
  <2>5. Advance => cb' = cb  BY DEF Advance
  <2>6. UNCHANGED vars => cb' = cb  BY DEF vars, ticking
  <2> QED  BY <2>1, <2>2, <2>3, <2>4, <2>5, <2>6 DEF Next, TickStep
<1>3. /\ first # << >> /\ lag # None /\ owner[k] = h
      /\ Expired((now - lag) % ClockMod, when[k])
  BY <1>2 DEF TickFire, HeadExpired, TickNow
<1>4. k \in Slots /\ k \in Busy  BY <1>1, <1>3, PopSet DEF Pool, Busy
<1>5. left[k] <= 0
  <2>1. lag \in 0 .. MaxLate
    BY <1>1, <1>3, RangeIsPositive DEF IInv, Shape, TypeOK, Timely
  <2>2. now \in Int /\ when[k] \in Int /\ left[k] \in Int  BY <1>1, <1>4, Numbers
  <2>3. DueAt(when[k], now, left[k])  BY <1>1, <1>4 DEF Timely
  <2> HIDE DEF k
  <2> QED  BY <1>3, <2>1, <2>2, <2>3, ExpiredIs
<1>6. ASSUME NEW j \in Busy PROVE left[k] <= left[j]
  <2>1. /\ Len(first) \in Nat /\ DOMAIN first = 1 .. Len(first) /\ Len(first) # 0
        /\ k = first[1]
    BY <1>1, <1>3, ListType, EmptySeq, HeadTailProperties DEF Pool
  <2>2. PICK i \in 1 .. Len(first) : j = first[i]  BY <2>1 DEF Busy, ToSet
  <2>3. left[k] \in Int /\ left[j] \in Int  BY <1>1, <1>4, Numbers
  <2>4. CASE i = 1  BY <2>1, <2>2, <2>3, <2>4
  <2>5. CASE i # 1
    <3>1. 1 \in DOMAIN first /\ i \in DOMAIN first /\ 1 < i  BY <2>1, <2>2, <2>5
    <3> QED  BY <1>1, <2>1, <2>2, <3>1 DEF BusyInOrder
  <2> QED  BY <2>4, <2>5
<1> QED  BY <1>3, <1>5, <1>6

\* A callback runs only when its deadline has passed, before any later one.
THEOREM CalledWhenDue == ASSUME Discipline PROVE Spec => FiresWhenDue
<1>1. TInv /\ [Next]_vars =>
        [\A h \in Handles : cb = NoHandle /\ cb' = h =>
           LET k == Head(first) IN
           /\ owner[k] = h /\ left[k] <= 0
           /\ \A j \in Busy : left[k] <= left[j]]_vars
  BY FiresDue
<1> QED  BY <1>1, TimelyAlways, PTL DEF Spec, FiresWhenDue

-----------------------------------------------------------------------------
(* Handles and timers.  Every handle is added by one thread; a timer is    *)
(* armed for a handle that names it, or for one whose call is about to     *)
(* write that name.                                                        *)

\* The timers of the stack are added by the periodic call, but for the delayed
\* answer to an Identify request, added by the thread that receives the request.
SingleAdder == \A h \in Handles : \A t, u \in Adders[h] : t = u

Carries(k, h) == in_use[k] /\ name[k] = NameOf[h] /\ owner[k] = h

\* A slot that can be found by its name carries the name of its handle.
Named ==
  /\ \A k \in Busy : owner[k] \in Handles /\ Carries(k, owner[k])
  /\ \A t \in Threads : pc[t] = "marked" => in_use[job[t].ix]
  /\ \A t \in Threads : pc[t] = "filled" => Carries(job[t].ix, job[t].h)

Linked(t, h)        == pc[t] = "linked" /\ job[t].h = h
Unassigned(t, h, k) == Linked(t, h) /\ job[t].ix = k

\* The handle of an armed timer names it, or is about to.
Known == \A k \in Busy : handle[owner[k]] = k
                         \/ \E t \in Threads : Unassigned(t, owner[k], k)

\* No call works on a handle whose timer is armed, but to write the handle,
Adding == \A k \in Busy, t \in Threads :
            pc[t] # Ready /\ job[t].h = owner[k] => Unassigned(t, owner[k], k)

\* and the callback of a handle finds its timer armed only after its own add.
Rearmed == \A k \in Busy : cb = owner[k] /\ fresh => Linked(Main, owner[k])

\* What another thread adds is not added again before its callback is over.
Pending == \A h \in Handles : cb = h /\ fresh /\ ~ MainOnly(h) =>
             handle[h] # None \/ \E t \in Threads : Linked(t, h)
Apart == \A t \in Threads : InHand(t) /\ ~ MainOnly(job[t].h) =>
           ~ (cb = job[t].h /\ fresh)
Restarts == \A t \in Threads : pc[t] = "restart" => MainOnly(job[t].h)

Names == OneTimerPerHandle /\ Known /\ Adding /\ Rearmed /\ Pending /\ Apart /\ Restarts

HInv == IInv /\ Named /\ Names

\* What the types say of the callers.
LEMMA Callers ==
  ASSUME IInv
  PROVE  /\ Main \in Threads /\ NoHandle \notin Handles
         /\ Busy \subseteq Slots
         /\ \A t \in Threads : pc[t] # Ready =>
              job[t].h \in Handles /\ t \in Adders[job[t].h]
         /\ \A t \in Threads : InHand(t) => /\ job[t].ix \in Slots /\ job[t].ix \notin Busy
                                            /\ pc[t] # Ready /\ pc[t] # "linked"
         /\ pc \in [Threads -> Steps] /\ DOMAIN job = Threads
         /\ handle \in [Handles -> Slots \cup {None}]
         /\ in_use \in [Slots -> BOOLEAN] /\ DOMAIN name = Slots /\ DOMAIN owner = Slots
         /\ None \notin Slots
<1>1. TypeOK /\ Pool /\ Jobs  BY DEF IInv, Shape
<1>2. Busy \subseteq Slots  BY Numbers
<1>3. None \notin Slots  BY DEF Slots
<1> QED  BY <1>1, <1>2, <1>3, ThreadAssumption DEF TypeOK, Pool, Jobs, InHand

\* A handle of other threads than the main one is added by one that is not it.
LEMMA AdderIs ==
  ASSUME SingleAdder, NEW h \in Handles, NEW t \in Adders[h], NEW u \in Adders[h]
  PROVE  t = u
BY DEF SingleAdder

\* The adder of such a handle is not the main thread.
LEMMA NotMain ==
  ASSUME SingleAdder, Discipline, NEW h \in Handles, ~ MainOnly(h), NEW t \in Adders[h]
  PROVE  t # Main
<1>1. Removers[h] = {}  BY DEF Discipline
<1>2. PICK u \in Adders[h] : u # Main  BY <1>1 DEF MainOnly
<1> QED  BY <1>2, AdderIs

\* Who may add has no timer armed,
LEMMA NoneArmed ==
  ASSUME HInv, SingleAdder, NEW t \in Threads, NEW h \in Handles, MayAdd(t, h)
  PROVE  /\ \A k \in Busy : owner[k] # h
         /\ pc[t] \in {Ready, "restart"} /\ t \in Adders[h]
<1>1. IInv /\ Known /\ Adding /\ Rearmed  BY DEF HInv, Names
<1>2. pc[t] \in {Ready, "restart"}  BY DEF MayAdd, MayCall
<1>3. CASE pc[t] = "restart" /\ job[t].h = h
  <2>1. t \in Adders[h]  BY <1>1, <1>3, Callers
  <2>2. \A k \in Busy : owner[k] # h  BY <1>1, <1>3 DEF Adding, Unassigned, Linked
  <2> QED  BY <1>2, <2>1, <2>2
<1>4. CASE ~ (pc[t] = "restart" /\ job[t].h = h)
  <2>1. /\ t \in Adders[h] /\ pc[t] = Ready
        /\ handle[h] = None \/ (t = Main /\ cb = h /\ fresh)
    BY <1>4 DEF MayAdd, MayCall, InCallback
  <2>2. ASSUME NEW k \in Busy, owner[k] = h PROVE FALSE
    <3>1. CASE handle[h] = None
      <4>1. PICK u \in Threads : Unassigned(u, h, k)
        BY <1>1, <2>2, <3>1, Callers DEF Known
      <4>2. u \in Adders[h]  BY <1>1, <4>1, Callers DEF Unassigned, Linked
      <4>3. u = t  BY <2>1, <4>2, AdderIs
      <4> QED  BY <2>1, <4>1, <4>3 DEF Unassigned, Linked
    <3>2. CASE t = Main /\ cb = h /\ fresh
      BY <1>1, <2>1, <2>2, <3>2 DEF Rearmed, Linked
    <3> QED  BY <2>1, <3>1, <3>2
  <2> QED  BY <1>2, <2>1, <2>2
<1> QED  BY <1>3, <1>4

\* and if it is not the main thread's handle, no callback of it waits.
LEMMA NoneFired ==
  ASSUME HInv, SingleAdder, Discipline, NEW t \in Threads, NEW h \in Handles,
         MayAdd(t, h), ~ MainOnly(h)
  PROVE  ~ (cb = h /\ fresh)
<1>1. IInv /\ Pending /\ Restarts  BY DEF HInv, Names
<1>2. t \in Adders[h] /\ pc[t] \in {Ready, "restart"}  BY NoneArmed
<1>3. t # Main  BY <1>2, NotMain
<1>4. ~ (pc[t] = "restart" /\ job[t].h = h)  BY <1>1 DEF Restarts
<1>5. pc[t] = Ready /\ handle[h] = None  BY <1>3, <1>4 DEF MayAdd, MayCall, InCallback
<1>6. ASSUME cb = h, fresh PROVE FALSE
  <2>1. PICK u \in Threads : Linked(u, h)  BY <1>1, <1>5, <1>6 DEF Pending
  <2>2. u \in Adders[h]  BY <1>1, <2>1, Callers DEF Linked
  <2>3. u = t  BY <1>2, <2>2, AdderIs
  <2> QED  BY <1>5, <2>1, <2>3 DEF Linked
<1> QED  BY <1>6

\* A step that leaves timers, handles, calls and callback alone.
LEMMA StillNamed ==
  ASSUME HInv, UNCHANGED <<first, in_use, name, owner, handle, pc, job>>,
         (cb' = cb /\ fresh' = fresh) \/ fresh' = FALSE
  PROVE  Named' /\ Names'
<1>1. Busy' = Busy  BY DEF Busy
<1>2. Named'  BY <1>1 DEF HInv, Named, Carries
<1>3. OneTimerPerHandle' /\ Known' /\ Adding' /\ Rearmed'
  BY <1>1 DEF HInv, Names, OneTimerPerHandle, Known, Adding, Rearmed, Linked, Unassigned
<1>4. Pending' /\ Apart' /\ Restarts'
  BY DEF HInv, Names, Pending, Apart, Restarts, Linked, MainOnly, InHand
<1> QED  BY <1>2, <1>3, <1>4 DEF Names

\* A slot in hand is not armed yet.
LEMMA AddTakeNames ==
  ASSUME HInv, SingleAdder, Discipline, NEW t \in Threads, NEW h \in Handles,
         NEW d \in Delays, AddTake(t, h, d)
  PROVE  Named' /\ Names'
<1> DEFINE j == [h |-> h, ix |-> Head(free), when |-> Deadline(d)]
<1>1. /\ IInv /\ MayAdd(t, h) /\ pc' = [pc EXCEPT ![t] = "taken"]
      /\ job' = [job EXCEPT ![t] = j]
      /\ UNCHANGED <<first, in_use, name, owner, handle, cb, fresh>>
  BY DEF HInv, AddTake, fields, ticking
<1>0. j.h = h  OBVIOUS
<1> HIDE DEF j
<1>2. /\ pc'[t] = "taken" /\ job'[t].h = h
      /\ \A u \in Threads : u # t => pc'[u] = pc[u] /\ job'[u] = job[u]
  BY <1>0, <1>1, Callers
<1>3. (\A k \in Busy : owner[k] # h) /\ pc[t] \in {Ready, "restart"}
  BY <1>1, NoneArmed
<1>4. Busy' = Busy  BY <1>1 DEF Busy
<1>5. Named'  BY <1>1, <1>2, <1>4 DEF HInv, Named, Carries
<1>6. OneTimerPerHandle'  BY <1>1, <1>4 DEF HInv, Names, OneTimerPerHandle
<1>7. \A u \in Threads : \A g, k : Unassigned(u, g, k) => u # t /\ Unassigned(u, g, k)'
  BY <1>2, <1>3 DEF Unassigned, Linked
<1>8. \A u \in Threads : \A g : Linked(u, g) => u # t /\ Linked(u, g)'
  BY <1>2, <1>3 DEF Linked
<1>9. Known'  BY <1>1, <1>4, <1>7 DEF HInv, Names, Known
<1>10. Adding'
  <2> SUFFICES ASSUME NEW k \in Busy, NEW u \in Threads, pc'[u] # Ready,
                      job'[u].h = owner[k]
               PROVE  Unassigned(u, owner[k], k)'
    BY <1>1, <1>4 DEF Adding, Unassigned, Linked
  <2>1. u # t  BY <1>2, <1>3
  <2>2. Unassigned(u, owner[k], k)  BY <1>2, <2>1 DEF HInv, Names, Adding
  <2> QED  BY <1>1, <1>7, <2>2
<1>11. Rearmed'  BY <1>1, <1>4, <1>8, Callers DEF HInv, Names, Rearmed
<1>12. Pending'  BY <1>1, <1>8 DEF HInv, Names, Pending, MainOnly
<1>13. Apart'
  <2> SUFFICES ASSUME NEW u \in Threads, InHand(u)', ~ MainOnly(job'[u].h)
               PROVE  ~ (cb = job'[u].h /\ fresh)
    BY <1>1 DEF Apart, MainOnly
  <2>1. CASE u = t  BY <1>1, <1>2, <2>1, NoneFired
  <2>2. CASE u # t  BY <1>2, <2>2 DEF HInv, Names, Apart, InHand
  <2> QED  BY <2>1, <2>2
<1>14. Restarts'  BY <1>2 DEF HInv, Names, Restarts, MainOnly
<1> QED  BY <1>5, <1>6, <1>9, <1>10, <1>11, <1>12, <1>13, <1>14 DEF Names

\* With no slot left the call ends; its handle had no timer armed.
LEMMA AddFailNames ==
  ASSUME HInv, SingleAdder, Discipline, NEW t \in Threads, NEW h \in Handles, AddFail(t, h)
  PROVE  Named' /\ Names'
<1>1. /\ IInv /\ MayAdd(t, h) /\ pc' = [pc EXCEPT ![t] = Ready]
      /\ job' = [job EXCEPT ![t] = NoJob] /\ handle' = [handle EXCEPT ![h] = None]
      /\ fresh' => fresh
      /\ UNCHANGED <<first, in_use, name, owner, cb>>
  BY DEF HInv, AddFail, fields, lists, Served
<1>2. /\ pc'[t] = Ready
      /\ \A u \in Threads : u # t => pc'[u] = pc[u] /\ job'[u] = job[u]
      /\ \A g \in Handles : g # h => handle'[g] = handle[g]
  BY <1>1, Callers
<1>3. (\A k \in Busy : owner[k] # h) /\ pc[t] \in {Ready, "restart"}
  BY <1>1, NoneArmed
<1>4. Busy' = Busy  BY <1>1 DEF Busy
<1>5. Named'  BY <1>1, <1>2, <1>4 DEF HInv, Named, Carries
<1>6. OneTimerPerHandle'  BY <1>1, <1>4 DEF HInv, Names, OneTimerPerHandle
<1>7. \A u \in Threads : \A g, k : Unassigned(u, g, k) => u # t /\ Unassigned(u, g, k)'
  BY <1>2, <1>3 DEF Unassigned, Linked
<1>8. \A u \in Threads : \A g : Linked(u, g) => u # t /\ Linked(u, g)'
  BY <1>2, <1>3 DEF Linked
<1>9. Known'
  <2> SUFFICES ASSUME NEW k \in Busy
               PROVE  handle'[owner[k]] = k \/ \E u \in Threads : Unassigned(u, owner[k], k)'
    BY <1>1, <1>4 DEF Known, Unassigned, Linked
  <2>1. owner[k] \in Handles /\ owner[k] # h  BY <1>3 DEF HInv, Named
  <2>2. handle'[owner[k]] = handle[owner[k]]  BY <1>2, <2>1
  <2> QED  BY <1>1, <1>7, <2>2 DEF HInv, Names, Known
<1>10. Adding'
  <2> SUFFICES ASSUME NEW k \in Busy, NEW u \in Threads, pc'[u] # Ready,
                      job'[u].h = owner[k]
               PROVE  Unassigned(u, owner[k], k)'
    BY <1>1, <1>4 DEF Adding, Unassigned, Linked
  <2>1. u # t  BY <1>2
  <2>2. Unassigned(u, owner[k], k)  BY <1>2, <2>1 DEF HInv, Names, Adding
  <2> QED  BY <1>1, <1>7, <2>2
<1>11. Rearmed'  BY <1>1, <1>4, <1>8, Callers DEF HInv, Names, Rearmed
<1>12. Pending'
  <2> SUFFICES ASSUME NEW g \in Handles, cb = g, fresh', ~ MainOnly(g)
               PROVE  handle'[g] # None \/ \E u \in Threads : Linked(u, g)'
    BY <1>1 DEF Pending, MainOnly
  <2>1. g # h  BY <1>1, NoneFired
  <2> QED  BY <1>1, <1>2, <1>8, <2>1 DEF HInv, Names, Pending
<1>13. Apart'  BY <1>1, <1>2 DEF HInv, Names, Apart, MainOnly, InHand
<1>14. Restarts'  BY <1>2 DEF HInv, Names, Restarts, MainOnly
<1> QED  BY <1>5, <1>6, <1>9, <1>10, <1>11, <1>12, <1>13, <1>14 DEF Names

\* Filling in a slot that is in hand touches no armed timer.
LEMMA FillNames ==
  ASSUME HInv, NEW t \in Threads, NEW k \in Slots, k \notin Busy, InHand(t), job[t].ix = k,
         UNCHANGED <<first, handle, job, cb, fresh>>,
         \A i \in Slots : i # k => in_use'[i] = in_use[i] /\ name'[i] = name[i] /\ owner'[i] = owner[i],
         pc'[t] \in {"marked", "filled"}, in_use'[k],
         pc'[t] = "filled" => name'[k] = NameOf[job[t].h] /\ owner'[k] = job[t].h,
         \A u \in Threads : u # t => pc'[u] = pc[u]
  PROVE  Named' /\ Names'
<1>1. IInv /\ Pool /\ Named /\ Names  BY DEF HInv, IInv
<1>2. Busy' = Busy /\ Busy \subseteq Slots  BY <1>1, Callers DEF Busy
<1>3. \A i \in Busy : in_use'[i] = in_use[i] /\ name'[i] = name[i] /\ owner'[i] = owner[i]
  BY <1>2
<1>4. Named'
  <2>1. \A u \in Threads : u # t /\ InHand(u) => job[u].ix \in Slots /\ job[u].ix # k
    BY <1>1 DEF Pool
  <2>2. \A i \in Busy' : owner'[i] \in Handles /\ Carries(i, owner[i])'
    BY <1>1, <1>2, <1>3 DEF Named, Carries
  <2>3. ASSUME NEW u \in Threads
        PROVE  /\ pc'[u] = "marked" => in_use'[job[u].ix]
               /\ pc'[u] = "filled" => Carries(job[u].ix, job[u].h)'
    <3>1. CASE u = t  BY <3>1 DEF Carries
    <3>2. CASE u # t
      <4>1. ASSUME InHand(u) PROVE job[u].ix \in Slots /\ job[u].ix # k
        BY <2>1, <3>2, <4>1
      <4> QED  BY <1>1, <3>2, <4>1 DEF Named, Carries, InHand
    <3> QED  BY <3>1, <3>2
  <2> QED  BY <1>3, <2>2, <2>3, <1>2 DEF Named, Carries
<1>5. OneTimerPerHandle'  BY <1>1, <1>2, <1>3 DEF Names, OneTimerPerHandle
<1>6. \A u \in Threads : (pc'[u] = "linked" <=> pc[u] = "linked") /\ (pc'[u] # Ready => pc[u] # Ready)
  BY DEF InHand
<1>7. Known'  BY <1>1, <1>2, <1>3, <1>6 DEF Names, Known, Unassigned, Linked
<1>8. Adding'  BY <1>1, <1>2, <1>3, <1>6 DEF Names, Adding, Unassigned, Linked
<1>9. Rearmed'  BY <1>1, <1>2, <1>3, <1>6, ThreadAssumption DEF Names, Rearmed, Linked
<1>10. Pending'  BY <1>1, <1>6 DEF Names, Pending, MainOnly, Linked
<1>11. \A u \in Threads : InHand(u)' => InHand(u)  BY DEF InHand
<1>12. Apart'  BY <1>1, <1>11 DEF Names, Apart, MainOnly
<1>13. Restarts'  BY <1>1 DEF Names, Restarts, MainOnly
<1> QED  BY <1>4, <1>5, <1>7, <1>8, <1>9, <1>10, <1>12, <1>13 DEF Names

\* The flag, and then the name and the owner.
LEMMA AddFillNames ==
  ASSUME HInv, NEW t \in Threads, AddMark(t) \/ AddFill(t)
  PROVE  Named' /\ Names'
<1> DEFINE k == job[t].ix
<1>1. pc[t] \in {"taken", "marked"} /\ InHand(t)  BY DEF AddMark, AddFill, InHand
<1>2. IInv /\ k \in Slots /\ k \notin Busy  BY <1>1, Callers DEF HInv
<1>3. UNCHANGED <<first, handle, job, cb, fresh>>
  BY DEF AddMark, AddFill, lists, ticking
<1>4. CASE AddMark(t)
  <2>1. /\ in_use' = [in_use EXCEPT ![k] = TRUE] /\ name' = name /\ owner' = owner
        /\ pc' = [pc EXCEPT ![t] = "marked"]
    BY <1>4 DEF AddMark
  <2>2. /\ in_use'[k] /\ pc'[t] = "marked" /\ \A u \in Threads : u # t => pc'[u] = pc[u]
        /\ \A i \in Slots : i # k => in_use'[i] = in_use[i]
    BY <1>2, <2>1, Callers
  <2> HIDE DEF k
  <2> QED  BY <1>1, <1>2, <1>3, <2>1, <2>2, FillNames DEF k
<1>5. CASE AddFill(t)
  <2>1. /\ in_use' = in_use /\ name' = [name EXCEPT ![k] = NameOf[job[t].h]]
        /\ owner' = [owner EXCEPT ![k] = job[t].h]
        /\ pc' = [pc EXCEPT ![t] = "filled"] /\ pc[t] = "marked"
    BY <1>5 DEF AddFill
  <2>2. in_use[k]  BY <2>1 DEF HInv, Named
  <2>3. /\ name'[k] = NameOf[job[t].h] /\ owner'[k] = job[t].h
        /\ pc'[t] = "filled" /\ \A u \in Threads : u # t => pc'[u] = pc[u]
        /\ \A i \in Slots : i # k => name'[i] = name[i] /\ owner'[i] = owner[i]
    BY <1>2, <2>1, Callers
  <2> HIDE DEF k
  <2> QED  BY <1>1, <1>2, <1>3, <2>1, <2>2, <2>3, FillNames DEF k
<1> QED  BY <1>4, <1>5

\* A linked timer is armed before its handle says so.
LEMMA AddLinkNames ==
  ASSUME HInv, SingleAdder, NEW t \in Threads, AddLink(t)
  PROVE  Named' /\ Names'
<1> DEFINE n == job[t].ix
           h == job[t].h
<1>1. /\ IInv /\ Pool /\ Named /\ Names /\ pc[t] = "filled"
      /\ first' = InsertAt(first, Position(n), n)
      /\ pc' = [pc EXCEPT ![t] = "linked"]
      /\ UNCHANGED <<in_use, name, owner, handle, job, cb, fresh>>
  BY DEF HInv, IInv, AddLink, fields, ticking
<1>2. pc'[t] = "linked" /\ \A u \in Threads : u # t => pc'[u] = pc[u]
  BY <1>1, Callers
<1>3. n \in Slots /\ n \notin Busy /\ InHand(t)  BY <1>1, Callers DEF InHand
<1>4. h \in Handles /\ t \in Adders[h] /\ Carries(n, h)  BY <1>1, Callers DEF Named
<1>5. pc[t] # "linked" /\ pc[t] # Ready  BY <1>1
<1>6. \A k \in Busy : owner[k] # h  BY <1>1, <1>5 DEF Names, Adding, Unassigned, Linked
<1>7. pc'[t] = "linked" /\ job'[t].h = h /\ job'[t].ix = n  BY <1>1, <1>2
<1>8. \A u \in Threads : \A g, k : Unassigned(u, g, k) => Unassigned(u, g, k)'
  BY <1>1, <1>2, <1>5 DEF Unassigned, Linked
<1>9. \A u \in Threads : \A g : Linked(u, g) => Linked(u, g)'
  BY <1>1, <1>2, <1>5 DEF Linked
<1>10. \A u \in Threads : pc'[u] # Ready => pc[u] # Ready  BY <1>2, <1>5
<1>11. \A u \in Threads : InHand(u)' => InHand(u)  BY <1>2 DEF InHand
<1> HIDE DEF n
<1>12. Busy' = Busy \cup {n}
  <2>1. Position(n) \in 1 .. Len(first) + 1  BY <1>1, <1>3, PositionInRange DEF Pool
  <2> QED  BY <1>1, <1>3, <2>1, InsertAtSet DEF Pool, Busy
<1>13. owner[n] = h  BY <1>4 DEF Carries
<1> HIDE DEF h
<1>14. Named'
  <2>1. \A k \in Busy' : owner'[k] \in Handles /\ Carries(k, owner'[k])
    BY <1>1, <1>4, <1>12, <1>13 DEF Named
  <2>2. \A u \in Threads : pc'[u] = "marked" => in_use[job[u].ix]  BY <1>1, <1>2 DEF Named
  <2>3. \A u \in Threads : pc'[u] = "filled" => Carries(job[u].ix, job[u].h)
    BY <1>1, <1>2 DEF Named
  <2> QED  BY <1>1, <2>1, <2>2, <2>3 DEF Named, Carries
<1>15. OneTimerPerHandle'  BY <1>1, <1>6, <1>12, <1>13 DEF Names, OneTimerPerHandle
<1>16. Known'
  <2> SUFFICES ASSUME NEW k \in Busy'
               PROVE  handle[owner[k]] = k \/ \E u \in Threads : Unassigned(u, owner[k], k)'
    BY <1>1 DEF Known, Unassigned, Linked
  <2>1. CASE k = n  BY <1>1, <1>7, <1>13, <2>1 DEF Unassigned, Linked
  <2>2. CASE k # n
    <3>1. k \in Busy  BY <1>12, <2>2
    <3>2. CASE handle[owner[k]] = k  BY <3>2
    <3>3. CASE \E u \in Threads : Unassigned(u, owner[k], k)
      BY <1>1, <1>8, <3>3
    <3> QED  BY <1>1, <3>1, <3>2, <3>3 DEF Names, Known
  <2> QED  BY <2>1, <2>2
<1>17. Adding'
  <2> SUFFICES ASSUME NEW k \in Busy', NEW u \in Threads, pc'[u] # Ready, job[u].h = owner[k]
               PROVE  Unassigned(u, owner[k], k)'
    BY <1>1 DEF Adding, Unassigned, Linked
  <2>1. pc[u] # Ready  BY <1>10
  <2>2. CASE k = n
    <3>1. u \in Adders[h]  BY <1>1, <1>13, <2>1, <2>2, Callers
    <3>2. u = t  BY <1>4, <3>1, AdderIs
    <3> QED  BY <1>1, <1>7, <1>13, <2>2, <3>2 DEF Unassigned, Linked
  <2>3. CASE k # n
    <3>1. k \in Busy  BY <1>12, <2>3
    <3>2. Unassigned(u, owner[k], k)  BY <1>1, <2>1, <3>1 DEF Names, Adding
    <3> QED  BY <1>1, <1>8, <3>2
  <2> QED  BY <2>2, <2>3
<1>18. Rearmed'
  <2> SUFFICES ASSUME NEW k \in Busy', cb = owner[k], fresh
               PROVE  Linked(Main, owner[k])'
    BY <1>1 DEF Rearmed, Linked
  <2>1. CASE k = n
    <3>1. MainOnly(h)  BY <1>1, <1>3, <1>13, <2>1 DEF Names, Apart, h
    <3>2. t = Main  BY <1>4, <3>1 DEF MainOnly
    <3> QED  BY <1>1, <1>7, <1>13, <2>1, <3>2 DEF Unassigned, Linked
  <2>2. CASE k # n
    <3>1. k \in Busy  BY <1>12, <2>2
    <3>2. Linked(Main, owner[k])  BY <1>1, <3>1 DEF Names, Rearmed
    <3> QED  BY <1>1, <1>9, <3>2, Callers
  <2> QED  BY <2>1, <2>2
<1>19. Pending'  BY <1>1, <1>9 DEF Names, Pending, MainOnly
<1>20. Apart'  BY <1>1, <1>11 DEF Names, Apart, MainOnly
<1>21. Restarts'  BY <1>1, <1>2 DEF Names, Restarts, MainOnly
<1> QED  BY <1>14, <1>15, <1>16, <1>17, <1>18, <1>19, <1>20, <1>21 DEF Names

\* Then the handle is written.
LEMMA AddAssignNames ==
  ASSUME HInv, NEW t \in Threads, AddAssign(t)
  PROVE  Named' /\ Names'
<1> DEFINE n == job[t].ix
           h == job[t].h
<1>1. /\ IInv /\ Named /\ Names /\ pc[t] = "linked"
      /\ pc' = [pc EXCEPT ![t] = Ready]
      /\ job' = [job EXCEPT ![t] = NoJob] /\ handle' = [handle EXCEPT ![h] = n]
      /\ fresh' => fresh
      /\ UNCHANGED <<first, in_use, name, owner, cb>>
  BY DEF HInv, AddAssign, fields, lists, Served
<1>2. h \in Handles /\ n \in Slots /\ n # None
  BY <1>1, Callers DEF IInv, Jobs
<1>3. /\ pc'[t] = Ready /\ handle'[h] = n
      /\ \A u \in Threads : u # t => pc'[u] = pc[u] /\ job'[u] = job[u]
      /\ \A g \in Handles : g # h => handle'[g] = handle[g]
  BY <1>1, <1>2, Callers
<1>4. Busy' = Busy  BY <1>1 DEF Busy
<1>5. Named'  BY <1>1, <1>3, <1>4 DEF Named, Carries
<1>6. OneTimerPerHandle'  BY <1>1, <1>4 DEF Names, OneTimerPerHandle
<1>7. \A u \in Threads : \A g, k : Unassigned(u, g, k) /\ g # h => u # t /\ Unassigned(u, g, k)'
  BY <1>3 DEF Unassigned, Linked
<1>8. \A u \in Threads : \A g : Linked(u, g) /\ g # h => u # t /\ Linked(u, g)'
  BY <1>3 DEF Linked
<1>9. \A k \in Busy : owner[k] = h => k = n
  BY <1>1 DEF Names, Adding, Unassigned
<1> HIDE DEF n, h
<1>10. Known'
  <2> SUFFICES ASSUME NEW k \in Busy
               PROVE  handle'[owner[k]] = k \/ \E u \in Threads : Unassigned(u, owner[k], k)'
    BY <1>1, <1>4 DEF Known, Unassigned, Linked
  <2>1. CASE owner[k] = h  BY <1>3, <1>9, <2>1
  <2>2. CASE owner[k] # h
    <3>1. handle'[owner[k]] = handle[owner[k]]  BY <1>1, <1>3, <2>2 DEF Named
    <3> QED  BY <1>1, <1>7, <2>2, <3>1 DEF Names, Known
  <2> QED  BY <2>1, <2>2
<1>11. Adding'
  <2> SUFFICES ASSUME NEW k \in Busy, NEW u \in Threads, pc'[u] # Ready, job'[u].h = owner[k]
               PROVE  Unassigned(u, owner[k], k)'
    BY <1>1, <1>4 DEF Adding, Unassigned, Linked
  <2>1. u # t /\ pc'[u] = pc[u] /\ job'[u] = job[u]  BY <1>3
  <2>2. Unassigned(u, owner[k], k)  BY <1>1, <2>1 DEF Names, Adding
  <2> QED  BY <1>1, <2>1, <2>2 DEF Unassigned, Linked
<1>12. Rearmed'
  <2> SUFFICES ASSUME NEW k \in Busy, cb = owner[k], fresh'
               PROVE  Linked(Main, owner[k])'
    BY <1>1, <1>4 DEF Rearmed, Linked
  <2>1. Linked(Main, owner[k]) /\ owner[k] \in Handles
    BY <1>1 DEF Names, Rearmed, Named
  <2>2. t # Main
    <3> SUFFICES ASSUME t = Main PROVE FALSE  OBVIOUS
    <3>1. owner[k] = job[t].h  BY <2>1 DEF Linked
    <3>2. fresh' = Served(t, job[t].h)  BY DEF AddAssign
    <3>3. InCallback(t)  BY <2>1, Callers, <1>1 DEF InCallback
    <3> QED  BY <3>1, <3>2, <3>3 DEF Served
  <2> QED  BY <1>1, <1>3, <2>1, <2>2, Callers DEF Linked
<1>13. Pending'
  <2> SUFFICES ASSUME NEW g \in Handles, cb = g, fresh', ~ MainOnly(g)
               PROVE  handle'[g] # None \/ \E u \in Threads : Linked(u, g)'
    BY <1>1 DEF Pending, MainOnly
  <2>1. CASE g = h  BY <1>2, <1>3, <2>1
  <2>2. CASE g # h  BY <1>1, <1>3, <1>8, <2>2 DEF Names, Pending
  <2> QED  BY <2>1, <2>2
<1>14. Apart'  BY <1>1, <1>3 DEF Names, Apart, MainOnly, InHand
<1>15. Restarts'  BY <1>1, <1>3 DEF Names, Restarts, MainOnly
<1> QED  BY <1>5, <1>6, <1>10, <1>11, <1>12, <1>13, <1>14, <1>15 DEF Names

\* A removal takes the timer its handle names, and a restart finds none left.
LEMMA RemovalNames ==
  ASSUME HInv, Discipline, NEW t \in Threads, NEW h \in Handles,
         MayRemove(t, h), RemoveEffect(h), UNCHANGED <<name, owner, cb, fresh>>,
         pc'[t] \in {Ready, "restart"}, pc'[t] = "restart" => job'[t].h = h,
         \A u \in Threads : u # t => pc'[u] = pc[u] /\ job'[u] = job[u]
  PROVE  Named' /\ Names'
<1>1. IInv /\ Pool /\ Named /\ Names  BY DEF HInv, IInv
<1>2. t = Main /\ MainOnly(h) /\ pc[t] = Ready  BY <1>1, RemoveEffectFacts
<1>3. \A u \in Threads : \A g, k : Unassigned(u, g, k) => u # t
  BY <1>2 DEF Unassigned, Linked
<1>4. \A u \in Threads : \A g : Linked(u, g) => u # t
  BY <1>2 DEF Linked
<1>5. \A k \in Busy : owner[k] = h => handle[h] = k
  <2> SUFFICES ASSUME NEW k \in Busy, owner[k] = h, NEW u \in Threads, Unassigned(u, h, k)
               PROVE  FALSE
    BY <1>1 DEF Names, Known
  <2>1. u \in Adders[h]  BY <1>1, Callers DEF Unassigned, Linked
  <2> QED  BY <1>2, <1>3, <2>1 DEF MainOnly
<1>6. \A k \in Busy' : /\ k \in Busy /\ owner[k] # h
                        /\ in_use'[k] = in_use[k] /\ handle'[owner[k]] = handle[owner[k]]
  <2>1. CASE UNCHANGED <<first, in_use, free, handle, left>>
    <3>1. Busy' = Busy  BY <2>1 DEF Busy
    <3>2. ASSUME NEW k \in Busy, owner[k] = h PROVE FALSE
      <4>1. handle[h] = k /\ Carries(k, h) /\ k \in Slots /\ k # None
        BY <1>1, <1>5, <3>2, Callers DEF Named
      <4>2. Recognised(h, k)  BY <4>1 DEF Recognised, Carries
      <4>3. in_use' = [in_use EXCEPT ![k] = FALSE]  BY <4>1, <4>2 DEF RemoveEffect
      <4>4. ~ in_use'[k]  BY <1>1, <4>1, <4>3, Callers
      <4> QED  BY <2>1, <4>1, <4>4 DEF Carries
    <3> QED  BY <2>1, <3>1, <3>2
  <2>2. ASSUME NEW n \in Busy, owner[n] = h, Busy' = Busy \ {n},
               in_use' = [in_use EXCEPT ![n] = FALSE], handle' = [handle EXCEPT ![h] = None]
        PROVE  \A k \in Busy' : /\ k \in Busy /\ owner[k] # h
                               /\ in_use'[k] = in_use[k] /\ handle'[owner[k]] = handle[owner[k]]
    <3> TAKE k \in Busy'
    <3>1. k \in Busy /\ k # n  BY <2>2
    <3>2. owner[k] # h /\ owner[k] \in Handles
      BY <1>1, <2>2, <3>1 DEF Names, OneTimerPerHandle, Named
    <3> QED  BY <1>1, <2>2, <3>1, <3>2, Callers
  <2> QED  BY <1>1, <2>1, <2>2, RemovedSlot
<1>7. \A u \in Threads : InHand(u) => u # t /\ in_use'[job[u].ix] = in_use[job[u].ix]
  <2> SUFFICES ASSUME NEW u \in Threads, InHand(u)
               PROVE  in_use'[job[u].ix] = in_use[job[u].ix]
    BY <1>2 DEF InHand
  <2>1. job[u].ix \in Slots /\ job[u].ix \notin Busy  BY <1>1 DEF Pool
  <2>2. in_use' = in_use \/ \E n \in Busy : in_use' = [in_use EXCEPT ![n] = FALSE]
    BY <1>1, RemovedSlot
  <2> QED  BY <1>1, <2>1, <2>2, Callers
<1>8. \A u \in Threads : InHand(u)' => InHand(u) /\ u # t  BY DEF InHand
<1>9. \A g \in Handles : ~ MainOnly(g) => handle'[g] = handle[g]
  <2>1. handle' = handle \/ handle' = [handle EXCEPT ![h] = None]
    BY <1>1, RemovedSlot
  <2> QED  BY <1>1, <1>2, <2>1, Callers
<1>10. Named'
  <2>1. \A k \in Busy' : owner'[k] \in Handles /\ Carries(k, owner[k])'
    BY <1>1, <1>6 DEF Named, Carries
  <2>2. \A u \in Threads : pc'[u] = "marked" => in_use'[job'[u].ix]
    BY <1>1, <1>7 DEF Named, InHand
  <2>3. \A u \in Threads : pc'[u] = "filled" => Carries(job[u].ix, job[u].h)'
    BY <1>1, <1>7 DEF Named, Carries, InHand
  <2> QED  BY <2>1, <2>2, <2>3 DEF Named, Carries
<1>11. OneTimerPerHandle'  BY <1>1, <1>6 DEF Names, OneTimerPerHandle
<1>12. Known'
  <2> SUFFICES ASSUME NEW k \in Busy'
               PROVE  handle'[owner[k]] = k \/ \E u \in Threads : Unassigned(u, owner[k], k)'
    BY DEF Known, Unassigned, Linked
  <2>1. k \in Busy /\ handle'[owner[k]] = handle[owner[k]]  BY <1>6
  <2>2. CASE handle[owner[k]] = k  BY <2>1, <2>2
  <2>3. ASSUME NEW u \in Threads, Unassigned(u, owner[k], k)
        PROVE  Unassigned(u, owner[k], k)'
    <3>1. u # t  BY <1>3, <2>3
    <3> QED  BY <2>3, <3>1 DEF Unassigned, Linked
  <2> QED  BY <1>1, <2>1, <2>2, <2>3 DEF Names, Known
<1>13. Adding'
  <2> SUFFICES ASSUME NEW k \in Busy', NEW u \in Threads, pc'[u] # Ready, job'[u].h = owner[k]
               PROVE  Unassigned(u, owner[k], k)'
    BY DEF Adding, Unassigned, Linked
  <2>1. k \in Busy /\ owner[k] # h  BY <1>6
  <2>2. u # t  BY <2>1
  <2>3. Unassigned(u, owner[k], k)  BY <1>1, <2>1, <2>2 DEF Names, Adding
  <2> QED  BY <2>2, <2>3 DEF Unassigned, Linked
<1>14. Rearmed'
  BY <1>1, <1>2, <1>4, <1>6, Callers DEF Names, Rearmed
<1>15. Pending'
  <2> SUFFICES ASSUME NEW g \in Handles, cb = g, fresh, ~ MainOnly(g)
               PROVE  handle'[g] # None \/ \E u \in Threads : Linked(u, g)'
    BY DEF Pending, MainOnly
  <2>1. CASE handle[g] # None  BY <1>9, <2>1
  <2>2. ASSUME NEW u \in Threads, Linked(u, g) PROVE Linked(u, g)'
    <3>1. u # t  BY <1>4, <2>2
    <3> QED  BY <2>2, <3>1 DEF Linked
  <2> QED  BY <1>1, <2>1, <2>2 DEF Names, Pending
<1>16. Apart'  BY <1>1, <1>8 DEF Names, Apart, MainOnly
<1>17. Restarts'  BY <1>1, <1>2 DEF Names, Restarts, MainOnly
<1> QED  BY <1>10, <1>11, <1>12, <1>13, <1>14, <1>15, <1>16, <1>17 DEF Names

\* The removal of a timer, alone or in a restart.
LEMMA RemoveNames ==
  ASSUME HInv, Discipline, NEW t \in Threads, NEW h \in Handles,
         TimerRemove(t, h) \/ TimerRestart(t, h)
  PROVE  Named' /\ Names'
<1>1. IInv  BY DEF HInv
<1>2. MayRemove(t, h) /\ RemoveEffect(h)  BY DEF TimerRemove, TimerRestart
<1>3. UNCHANGED <<name, owner, cb, fresh>>  BY DEF TimerRemove, TimerRestart, ticking
<1>4. pc[t] = Ready  BY <1>2 DEF MayRemove, MayCall
<1>5. CASE TimerRemove(t, h)
  <2>1. pc' = pc /\ job' = job  BY <1>5 DEF TimerRemove, calls
  <2> QED  BY <1>2, <1>3, <1>4, <2>1, RemovalNames
<1>6. CASE TimerRestart(t, h)
  <2> DEFINE j == [NoJob EXCEPT !.h = h]
  <2>1. pc' = [pc EXCEPT ![t] = "restart"] /\ job' = [job EXCEPT ![t] = j]
    BY <1>6 DEF TimerRestart
  <2>2. j.h = h  BY DEF NoJob
  <2> HIDE DEF j
  <2>3. /\ pc'[t] = "restart" /\ job'[t].h = h
        /\ \A u \in Threads : u # t => pc'[u] = pc[u] /\ job'[u] = job[u]
    BY <1>1, <2>1, <2>2, Callers
  <2> QED  BY <1>2, <1>3, <2>3, RemovalNames
<1> QED  BY <1>5, <1>6

\* A callback starts with its own timer gone from the list.
LEMMA TickFireNames ==
  ASSUME HInv, TickFire
  PROVE  Named' /\ Names'
<1> DEFINE n == Head(first)
           g == owner[n]
<1>1. /\ IInv /\ Pool /\ Named /\ Names
      /\ first # << >> /\ first' = Tail(first) /\ cb' = g /\ fresh'
      /\ in_use' = [in_use EXCEPT ![n] = FALSE]
      /\ UNCHANGED <<name, owner, handle, pc, job>>
  BY DEF HInv, IInv, TickFire, HeadExpired, calls
<1>2. n \in Slots /\ n \in Busy /\ Busy' = Busy \ {n}
  BY <1>1, PopSet DEF Pool, Busy
<1> HIDE DEF n
<1>3. g \in Handles  BY <1>1, <1>2 DEF Named
<1>4. \A k \in Slots : k # n => in_use'[k] = in_use[k]  BY <1>1, Callers
<1>5. \A k \in Busy' : k \in Busy /\ k \in Slots /\ k # n /\ owner[k] # g
  BY <1>1, <1>2, Callers DEF Names, OneTimerPerHandle
<1>6. \A u \in Threads : InHand(u) =>
        /\ job[u].ix \in Slots /\ job[u].ix # n /\ job[u].h # g
  <2> SUFFICES ASSUME NEW u \in Threads, InHand(u)
               PROVE  job[u].ix \in Slots /\ job[u].ix # n /\ job[u].h # g
    OBVIOUS
  <2>1. job[u].ix \in Slots /\ job[u].ix # n  BY <1>1, <1>2 DEF Pool
  <2>2. pc[u] # Ready /\ pc[u] # "linked"  BY DEF InHand
  <2>3. job[u].h # g  BY <1>1, <1>2, <2>2 DEF Names, Adding, Unassigned, Linked
  <2> QED  BY <2>1, <2>3
<1>7. Named'
  <2>1. \A k \in Busy' : owner[k] \in Handles /\ in_use'[k] /\ Carries(k, owner[k])
    BY <1>1, <1>4, <1>5 DEF Named, Carries
  <2>2. \A u \in Threads : pc[u] = "marked" => in_use'[job[u].ix]
    BY <1>1, <1>4, <1>6 DEF Named, InHand
  <2>3. \A u \in Threads : pc[u] = "filled" => in_use'[job[u].ix] /\ Carries(job[u].ix, job[u].h)
    BY <1>1, <1>4, <1>6 DEF Named, Carries, InHand
  <2> QED  BY <1>1, <2>1, <2>2, <2>3 DEF Named, Carries
<1>8. OneTimerPerHandle'  BY <1>1, <1>2 DEF Names, OneTimerPerHandle
<1>9. Known'  BY <1>1, <1>2 DEF Names, Known, Unassigned, Linked
<1>10. Adding'  BY <1>1, <1>2 DEF Names, Adding, Unassigned, Linked
<1>11. Rearmed'  BY <1>1, <1>5 DEF Rearmed, Linked
<1>12. Pending'
  <2>1. handle[g] # None \/ \E u \in Threads : Linked(u, g)
    <3>1. n # None  BY <1>1, <1>2, Callers
    <3> QED  BY <1>1, <1>2, <3>1 DEF Names, Known, Unassigned
  <2> QED  BY <1>1, <2>1 DEF Pending, Linked
<1>13. Apart'  BY <1>1, <1>6 DEF Apart, InHand
<1>14. Restarts'  BY <1>1 DEF Names, Restarts, MainOnly
<1> QED  BY <1>7, <1>8, <1>9, <1>10, <1>11, <1>12, <1>13, <1>14 DEF Names

\* The callback resets the handle of the timer that fired.
LEMMA CbResetNames ==
  ASSUME HInv, CbReset
  PROVE  Named' /\ Names'
<1>1. /\ IInv /\ Named /\ Names /\ fresh /\ pc[Main] = Ready
      /\ handle' = [handle EXCEPT ![cb] = None] /\ fresh' = FALSE
      /\ UNCHANGED <<first, in_use, name, owner, pc, job, cb>>
  BY DEF HInv, CbReset, fields, calls, lists
<1>2. Busy' = Busy  BY <1>1 DEF Busy
<1>3. \A k \in Busy : owner[k] \in Handles /\ owner[k] # cb
  BY <1>1 DEF Names, Rearmed, Linked, Named
<1>4. \A k \in Busy : handle'[owner[k]] = handle[owner[k]]  BY <1>1, <1>3, Callers
<1>5. Named'  BY <1>1, <1>2 DEF Named, Carries
<1>6. OneTimerPerHandle' /\ Adding' /\ Restarts'
  BY <1>1, <1>2 DEF Names, OneTimerPerHandle, Adding, Restarts, Unassigned, Linked, MainOnly
<1>7. Known'  BY <1>1, <1>2, <1>4 DEF Names, Known, Unassigned, Linked
<1>8. Rearmed' /\ Pending' /\ Apart'  BY <1>1 DEF Rearmed, Pending, Apart
<1> QED  BY <1>5, <1>6, <1>7, <1>8 DEF Names

\* At the start nothing is armed.
LEMMA NamesInit == ASSUME Init PROVE Named /\ Names
<1>1. Busy = {} /\ fresh = FALSE /\ \A t \in Threads : pc[t] = Ready
  BY DEF Init, Busy, ToSet
<1>2. Named  BY <1>1 DEF Named
<1>3. OneTimerPerHandle /\ Known /\ Adding /\ Rearmed
  BY <1>1 DEF OneTimerPerHandle, Known, Adding, Rearmed
<1>4. Pending /\ Apart /\ Restarts
  BY <1>1 DEF Pending, Apart, Restarts
<1> QED  BY <1>2, <1>3, <1>4 DEF Names

\* Every step of a caller, of the tick and of the clock.
LEMMA NamesStep ==
  ASSUME HInv, SingleAdder, Discipline, [Next]_vars
  PROVE  Named' /\ Names'
<1>1. ASSUME NEW t \in Threads, ClientStep(t) PROVE Named' /\ Names'
  <2>1. ASSUME NEW h \in Handles, NEW d \in Delays, AddTake(t, h, d) PROVE Named' /\ Names'
    BY <2>1, AddTakeNames
  <2>2. ASSUME NEW h \in Handles, AddFail(t, h) PROVE Named' /\ Names'
    BY <2>2, AddFailNames
  <2>3. ASSUME AddStep(t) PROVE Named' /\ Names'
    BY <2>3, AddFillNames, AddLinkNames, AddAssignNames DEF AddStep
  <2>4. ASSUME NEW h \in Handles, TimerRemove(t, h) \/ TimerRestart(t, h)
        PROVE  Named' /\ Names'
    BY <2>4, RemoveNames
  <2> QED  BY <1>1, <2>1, <2>2, <2>3, <2>4 DEF ClientStep
<1>2. ASSUME TickStart \/ TickEnd \/ CbEnd \/ Advance \/ UNCHANGED vars
      PROVE  Named' /\ Names'
  <2>1. /\ UNCHANGED <<first, in_use, name, owner, handle, pc, job>>
        /\ (cb' = cb /\ fresh' = fresh) \/ fresh' = FALSE
    BY <1>2 DEF TickStart, TickEnd, CbEnd, Advance, vars, lists, fields, calls, ticking,
                HInv, IInv, Shape, TypeOK
  <2> QED  BY <2>1, StillNamed
<1> QED  BY <1>1, <1>2, TickFireNames, CbResetNames DEF Next, TickStep

\* Who arms a timer knows its slot, in every state.
THEOREM NamesAlways ==
  ASSUME Discipline, SingleAdder
  PROVE  Spec => []HInv
<1>1. Init => HInv  BY InitInv, NamesInit DEF HInv
<1>2. HInv /\ [Next]_vars => HInv'
  <2> SUFFICES ASSUME HInv, [Next]_vars PROVE HInv'  OBVIOUS
  <2>1. IInv  BY DEF HInv
  <2>2. IInv'  BY <2>1, StepInv
  <2>3. Named' /\ Names'  BY NamesStep
  <2> QED  BY <2>2, <2>3 DEF HInv
<1> QED  BY <1>1, <1>2, PTL DEF Spec

\* A handle has at most one armed timer, and a handle of the main thread that
\* no call works on names it: for any pool, handles, threads and delays.
THEOREM HandlesAgree ==
  ASSUME Discipline, SingleAdder
  PROVE  Spec => []HandlesSound
<1>1. HInv => HandlesSound
  <2> SUFFICES ASSUME HInv PROVE HandlesSound  OBVIOUS
  <2>1. IInv /\ MainHandles /\ OneTimerPerHandle /\ Known  BY DEF HInv, IInv, Names
  <2>2. ASSUME NEW h \in Handles, MainOnly(h), ~ InProgress(h), NEW k \in Slots
        PROVE  handle[h] = k <=> (k \in Busy /\ owner[k] = h)
    <3>1. k # None  BY <2>1, Callers
    <3>2. ASSUME handle[h] = k PROVE k \in Busy /\ owner[k] = h
      BY <2>1, <2>2, <3>1, <3>2 DEF MainHandles, InProgress
    <3>3. ASSUME k \in Busy, owner[k] = h PROVE handle[h] = k
      <4>1. \A t \in Threads : ~ Unassigned(t, h, k)
        BY <2>2 DEF InProgress, Unassigned, Linked
      <4> QED  BY <2>1, <3>3, <4>1 DEF Known
    <3> QED  BY <3>2, <3>3
  <2>3. HandlesAccurate  BY <2>2 DEF HandlesAccurate, Accurate
  <2> QED  BY <2>1, <2>3 DEF HandlesSound
<1> QED  BY <1>1, NamesAlways, PTL

\* An armed timer leaves the list by its callback, or by a call on its handle.
LEMMA RemovedByOwner ==
  ASSUME HInv, Discipline, [Next]_vars, NEW k \in Busy, k \notin Busy', cb' = cb
  PROVE  handle[owner[k]] = k /\ handle'[owner[k]] = None
<1>1. IInv /\ Pool /\ Named  BY DEF HInv, IInv
<1>2. first' # first  BY DEF Busy
<1>3. ~ TickFire
  <2> SUFFICES ASSUME TickFire PROVE FALSE  OBVIOUS
  <2>1. first # << >> /\ cb' = owner[Head(first)] /\ cb = NoHandle
    BY DEF TickFire, HeadExpired
  <2>2. Head(first) \in Busy  BY <1>1, <2>1, PopSet DEF Pool, Busy
  <2>3. owner[Head(first)] \in Handles  BY <1>1, <2>2 DEF Named
  <2> QED  BY <1>1, <2>1, <2>3, Callers
<1>4. ASSUME NEW t \in Threads, AddLink(t) PROVE FALSE
  <2> DEFINE n == job[t].ix
  <2>1. pc[t] = "filled" /\ first' = InsertAt(first, Position(n), n)  BY <1>4 DEF AddLink
  <2>2. n \in Slots  BY <1>1, <2>1 DEF Pool, InHand
  <2> HIDE DEF n
  <2>3. Position(n) \in 1 .. Len(first) + 1  BY <1>1, <2>2, PositionInRange DEF Pool
  <2>4. Busy' = Busy \cup {n}  BY <1>1, <2>1, <2>2, <2>3, InsertAtSet DEF Pool, Busy
  <2> QED  BY <2>4
<1>5. PICK t \in Threads, h \in Handles : TimerRemove(t, h) \/ TimerRestart(t, h)
  <2>1. ASSUME NEW t \in Threads, ClientStep(t)
        PROVE  \E h \in Handles : TimerRemove(t, h) \/ TimerRestart(t, h)
    BY <1>2, <1>4, <2>1
    DEF ClientStep, AddStep, AddTake, AddFail, AddMark, AddFill, AddAssign, lists
  <2>2. ~ TickStart /\ ~ TickEnd /\ ~ CbReset /\ ~ CbEnd /\ ~ Advance /\ ~ UNCHANGED vars
    BY <1>2 DEF TickStart, TickEnd, CbReset, CbEnd, Advance, vars, lists
  <2> QED  BY <1>3, <2>1, <2>2 DEF Next, TickStep
<1>6. MayRemove(t, h) /\ RemoveEffect(h)  BY <1>5 DEF TimerRemove, TimerRestart
<1>7. PICK n \in Busy : /\ handle[h] = n /\ owner[n] = h /\ Busy' = Busy \ {n}
                        /\ handle' = [handle EXCEPT ![h] = None]
  BY <1>1, <1>2, <1>6, RemovedSlot
<1>8. n = k  BY <1>7
<1> QED  BY <1>1, <1>7, <1>8, Callers

\* A call on one handle never takes away the timer of another.
THEOREM OwnTimerRemoved ==
  ASSUME Discipline, SingleAdder
  PROVE  Spec => RemovesOwnTimer
<1>1. HInv /\ [Next]_vars =>
        [\A k \in Busy : k \notin Busy' /\ cb' = cb => handle[owner[k]] = k /\ handle'[owner[k]] = None]_vars
  BY RemovedByOwner
<1> QED  BY <1>1, NamesAlways, PTL DEF Spec, RemovesOwnTimer
=============================================================================
