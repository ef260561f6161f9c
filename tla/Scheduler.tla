----------------------------- MODULE Scheduler -----------------------------
(***************************************************************************)
(* The timeout scheduler, p-net-public-v1.0.2/src/common/pf_scheduler.c.   *)
(*                                                                         *)
(* A pool of timeout slots is threaded on two lists: the busy list, kept   *)
(* in the order of the deadlines, and the free list, used as a stack.      *)
(* One mutex guards the lists, but pf_scheduler_add() releases it between  *)
(* taking a slot and linking it, and pf_scheduler_tick() releases it       *)
(* while a callback runs; the handle of the caller is written outside it.  *)
(* The lists are sequences of slots; a deadline is a clock value modulo    *)
(* ClockMod (2^32 microseconds in the code), compared by the sign of the   *)
(* difference.                                                             *)
(***************************************************************************)
EXTENDS Integers, Sequences, FiniteSets, SequencesExt

CONSTANTS
  NSlots,      \* PF_MAX_TIMEOUTS
  Handles,     \* the pf_scheduler_handle_t objects of the stack
  NameOf,      \* [Handles -> name]: the string given to init_handle
  Threads,     \* the threads that call the scheduler
  Main,        \* the one that runs pnet_handle_periodic()
  Adders,      \* [Handles -> SUBSET Threads]: who adds or restarts a handle
  Removers,    \* [Handles -> SUBSET Threads]: who removes or restarts it
  Delays,      \* sanitized delays, in clock units
  MaxDelay,    \* their maximum (PF_SCHEDULER_MAX_DELAY_US in the code)
  MaxLate,     \* the longest a thread or the periodic tick may be late
  ClockMod,    \* size of the clock's range
  NoHandle     \* no callback is running

Slots == 1 .. NSlots
None  == -1                    \* UINT32_MAX in handle->timer_index

ASSUME PoolAssumption == NSlots \in Nat \ {0}
ASSUME ThreadAssumption ==
  /\ Main \in Threads
  /\ NoHandle \notin Handles
  /\ Adders \in [Handles -> SUBSET Threads]
  /\ Removers \in [Handles -> SUBSET Threads]
\* Half of the clock's range holds every distance the code compares.
ASSUME ClockAssumption ==
  /\ MaxDelay \in Nat /\ MaxLate \in Nat /\ ClockMod \in Nat
  /\ Delays \subseteq 1 .. MaxDelay
  /\ ClockMod > 2 * (MaxDelay + MaxLate)

VARIABLES
  now,       \* os_get_current_time_us()
  first,     \* the busy list, from scheduler_timeout_first
  free,      \* the free list, from scheduler_timeout_free
  in_use,    \* per slot: scheduler_timeouts[ix].in_use
  name,      \* per slot: .name
  owner,     \* per slot: .cb and .arg, which identify the handle
  when,      \* per slot: .when
  handle,    \* per handle: timer_index, a slot or None
  pc,        \* per thread: progress inside pf_scheduler_add()
  job,       \* per thread: the handle, slot and deadline of that add
  lag,       \* None, or the age of tick()'s pf_current_time
  cb,        \* the handle whose callback tick() is running, or NoHandle
  fresh,     \* that callback has not yet updated its handle
  left       \* history: real time left to the deadline of an armed slot

lists   == <<first, free>>
fields  == <<in_use, name, owner, when>>
calls   == <<pc, job>>
ticking == <<lag, cb, fresh>>
vars    == <<now, lists, fields, handle, calls, ticking, left>>

Ready == "ready"
Steps == {"ready", "restart", "taken", "marked", "filled", "linked"}

InHand(t)  == pc[t] \in {"taken", "marked", "filled"}
Held       == {job[t].ix : t \in {u \in Threads : InHand(u)}}
Busy       == ToSet(first)
NoJob      == [h |-> NoHandle, ix |-> None, when |-> 0]

\* (int32_t)(a - b), for the range ClockMod
Diff(a, b) ==
  LET d == (a - b) % ClockMod IN IF 2 * d < ClockMod THEN d ELSE d - ClockMod

\* Mutant: the clock values compared as they are.
ExpiredRaw(t, w) == t >= w

\* Mutant: the difference stays unsigned.
ExpiredUnsigned(t, w) == (t - w) % ClockMod >= 0

Expired(t, w) == Diff(t, w) >= 0

\* timeouts[ix].when = now + delay
Deadline(d) == (now + d) % ClockMod

Init ==
  /\ now \in {0, ClockMod - 1}
  /\ first = << >>
  /\ free = [k \in Slots |-> k]
  /\ in_use = [k \in Slots |-> FALSE]
  /\ name = [k \in Slots |-> "<free>"]
  /\ owner = [k \in Slots |-> NoHandle]
  /\ when = [k \in Slots |-> 0]
  /\ handle = [h \in Handles |-> None]
  /\ pc = [t \in Threads |-> Ready]
  /\ job = [t \in Threads |-> NoJob]
  /\ lag = None /\ cb = NoHandle /\ fresh = FALSE
  /\ left = [k \in Slots |-> 0]

-----------------------------------------------------------------------------
(* The callers.  The main thread calls between two ticks or from inside a  *)
(* callback; the others at any time.                                       *)

MayCall(t) == pc[t] = Ready /\ (t = Main => (lag = None \/ cb # NoHandle))

InCallback(t) == t = Main /\ cb # NoHandle

\* A caller arms a timer that is not running, or the one that just fired
\* (pf_dcp.c:648, pf_cmio.c:150); a restart comes through TimerRestart.
MayAdd(t, h) ==
  \/ MayCall(t) /\ t \in Adders[h] /\ (handle[h] = None \/ (InCallback(t) /\ cb = h /\ fresh))
  \/ pc[t] = "restart" /\ job[t].h = h

\* pf_scheduler_add(), first critical section; now is read just before it
AddTake(t, h, d) ==
  /\ MayAdd(t, h)
  /\ free # << >>
  /\ LET k == Head(free) IN
     /\ job' = [job EXCEPT ![t] = [h |-> h, ix |-> k, when |-> Deadline(d)]]
     /\ left' = [left EXCEPT ![k] = d]
  /\ free' = Tail(free)
  /\ pc' = [pc EXCEPT ![t] = "taken"]
  /\ UNCHANGED <<now, first, fields, handle, ticking>>

\* A callback has done its duty to its own handle.
Served(t, h) == IF InCallback(t) /\ cb = h THEN FALSE ELSE fresh

\* pf_scheduler_add(), out of slots: the handle is reset and -1 returned
AddFail(t, h) ==
  /\ MayAdd(t, h)
  /\ free = << >>
  /\ handle' = [handle EXCEPT ![h] = None]
  /\ pc' = [pc EXCEPT ![t] = Ready]
  /\ job' = [job EXCEPT ![t] = NoJob]
  /\ fresh' = Served(t, h)
  /\ UNCHANGED <<now, lists, fields, lag, cb, left>>

\* The stores between the critical sections are not ordered by the mutex:
\* another thread can see in_use set beside the old name.
AddMark(t) ==
  /\ pc[t] = "taken"
  /\ in_use' = [in_use EXCEPT ![job[t].ix] = TRUE]
  /\ pc' = [pc EXCEPT ![t] = "marked"]
  /\ UNCHANGED <<now, lists, name, owner, when, handle, job, ticking, left>>

AddFill(t) ==
  /\ pc[t] = "marked"
  /\ LET j == job[t] IN
     /\ name' = [name EXCEPT ![j.ix] = NameOf[j.h]]
     /\ owner' = [owner EXCEPT ![j.ix] = j.h]
     /\ when' = [when EXCEPT ![j.ix] = j.when]
  /\ pc' = [pc EXCEPT ![t] = "filled"]
  /\ UNCHANGED <<now, lists, in_use, handle, job, ticking, left>>

\* Mutant: a raw comparison, which fails when the clock wraps.
PositionRaw(k) ==
  1 + Cardinality({i \in DOMAIN first : \A j \in 1 .. i : when[k] > when[first[j]]})

\* Where the second critical section links slot k: after the leading entries
\* with a strictly earlier deadline.
Position(k) ==
  1 + Cardinality({i \in DOMAIN first : \A j \in 1 .. i : Diff(when[k], when[first[j]]) > 0})

AddLink(t) ==
  /\ pc[t] = "filled"
  /\ first' = InsertAt(first, Position(job[t].ix), job[t].ix)
  /\ pc' = [pc EXCEPT ![t] = "linked"]
  /\ UNCHANGED <<now, free, fields, handle, job, ticking, left>>

\* After the unlock: handle->timer_index = ix_free + 1
AddAssign(t) ==
  /\ pc[t] = "linked"
  /\ handle' = [handle EXCEPT ![job[t].h] = job[t].ix]
  /\ pc' = [pc EXCEPT ![t] = Ready]
  /\ job' = [job EXCEPT ![t] = NoJob]
  /\ fresh' = Served(t, job[t].h)
  /\ UNCHANGED <<now, lists, fields, lag, cb, left>>

-----------------------------------------------------------------------------
(* Removal.  A slot is recognised by its name and its in_use flag only.    *)

\* Mutant: no slot is ever recognised.
RecognisedNever(h, k) == FALSE

Recognised(h, k) == name[k] = NameOf[h] /\ in_use[k]

PosIn(s, k) == CHOOSE i \in DOMAIN s : s[i] = k

\* Mutant: the slot stays on the busy list.
WithoutNothing(s, k) == s

Without(s, k) == IF k \in ToSet(s) THEN RemoveAt(s, PosIn(s, k)) ELSE s

\* pf_scheduler_remove(); an invalid or stale handle changes nothing, and
\* the handle of an already triggered timer keeps its value
RemoveEffect(h) ==
  LET k == handle[h] IN
  IF k # None /\ Recognised(h, k)
  THEN /\ first' = Without(first, k)
       /\ in_use' = [in_use EXCEPT ![k] = FALSE]
       /\ free' = <<k>> \o free
       /\ handle' = [handle EXCEPT ![h] = None]
       /\ left' = [left EXCEPT ![k] = 0]
  ELSE UNCHANGED <<first, in_use, free, handle, left>>

\* A callback serves its own handle before it removes anything with it.  The
\* one that does not, pf_cmio_timer_expired(), adds nothing of the name "cmio"
\* in between, so its stale handle finds no slot of that name to take.
MayRemove(t, h) ==
  /\ MayCall(t) /\ t \in Removers[h]
  /\ ~ (cb = h /\ fresh /\ t = Main)

\* pf_scheduler_remove_if_running(): no call when the handle says stopped
TimerRemove(t, h) ==
  /\ MayRemove(t, h)
  /\ handle[h] # None
  /\ RemoveEffect(h)
  /\ UNCHANGED <<now, name, owner, when, calls, ticking>>

\* pf_scheduler_restart(), not to be used in a callback (pf_scheduler.h)
TimerRestart(t, h) ==
  /\ MayRemove(t, h) /\ t \in Adders[h] /\ ~ InCallback(t)
  /\ RemoveEffect(h)
  /\ pc' = [pc EXCEPT ![t] = "restart"]
  /\ job' = [job EXCEPT ![t] = [NoJob EXCEPT !.h = h]]
  /\ UNCHANGED <<now, name, owner, when, ticking>>

-----------------------------------------------------------------------------
(* pf_scheduler_tick(), in the main thread.                                *)

TickNow == (now - lag) % ClockMod

TickStart ==
  /\ lag = None /\ pc[Main] = Ready
  /\ lag' = 0
  /\ UNCHANGED <<now, lists, fields, handle, calls, cb, fresh, left>>

HeadExpired == first # << >> /\ Expired(TickNow, when[Head(first)])

\* Unlink the head, free its slot, unlock, and enter the callback.
TickFire ==
  /\ lag # None /\ cb = NoHandle /\ pc[Main] = Ready
  /\ HeadExpired
  /\ LET k == Head(first) IN
     /\ in_use' = [in_use EXCEPT ![k] = FALSE]
     /\ free' = <<k>> \o free
     /\ cb' = owner[k]
     /\ left' = [left EXCEPT ![k] = 0]
  /\ first' = Tail(first)
  /\ fresh' = TRUE
  /\ UNCHANGED <<now, name, owner, when, handle, calls, lag>>

\* Mutant: the callback forgets its handle.
CbResetForgotten ==
  /\ cb # NoHandle /\ fresh /\ pc[Main] = Ready
  /\ fresh' = FALSE
  /\ UNCHANGED <<now, lists, fields, handle, calls, lag, cb, left>>

\* pf_scheduler_reset_handle() in the callback
CbReset ==
  /\ cb # NoHandle /\ fresh /\ pc[Main] = Ready
  /\ handle' = [handle EXCEPT ![cb] = None]
  /\ fresh' = FALSE
  /\ UNCHANGED <<now, lists, fields, calls, lag, cb, left>>

\* The callback returns, having reset its handle or added it again.
CbEnd ==
  /\ cb # NoHandle /\ ~ fresh /\ pc[Main] = Ready
  /\ cb' = NoHandle
  /\ UNCHANGED <<now, lists, fields, handle, calls, lag, fresh, left>>

TickEnd ==
  /\ lag # None /\ cb = NoHandle
  /\ ~ HeadExpired
  /\ lag' = None
  /\ UNCHANGED <<now, lists, fields, handle, calls, cb, fresh, left>>

\* Time passes.  No armed deadline is missed by more than MaxLate, and a
\* tick lasts no longer than that: the assumption under which comparing
\* clock values by their difference makes sense.
Advance ==
  /\ \A k \in Busy \cup Held : left[k] > - MaxLate
  /\ lag < MaxLate
  /\ now' = (now + 1) % ClockMod
  /\ left' = [k \in Slots |-> IF k \in Busy \cup Held THEN left[k] - 1 ELSE left[k]]
  /\ lag' = IF lag = None THEN None ELSE lag + 1
  /\ UNCHANGED <<lists, fields, handle, calls, cb, fresh>>

-----------------------------------------------------------------------------
AddStep(t) == AddMark(t) \/ AddFill(t) \/ AddLink(t) \/ AddAssign(t)

ClientStep(t) ==
  \/ \E h \in Handles, d \in Delays : AddTake(t, h, d)
  \/ \E h \in Handles : AddFail(t, h)
  \/ AddStep(t)
  \/ \E h \in Handles : TimerRemove(t, h)
  \/ \E h \in Handles : TimerRestart(t, h)

TickStep == TickStart \/ TickFire \/ CbReset \/ CbEnd \/ TickEnd

Next == (\E t \in Threads : ClientStep(t)) \/ TickStep \/ Advance

Spec == Init /\ [][Next]_vars

(***************************************************************************)
(* Fairness.  A call of pf_scheduler_add() contains no wait but the mutex, *)
(* the application calls pnet_handle_periodic() again and again, callbacks *)
(* return, and the clock runs.  Nothing is assumed of who calls what.      *)
(***************************************************************************)
Fairness ==
  /\ \A t \in Threads : WF_vars(AddStep(t))
  /\ \A t \in Threads, h \in Handles :
       WF_vars(pc[t] = "restart" /\ ((\E d \in Delays : AddTake(t, h, d)) \/ AddFail(t, h)))
  /\ SF_vars(TickStart) /\ WF_vars(TickFire) /\ WF_vars(TickEnd)
  /\ SF_vars(CbReset) /\ SF_vars(CbEnd)
  /\ SF_vars(Advance)

FairSpec == Spec /\ Fairness

-----------------------------------------------------------------------------
(* Properties.                                                             *)

\* Every variable keeps its type.
TypeOK ==
  /\ now \in 0 .. ClockMod - 1
  /\ first \in Seq(Slots) /\ free \in Seq(Slots)
  /\ in_use \in [Slots -> BOOLEAN]
  /\ DOMAIN name = Slots
  /\ owner \in [Slots -> Handles \cup {NoHandle}]
  /\ when \in [Slots -> Int]
  /\ handle \in [Handles -> Slots \cup {None}]
  /\ pc \in [Threads -> Steps]
  /\ job \in [Threads -> [h : Handles \cup {NoHandle}, ix : Slots \cup {None}, when : Int]]
  /\ lag \in Nat \cup {None} /\ cb \in Handles \cup {NoHandle} /\ fresh \in BOOLEAN
  /\ left \in [Slots -> Int]

NoRepeat(s) == \A i, j \in DOMAIN s : s[i] = s[j] => i = j

\* Every slot is on exactly one list, once, or in the hands of exactly one
\* thread that is adding it: no slot leaks and none is handed out twice,
\* although the mutex is dropped in the middle of pf_scheduler_add().
PoolPartition ==
  /\ NoRepeat(first) /\ NoRepeat(free)
  /\ Busy \cap ToSet(free) = {}
  /\ Held \cap (Busy \cup ToSet(free)) = {}
  /\ \A t, u \in Threads : InHand(t) /\ InHand(u) /\ job[t].ix = job[u].ix => t = u
  /\ Slots = Busy \cup ToSet(free) \cup Held

\* The busy list is in the order of the real deadlines, whatever the clock
\* value at which they were computed: the signed comparison is right across
\* the wrap of the microsecond clock.
BusyInOrder ==
  \A i, j \in DOMAIN first : i < j => left[first[i]] <= left[first[j]]

\* A callback runs only when its deadline has really passed, and before any
\* timer with a later deadline.
FiresWhenDue ==
  [][\A h \in Handles : cb = NoHandle /\ cb' = h =>
       LET k == Head(first) IN
       /\ owner[k] = h /\ left[k] <= 0
       /\ \A j \in Busy : left[k] <= left[j]]_vars

InProgress(h) ==
  \/ cb = h /\ fresh
  \/ \E t \in Threads : pc[t] # Ready /\ job[t].h = h

\* A handle that no call is working on says exactly whether its timer is
\* armed, and in which slot.
Accurate(h) ==
  ~ InProgress(h) => \A k \in Slots : handle[h] = k <=> (k \in Busy /\ owner[k] = h)

MainOnly(h) == Adders[h] \cup Removers[h] \subseteq {Main}

\* Handles that only the main thread touches are accurate, whatever the other
\* threads do with theirs.
HandlesAccurate == \A h \in Handles : MainOnly(h) => Accurate(h)

\* pf_scheduler_restart() "removes the already scheduled instance, if
\* existing": a handle never has two armed timers.
OneTimerPerHandle ==
  \A j, k \in Busy : owner[j] = owner[k] => j = k

\* A handle and the list of timers agree: no second timer, no wrong slot, where only
\* the main thread uses it (pf_scheduler.c, add, remove and tick).
HandlesSound == HandlesAccurate /\ OneTimerPerHandle

\* A call on one handle never takes away the armed timer of another: the
\* slot a stale handle names is recognised by a name that other handles share.
RemovesOwnTimer ==
  [][\A k \in Busy : k \notin Busy' /\ cb' = cb => handle[owner[k]] = k /\ handle'[owner[k]] = None]_vars

\* Every armed timer is called back or removed, and the tick that serves the
\* expired timers comes to an end even though callbacks arm new ones.
ArmedIsServed == \A k \in Slots : k \in Busy ~> k \notin Busy
TickTerminates == lag # None ~> lag = None
TimersServed == ArmedIsServed /\ TickTerminates
=============================================================================
