-------------------------------- MODULE Diag --------------------------------
(***************************************************************************)
(* Diagnosis, pf_diag.c, and what it changes in the provider: the problem  *)
(* indicator of the frames of the AR that owns the submodule.              *)
(*                                                                         *)
(* All items are in one array.  Those that are not used are linked from    *)
(* diag_items_free, those of a submodule from its diag_list.  Adding and   *)
(* updating happen under diag_mutex, so each is one step; removing has the *)
(* mutex only while it unlinks, and goes on in steps of its own.           *)
(***************************************************************************)
EXTENDS Ppm, Sequences

CONSTANTS
  Subs,      \* submodules
  NItems,    \* PNET_MAX_DIAG_ITEMS
  Keys,      \* channel, direction and error types of a diagnosis in standard format
  Usis,      \* manufacturer specific identifiers
  Callers,   \* threads that call: the application's, and the stack's for its ports
  MaxCalls   \* bound: calls in a behaviour

ASSUME DiagAssumption == NItems \in Nat \ {0} /\ MaxCalls \in Nat /\ Keys \cap Usis = {}

VARIABLES
  item,      \* diag_items[]
  free,      \* diag_items_free
  head,      \* per submodule: diag_list, as it is when the submodule is plugged
  summary,   \* per submodule: diag_summary
  owner,     \* per submodule: the AR that owns it, or NoAr
  call,      \* per caller: a removal in progress
  calls,
  known      \* history, per submodule: what the alarms told its controller

diagVars == <<item, free, head, summary, owner, call, calls, known>>
vars == <<ppmVars, diagVars>>

NoAr == "none"
Null == 0
Items == 1 .. NItems
Names == Keys \cup Usis
Severities == {"REQUIRED", "DEMANDED", "FAULT"}
NoItem == [name |-> Nobody, sev |-> "FAULT", next |-> Null]
NoCall == [at |-> "none", sub |-> Nobody, ix |-> Null, name |-> Nobody, ar |-> NoAr]
NoSummary == [fault |-> FALSE, required |-> FALSE, demanded |-> FALSE]
NothingKnown == [n \in Names |-> 0]

Init ==
  /\ PpmInit
  /\ item = [i \in Items |-> [NoItem EXCEPT !.next = IF i = NItems THEN Null ELSE i + 1]]
  /\ free = 1 /\ head = [s \in Subs |-> Null]
  /\ summary = [s \in Subs |-> NoSummary] /\ owner = [s \in Subs |-> NoAr]
  /\ call = [t \in Callers |-> NoCall] /\ calls = 0
  /\ known = [s \in Subs |-> NothingKnown]

-----------------------------------------------------------------------------
(* Lists.                                                                  *)

\* The items from one on, no further than there are items.
Chain(items, first) ==
  LET walk[n \in 0 .. NItems] ==
        IF n = 0 THEN (IF first = Null THEN << >> ELSE <<first>>)
        ELSE LET c == walk[n - 1]
             IN IF c = << >> \/ items[c[Len(c)]].next = Null THEN c
                ELSE Append(c, items[c[Len(c)]].next)
  IN walk[NItems]
In(items, first) == {Chain(items, first)[n] : n \in 1 .. Len(Chain(items, first))}

\* pf_diag_find_entry(): the first of that name is unlinked.
Found(s, name) ==
  LET c == Chain(item, head[s])
  IN {n \in 1 .. Len(c) : item[c[n]].name = name /\ \A m \in 1 .. n - 1 : item[c[m]].name # name}
Unlinked(s, n) ==
  LET c == Chain(item, head[s])
  IN IF n = 1 THEN [items |-> item, head |-> item[c[1]].next]
     ELSE [items |-> [item EXCEPT ![c[n - 1]].next = item[c[n]].next], head |-> head[s]]

\* pf_diag_update_submodule_state(): the summary of a list.  A diagnosis of
\* the manufacturer has no severity and counts as a fault.
IsFault(i) == i.name \in Usis \/ i.sev = "FAULT"
Summary(items, first) ==
  LET l == {items[i] : i \in In(items, first)}
      some(sev) == \E i \in l : i.name \in Keys /\ i.sev = sev
  IN [fault |-> \E i \in l : IsFault(i), required |-> some("REQUIRED"), demanded |-> some("DEMANDED")]

\* pf_diag_update_station_problem_indicator(): of this submodule's list only.
Problem(items, first) == \E i \in In(items, first) : IsFault(items[i])
Indicate(a, items, first) ==
  IF a = NoAr THEN ppm
  ELSE [ppm EXCEPT ![a] = IF ~@.created THEN @ ELSE WithProblem(@, Problem(items, first))]

\* What a controller knows after an alarm: one that appears, one that is
\* replaced by another of its name, one that disappears.
Appears(k, name) == [k EXCEPT ![name] = IF name \in Usis THEN 1 ELSE @ + 1]
\* Mutant: that an item was replaced is not told.
ReplacedUntold(k, name) == IF name \in Usis THEN [k EXCEPT ![name] = 1] ELSE k

Replaced(k, name) == IF name \in Usis THEN k ELSE [k EXCEPT ![name] = @ - 1]
Disappears(k, name) == [k EXCEPT ![name] = IF name \in Usis \/ @ = 0 THEN 0 ELSE @ - 1]

-----------------------------------------------------------------------------
(* The calls.                                                              *)

Idle(t) == call[t].at = "none" /\ calls < MaxCalls

\* The item of that name is put first, with its contents, and the controller
\* is told, also of the end of what was there before.
Put(s, ix, i, items, first, tell) ==
  LET put == [items EXCEPT ![ix] = [i EXCEPT !.next = first]]
  IN /\ item' = put /\ head' = [head EXCEPT ![s] = ix]
     /\ summary' = [summary EXCEPT ![s] = Summary(put, ix)]
     /\ known' = IF owner[s] = NoAr THEN known ELSE [known EXCEPT ![s] = tell]
     /\ ppm' = Indicate(owner[s], put, ix)
  
\* pf_diag_add()
AddNew(t, s, name, sev) ==
  /\ Idle(t) /\ Found(s, name) = {} /\ free # Null
  /\ Put(s, free, [NoItem EXCEPT !.name = name, !.sev = sev], item, head[s],
         Appears(known[s], name))
  /\ free' = item[free].next
Overwrite(t, s, name, sev) ==
  /\ Idle(t)
  /\ \E n \in Found(s, name) :
       LET u == Unlinked(s, n)  ix == Chain(item, head[s])[n]
       IN Put(s, ix, [item[ix] EXCEPT !.sev = sev], u.items, u.head,
              Replaced(Appears(known[s], name), name))
  /\ UNCHANGED free
AddRefused(t, s, name) ==
  /\ Idle(t) /\ Found(s, name) = {} /\ free = Null
  /\ UNCHANGED <<item, head, summary, known, ppm, free>>
\* pf_diag_update(): as overwriting, but the severity stays.
Update(t, s, name) ==
  /\ Idle(t)
  /\ \E n \in Found(s, name) :
       LET u == Unlinked(s, n)  ix == Chain(item, head[s])[n]
       IN Put(s, ix, item[ix], u.items, u.head, Replaced(Appears(known[s], name), name))
  /\ UNCHANGED free

Add(t, s, name, sev) ==
  /\ \/ AddNew(t, s, name, sev) \/ Overwrite(t, s, name, sev)
     \/ AddRefused(t, s, name) \/ Update(t, s, name)
  /\ calls' = calls + 1
  /\ UNCHANGED <<owner, call>>

\* pf_diag_remove(): the item is unlinked under the mutex.
Unlink(t, s, name) ==
  /\ Idle(t) /\ calls' = calls + 1
  /\ \E n \in Found(s, name) :
       LET u == Unlinked(s, n)
       IN /\ item' = u.items /\ head' = [head EXCEPT ![s] = u.head]
          /\ call' = [call EXCEPT ![t] = [at |-> "tell", sub |-> s, ix |-> Chain(item, head[s])[n],
                                          name |-> name, ar |-> NoAr]]
  /\ UNCHANGED <<free, summary, owner, known, ppm>>
\* Outside of it: that it disappears, or that it was the last of them.
Tell(t) ==
  LET s == call[t].sub
  IN /\ call[t].at = "tell"
     /\ known' = IF owner[s] = NoAr THEN known
                 ELSE [known EXCEPT ![s] = IF head[s] = Null THEN NothingKnown
                                           ELSE Disappears(@, call[t].name)]
     /\ summary' = [summary EXCEPT ![s] = Summary(item, head[s])]
     /\ call' = [call EXCEPT ![t].at = "link", ![t].ar = owner[s]]
     /\ UNCHANGED <<item, free, head, owner, calls, ppm>>
\* pf_cmdev_free_diag()
Link(t) ==
  /\ call[t].at = "link"
  /\ item' = [item EXCEPT ![call[t].ix] = [NoItem EXCEPT !.next = free]]
  /\ call' = [call EXCEPT ![t].at = "free"]
  /\ UNCHANGED <<free, head, summary, owner, calls, known, ppm>>
Free(t) ==
  /\ call[t].at = "free"
  /\ free' = call[t].ix
  /\ ppm' = Indicate(call[t].ar, item, head[call[t].sub])
  /\ call' = [call EXCEPT ![t] = NoCall]
  /\ UNCHANGED <<item, head, summary, owner, calls, known>>

DiagStep(t) ==
  /\ \/ \E s \in Subs, name \in Names :
          \/ \E sev \in Severities : (name \in Usis => sev = "FAULT") /\ Add(t, s, name, sev)
          \/ Unlink(t, s, name)
     \/ Tell(t) \/ Link(t) \/ Free(t)
  /\ UNCHANGED <<now, buffer, frame, writer, writes, instances, lock, refused>>

-----------------------------------------------------------------------------
(* The connections, and what they own.                                     *)

\* The controller reads the diagnosis of what it has got.
Content(s) == [n \in Names |-> Cardinality({i \in In(item, head[s]) : item[i].name = n})]
Connect(a) ==
  /\ Create(a)
  /\ \E S \in SUBSET {s \in Subs : owner[s] = NoAr} :
       /\ owner' = [s \in Subs |-> IF s \in S THEN a ELSE owner[s]]
       /\ known' = [s \in Subs |-> IF s \in S THEN Content(s) ELSE known[s]]
  /\ UNCHANGED <<item, free, head, summary, call, calls>>

Ended == {a \in Ars : ppm[a].created /\ ~ppm'[a].created}
Connections ==
  /\ \E a \in Ars : \/ Close(a) \/ Activate(a) \/ ActivateFails(a)
                    \/ Send(a) \/ SendRefused(a) \/ SendLast(a) \/ SetData(a)
     \/ \E n \in 1 .. MaxLate : Tick(n)
     \/ SetIops
     \/ \E bit \in {"PROVIDER"}, on \in BOOLEAN : SetStatus(bit, on)
  /\ owner' = [s \in Subs |-> IF owner[s] \in Ended THEN NoAr ELSE owner[s]]
  /\ UNCHANGED <<item, free, head, summary, call, calls, known>>

\* A submodule is pulled and plugged again: its list is forgotten.
Replug(s) ==
  /\ calls < MaxCalls /\ \A t \in Callers : call[t].at = "none"
  /\ head' = [head EXCEPT ![s] = Null]
  /\ summary' = [summary EXCEPT ![s] = NoSummary]
  /\ owner' = [owner EXCEPT ![s] = NoAr]
  /\ calls' = calls + 1
  /\ UNCHANGED <<ppmVars, item, free, call, known>>

Next ==
  \/ \E a \in Ars : Connect(a)
  \/ Connections
  \/ \E t \in Callers : DiagStep(t)
  \/ \E s \in Subs : Replug(s)

Spec == Init /\ [][Next]_vars

-----------------------------------------------------------------------------
(* Properties.                                                             *)

AllIdle == \A t \in Callers : call[t].at = "none"

\* An item is in one place at most: free, in the list of one submodule, or in
\* the hand of a caller that removes it, and no list runs in a circle ("Protect
\* the diag items", pf_types.h:2362).  A submodule's list has no name twice.
PoolSound ==
  LET held == {call[t].ix : t \in {u \in Callers : call[u].at \in {"tell", "link", "free"}}}
  IN /\ In(item, free) \cap held = {} 
     /\ \A s \in Subs : In(item, head[s]) \cap (In(item, free) \cup held) = {}
     /\ \A s, r \in Subs : s # r => In(item, head[s]) \cap In(item, head[r]) = {}
     /\ \A h \in {free} \cup {head[s] : s \in Subs} : Len(Chain(item, h)) = Cardinality(In(item, h))
     /\ \A s \in Subs : \A n \in Names : Content(s)[n] <= 1

\* What a submodule reports is what is there: its summary is that of its list,
\* and the alarms posted to its controller since it connected, with what it
\* read then, leave it with exactly the diagnoses of the list.
ReportsMatch ==
  AllIdle => \A s \in Subs :
    /\ summary[s] = Summary(item, head[s])
    /\ owner[s] # NoAr => known[s] = Content(s)

\* "0 => Problem detected, 1 => Normal operation" (pnet_api.h:480): what the
\* frames of an AR say of the diagnoses of the submodules it owns.
IndicatorTruthful ==
  AllIdle => \A a \in Ars : ppm[a].running =>
    ("NO_PROBLEM" \in ppm[a].status)
      = ~(\E s \in Subs : owner[s] = a /\ Problem(item, head[s]))

\* The pool, the lists, the summaries and the alarms of the diagnoses agree, although
\* an item is unlinked, reported and linked again in steps of their own (pf_diag.c).
DiagnosisSound == PoolSound /\ ReportsMatch
=============================================================================
