----------------------------- MODULE DeviceTree -----------------------------
(***************************************************************************)
(* The device tree of CMDEV (pf_cmdev.c): which modules and submodules are *)
(* plugged, which AR owns each submodule, what each AR expects, and the    *)
(* PLUGSM queue (pf_plugsm.c) by which an AR learns that a submodule has   *)
(* been released to it.                                                    *)
(*                                                                         *)
(* A slot, like a submodule, is an entry of a fixed table.  An entry that  *)
(* is given up keeps its contents until it is taken again, and the code    *)
(* looks at such entries when an AR goes away.  The tree has one API.      *)
(***************************************************************************)
EXTENDS Integers, Sequences

CONSTANTS
  MaxAr,       \* PNET_MAX_AR
  MaxSlots,    \* PNET_MAX_SLOTS: entries for slots
  MaxSubs,     \* PNET_MAX_SUBSLOTS: entries for the submodules of a slot
  SlotNbrs, SubNbrs,        \* slot and subslot numbers
  Modules, Submodules,      \* module and submodule ident numbers
  Expectations \* the ExpectedSubmodule blocks a controller may send

ASSUME TreeAssumption ==
  /\ MaxAr \in Nat \ {0} /\ MaxSlots \in Nat \ {0} /\ MaxSubs \in Nat \ {0}
  /\ SlotNbrs \subseteq Nat /\ SubNbrs \subseteq Nat

ArEntries     == 1 .. MaxAr
Entries == 1 .. MaxSlots
Places  == 1 .. MaxSubs
None    == 0                        \* no owner, no entry, no ident
ExpSub    == [nbr : SubNbrs, ident : Submodules]
ExpModule == [nbr : SlotNbrs, ident : Modules, subs : Seq(ExpSub)]
Plugsm    == {"IDLE", "WFPRMIND", "WFDATAUPDATE", "WFAPLRDYCNF"}

ASSUME ExpectationAssumption == Expectations \subseteq Seq(ExpModule)

VARIABLES
  tree,   \* real_ident: the slots and their submodules
  order,  \* cmrpc_ar_order: the ARs in the order of their Connects
  ars,    \* the ARs: in_use, exp_ident and plug_info
  conn    \* the Connect in progress: its AR, module, submodule and verdict

treeVars == <<tree, order, ars, conn>>

BlankSub  == [used |-> FALSE, nbr |-> 0, ident |-> None, owner |-> None]
BlankSlot == [used |-> FALSE, nbr |-> 0, ident |-> None,
              subs |-> [j \in Places |-> BlankSub]]
BlankAr   == [used |-> FALSE, exp |-> <<>>, plug |-> "IDLE", queue |-> <<>>]
NoConn    == [ar |-> None, mod |-> 0, sub |-> 0, ok |-> TRUE]

TreeTypeOK ==
  /\ tree \in [Entries -> [used : BOOLEAN, nbr : SlotNbrs \cup {0},
                            ident : Modules \cup {None},
                            subs : [Places ->
                              [used : BOOLEAN, nbr : SubNbrs \cup {0},
                               ident : Submodules \cup {None},
                               owner : ArEntries \cup {None}]]]]
  /\ order \in Seq(ArEntries)
  /\ ars \in [ArEntries -> [used : BOOLEAN, exp : Expectations \cup {<<>>},
                       plug : Plugsm, queue : Seq(SlotNbrs \X SubNbrs)]]
  /\ conn \in [ar : ArEntries \cup {None}, mod : Nat, sub : Nat, ok : BOOLEAN]

-----------------------------------------------------------------------------
(* Look-up.  A search returns the first entry in use, or None.             *)

First(n, P(_)) ==
  IF \E i \in 1 .. n : P(i)
  THEN CHOOSE i \in 1 .. n : P(i) /\ \A k \in 1 .. i - 1 : ~P(k)
  ELSE None

Slot(t, s) == First(MaxSlots, LAMBDA i : t[i].used /\ t[i].nbr = s)
Sub(slot, n) ==
  First(MaxSubs, LAMBDA j : slot.subs[j].used /\ slot.subs[j].nbr = n)
SubFull(t, s, n) ==
  IF Slot(t, s) = None THEN None ELSE Sub(t[Slot(t, s)], n)

ExpMod(a, s) ==
  First(Len(a.exp), LAMBDA m : a.exp[m].nbr = s)
ExpSubOf(a, s, n) ==
  IF ExpMod(a, s) = None THEN None
  ELSE LET subs == a.exp[ExpMod(a, s)].subs
       IN  First(Len(subs), LAMBDA k : subs[k].nbr = n)
Expects(a, s, n) == ExpSubOf(a, s, n) # None
ExpIdent(a, s, n) == a.exp[ExpMod(a, s)].subs[ExpSubOf(a, s, n)].ident

-----------------------------------------------------------------------------
(* Plug and pull.  Each operation returns the tree and its success.        *)

NewSlot(t, s, m) ==
  LET i == First(MaxSlots, LAMBDA k : ~t[k].used)
  IN  IF Slot(t, s) # None \/ i = None THEN t
      ELSE [t EXCEPT ![i] = [used |-> TRUE, nbr |-> s, ident |-> m,
                             subs |-> [j \in Places |-> BlankSub]]]

PlugModule(t, s, m) == IF Slot(t, s) # None THEN t ELSE NewSlot(t, s, m)

\* The first AR in the order of the Connects that expects the submodule.
FirstOwner(o, as, s, n) ==
  LET k == First(Len(o), LAMBDA i : Expects(as[o[i]], s, n))
  IN  IF k = None THEN None ELSE o[k]

NewSub(slot, n, ident, owner) ==
  LET j == First(MaxSubs, LAMBDA k : ~slot.subs[k].used)
  IN  IF Sub(slot, n) # None \/ j = None THEN slot
      ELSE [slot EXCEPT !.subs[j] =
              [used |-> TRUE, nbr |-> n, ident |-> ident, owner |-> owner]]

PlugSubmodule(t, o, as, s, n, m, ident) ==
  LET u == PlugModule(t, s, m)
      i == Slot(u, s)
  IN  IF i = None THEN u
      ELSE [u EXCEPT ![i] = NewSub(u[i], n, ident, FirstOwner(o, as, s, n))]

\* pull_submodule() reports success only when the owner's Pull alarm is sent.
PullSub(t, i, j) == [t EXCEPT ![i].subs[j].used = FALSE]

\* The submodules are pulled in their order up to the first that fails;
\* those in "sent" have an owner and their Pull alarm was taken.
PullModule(t, i, sent) ==
  LET bad == First(MaxSubs, LAMBDA j : t[i].subs[j].used /\ j \notin sent)
      cut == IF bad = None THEN MaxSubs ELSE bad
      subs == [j \in Places |-> [t[i].subs[j] EXCEPT !.used = @ /\ j > cut]]
  IN  [t EXCEPT ![i].subs = subs, ![i].used = (bad # None)]

-----------------------------------------------------------------------------
(* Connect.  The AR is entered, then the application is asked for every    *)
(* expected module and submodule that is missing, and every submodule that *)
(* is FREE is taken at once.  A Connect is one call of the main thread.    *)

NoneConnecting == conn.ar = None
Twice(seq, k) == \E i \in 1 .. k - 1 : seq[i].nbr = seq[k].nbr
Without(a) ==
  LET k == First(Len(order), LAMBDA i : order[i] = a)
  IN  IF k = None THEN order
      ELSE [i \in 1 .. Len(order) - 1 |-> IF i < k THEN order[i] ELSE order[i + 1]]

ConnectBegins(e) ==
  LET a == First(MaxAr, LAMBDA i : ~ars[i].used)
  IN  /\ NoneConnecting /\ a # None
      /\ ars' = [ars EXCEPT ![a] = [used |-> TRUE, exp |-> e, plug |-> "IDLE", queue |-> <<>>]]
      /\ order' = Append(order, a)
      /\ conn' = [ar |-> a, mod |-> 1, sub |-> 0, ok |-> TRUE]
      /\ UNCHANGED tree

\* pf_ar_release() without an ABORT: the device tree is not told.
Refused ==
  /\ ars' = [ars EXCEPT ![conn.ar] = BlankAr]
  /\ order' = Without(conn.ar)
  /\ conn' = NoConn

Exp    == ars[conn.ar].exp
TheMod == Exp[conn.mod]
Asked  == ~NoneConnecting /\ conn.mod <= Len(Exp)

\* "plug" is what the application plugs when it is asked, or None.
TakeModule(plug) ==
  LET t == IF Slot(tree, TheMod.nbr) # None \/ plug = None
           THEN tree ELSE PlugModule(tree, TheMod.nbr, plug)
  IN  /\ Asked /\ conn.sub = 0
      /\ tree' = t
      /\ IF Twice(Exp, conn.mod) \/ Slot(t, TheMod.nbr) = None \/ TheMod.subs = <<>>
         THEN Refused
         ELSE conn' = [conn EXCEPT !.sub = 1] /\ UNCHANGED <<order, ars>>

Takes(sub) == sub.owner = None   \* PF_OWNSM_STATE_FREE

\* "sound": the submodule passes the checks of its properties and descriptors.
TakeSubmodule(plug, sound) ==
  LET sub == TheMod.subs[conn.sub]
      t   == IF SubFull(tree, TheMod.nbr, sub.nbr) # None \/ plug = None THEN tree
             ELSE PlugSubmodule(tree, order, ars, TheMod.nbr, sub.nbr,
                                TheMod.ident, plug)
      i   == Slot(t, TheMod.nbr)
      j   == Sub(t[i], sub.nbr)
      ok  == conn.ok /\ ~Twice(TheMod.subs, conn.sub) /\ j # None /\ sound
      last == conn.sub = Len(TheMod.subs)
  IN  /\ Asked /\ conn.sub > 0
      /\ tree' = IF ok /\ Takes(t[i].subs[j])
                 THEN [t EXCEPT ![i].subs[j].owner = conn.ar] ELSE t
      /\ IF last /\ ~ok THEN Refused
         ELSE /\ conn' = IF last
                         THEN [conn EXCEPT !.mod = @ + 1, !.sub = 0]
                         ELSE [conn EXCEPT !.sub = @ + 1, !.ok = ok]
              /\ UNCHANGED <<order, ars>>

\* The checks of the IOCR layout and of the alarm CR, and the application.
Connected ==
  /\ ~NoneConnecting /\ ~Asked
  /\ conn' = NoConn
  /\ UNCHANGED <<tree, order, ars>>

RefuseConnect == ~NoneConnecting /\ ~Asked /\ Refused /\ UNCHANGED tree

-----------------------------------------------------------------------------
(* The application plugs and pulls.                                        *)

ApplPlugsModule(s, m) ==
  /\ NoneConnecting /\ tree' = PlugModule(tree, s, m) /\ UNCHANGED <<order, ars, conn>>

ApplPlugs(s, n, m, ident) ==
  /\ NoneConnecting
  /\ tree' = PlugSubmodule(tree, order, ars, s, n, m, ident)
  /\ UNCHANGED <<order, ars, conn>>

ApplPulls(i, j) ==
  /\ NoneConnecting /\ tree[i].used /\ tree[i].subs[j].used
  /\ tree' = PullSub(tree, i, j)
  /\ UNCHANGED <<order, ars, conn>>

ApplPullsModule(i, sent) ==
  /\ NoneConnecting /\ tree[i].used
  /\ sent \subseteq {j \in Places : tree[i].subs[j].owner # None}
  /\ tree' = PullModule(tree, i, sent)
  /\ UNCHANGED <<order, ars, conn>>

-----------------------------------------------------------------------------
(* An AR ends: pf_device_clear(), after the AR has left the order.  Each   *)
(* of its submodules goes to the first AR that expects it, for which, if   *)
(* it expects exactly what is there, a Released alarm is asked.            *)

\* Mutant: pf_device_clear() forgets the submodules of the AR.
ClearedNot(a, o) == tree

Cleared(a, o) ==
  [i \in Entries |->
    [tree[i] EXCEPT !.subs = [j \in Places |->
       LET sub == tree[i].subs[j] IN
       IF sub.owner # a THEN sub
       ELSE [sub EXCEPT !.owner = FirstOwner(o, ars, tree[i].nbr, sub.nbr)]]]]

\* AR b gets what AR a had at a place, and as b expects it.
AsExpected(ar, slot, sub) ==
  /\ ar.exp[ExpMod(ar, slot.nbr)].ident = slot.ident
  /\ ExpIdent(ar, slot.nbr, sub.nbr) = sub.ident
Inherits(a, b, o, i, j) ==
  LET sub == tree[i].subs[j]
  IN  /\ sub.owner = a /\ FirstOwner(o, ars, tree[i].nbr, sub.nbr) = b
      /\ AsExpected(ars[b], tree[i], sub)

\* The entries "places" of a slot, appended to a queue in their order.
Entered(queue, i, places) ==
  LET q[j \in 0 .. MaxSubs] ==
        IF j = 0 THEN queue
        ELSE IF j \in places THEN Append(q[j - 1], <<tree[i].nbr, tree[i].subs[j].nbr>>)
        ELSE q[j - 1]
  IN  q[MaxSubs]

\* What is announced to AR b: slot by slot, and in a slot place by place.
Announced(a, b, o) ==
  LET q[i \in 0 .. MaxSlots] ==
        IF i = 0 THEN <<>>
        ELSE Entered(q[i - 1], i, {j \in Places : Inherits(a, b, o, i, j)})
  IN  q[MaxSlots]

\* Mutant: a new entry of the queue is written over the first one.
QueuedOver(ar, new) ==
  IF new = <<>> THEN ar
  ELSE [ar EXCEPT !.queue = <<new[Len(new)]>>,
                  !.plug = IF ar.plug = "IDLE" THEN "WFPRMIND" ELSE ar.plug]

\* pf_plugsm_released_alarm_req() for each; a full queue refuses.
Queued(ar, new) ==
  LET q == ar.queue \o new
      n == MaxSlots * MaxSubs
  IN  [ar EXCEPT !.queue = SubSeq(q, 1, IF Len(q) > n THEN n ELSE Len(q)),
                 !.plug = IF ar.plug = "IDLE" /\ new # <<>> THEN "WFPRMIND"
                          ELSE ar.plug]

Abort(a) ==
  /\ NoneConnecting /\ ars[a].used
  /\ order' = Without(a)
  /\ tree' = Cleared(a, Without(a))
  /\ ars' = [b \in ArEntries |-> IF b = a THEN BlankAr
                           ELSE IF ~ars[b].used THEN ars[b]
                           ELSE Queued(ars[b], Announced(a, b, Without(a)))]
  /\ UNCHANGED conn

-----------------------------------------------------------------------------
(* PLUGSM: the controller sends PrmEnd, the application confirms, and the  *)
(* controller confirms the CControl of the application.                    *)

\* Mutant: PLUGSM goes idle with the rest of the queue.
Next1Idle(ar) == [ar EXCEPT !.queue = Tail(@), !.plug = "IDLE"]

Next1(ar) ==
  [ar EXCEPT !.queue = Tail(@),
             !.plug = IF Len(ar.queue) > 1 THEN "WFPRMIND" ELSE "IDLE"]

SetAr(a, ar) == ars' = [ars EXCEPT ![a] = ar] /\ UNCHANGED <<tree, order, conn>>

PrmEnd(a, accepted) ==
  /\ NoneConnecting /\ ars[a].plug = "WFPRMIND"
  /\ SetAr(a, IF accepted THEN [ars[a] EXCEPT !.plug = "WFDATAUPDATE"]
              ELSE Next1(ars[a]))

ReleasedCnf(a) ==
  /\ NoneConnecting /\ ars[a].plug = "WFDATAUPDATE"
  /\ SetAr(a, [ars[a] EXCEPT !.plug = "WFAPLRDYCNF"])

ReadyCnf(a) ==
  /\ NoneConnecting /\ ars[a].plug = "WFAPLRDYCNF"
  /\ SetAr(a, Next1(ars[a]))

-----------------------------------------------------------------------------
TreeInit ==
  /\ tree = [i \in Entries |-> BlankSlot]
  /\ order = <<>>
  /\ ars = [a \in ArEntries |-> BlankAr]
  /\ conn = NoConn

ConnectStep ==
  \/ \E e \in Expectations : ConnectBegins(e)
  \/ \E plug \in Modules \cup {None} : TakeModule(plug)
  \/ \E plug \in Submodules \cup {None}, sound \in BOOLEAN :
        TakeSubmodule(plug, sound)
  \/ Connected
  \/ RefuseConnect

TreeNext ==
  \/ ConnectStep
  \/ \E s \in SlotNbrs, m \in Modules : ApplPlugsModule(s, m)
  \/ \E s \in SlotNbrs, n \in SubNbrs, m \in Modules, ident \in Submodules :
        ApplPlugs(s, n, m, ident)
  \/ \E i \in Entries, j \in Places : ApplPulls(i, j)
  \/ \E i \in Entries, sent \in SUBSET Places : ApplPullsModule(i, sent)
  \/ \E a \in ArEntries :
       \/ Abort(a)
       \/ \E accepted \in BOOLEAN : PrmEnd(a, accepted)
       \/ ReleasedCnf(a)
       \/ ReadyCnf(a)

TreeSpec == TreeInit /\ [][TreeNext]_treeVars

-----------------------------------------------------------------------------
(* The difference between what an AR expects and what is plugged, sent to  *)
(* the controller in the ModuleDiffBlock.                                  *)

\* Mutant: the owner is not compared.
SubStateUnlocked(t, a, i, sub, diag) ==
  LET j == Sub(t[i], sub.nbr) IN
  IF j = None THEN "NO"
  ELSE IF t[i].subs[j].ident # sub.ident THEN "WRONG"
  ELSE IF j \in diag THEN "DIAG" ELSE "OK"

\* State of an expected submodule under a module of the right ident; "diag"
\* is the set of places whose diagnosis summary is not empty.
SubState(t, a, i, sub, diag) ==
  LET j == Sub(t[i], sub.nbr) IN
  IF j = None THEN "NO"
  ELSE IF t[i].subs[j].ident # sub.ident THEN "WRONG"
  ELSE IF t[i].subs[j].owner \notin {None, a} THEN "LOCKED"
  ELSE IF j \in diag THEN "DIAG" ELSE "OK"

ModuleState(t, mod) ==
  IF Slot(t, mod.nbr) = None THEN "NO_MODULE"
  ELSE IF t[Slot(t, mod.nbr)].ident # mod.ident THEN "SUBSTITUTE" ELSE "PROPER"

DiffSubs(t, a, mod, diag) ==
  CASE ModuleState(t, mod) = "NO_MODULE"  -> {}
    [] ModuleState(t, mod) = "SUBSTITUTE" -> 1 .. Len(mod.subs)
    [] ModuleState(t, mod) = "PROPER" ->
         {k \in 1 .. Len(mod.subs) :
            SubState(t, a, Slot(t, mod.nbr), mod.subs[k], diag) # "OK"}

\* The modules that are listed: a substitute module is not.
DiffModules(t, a, exp, diag) ==
  {m \in 1 .. Len(exp) :
     \/ ModuleState(t, exp[m]) = "NO_MODULE"
     \/ ModuleState(t, exp[m]) = "PROPER" /\ DiffSubs(t, a, exp[m], diag) # {}}
Reported(t, a, exp, m, k, diag) ==
  /\ m \in DiffModules(t, a, exp, diag)
  /\ ModuleState(t, exp[m]) = "NO_MODULE" \/ k \in DiffSubs(t, a, exp[m], diag)

\* The same for one released submodule, sent with its ApplicationReady.
SubReported(t, a, exp, m, k, diag) ==
  \/ ModuleState(t, exp[m]) = "NO_MODULE"
  \/ /\ ModuleState(t, exp[m]) = "PROPER"
     /\ SubState(t, a, Slot(t, exp[m].nbr), exp[m].subs[k], diag) # "OK"

-----------------------------------------------------------------------------
(* What must hold.                                                         *)

\* The places whose owner is not an AR, or an AR that does not expect them.
Astray(t, as) ==
  {p \in Entries \X Places :
     LET sub == t[p[1]].subs[p[2]] IN
     /\ sub.owner # None
     /\ ~(as[sub.owner].used /\ Expects(as[sub.owner], t[p[1]].nbr, sub.nbr))}

\* No submodule is left to an AR that is gone: whatever ends an AR, the
\* submodules go on or become free (pf_device_clear).  The one exception is
\* a Connect that is refused after it has taken submodules.
OwnersLive ==
  [][(~NoneConnecting /\ conn' = NoConn /\ ~ars'[conn.ar].used)
     \/ Astray(tree', ars') \subseteq Astray(tree, ars)]_treeVars

\* pf_types.h says of PF_OWNSM_STATE_IOC "Submodule is owned by an IO
\* controller": there is one for every submodule in that state.
OwnerIsConnected == Astray(tree, ars) = {}

\* A submodule that is plugged and that a connected AR expects is never
\* left free, whoever came, went, plugged or pulled before.
NoOrphan ==
  \A i \in Entries, j \in Places :
    LET sub == tree[i].subs[j] IN
    tree[i].used /\ sub.used /\
    (\E k \in 1 .. Len(order) : order[k] # conn.ar
                              /\ Expects(ars[order[k]], tree[i].nbr, sub.nbr))
    => sub.owner # None

\* A later Connect does not take a submodule away from a connected AR.
FirstServed ==
  [][\A i \in Entries, j \in Places :
       LET b == tree[i].subs[j].owner IN
       /\ b # None /\ tree[i].used /\ tree[i].subs[j].used
       /\ tree'[i].used /\ tree'[i].subs[j].used /\ ars[b].used
       /\ ars'[b].used
       => tree'[i].subs[j].owner = b]_treeVars

\* The AR that inherits a submodule it expects as it is, and what it is told.
NewOwner(i, j) == tree'[i].subs[j].owner
Bequeathed(i, j) ==
  LET sub == tree[i].subs[j] IN
  /\ sub.used /\ sub.owner # None /\ NewOwner(i, j) \notin {None, sub.owner}
  /\ AsExpected(ars'[NewOwner(i, j)], tree[i], sub)
Told(i, j) ==
  \E k \in 1 .. Len(ars'[NewOwner(i, j)].queue) :
    ars'[NewOwner(i, j)].queue[k] = <<tree[i].nbr, tree[i].subs[j].nbr>>
Full(ar) == Len(ar.queue) = MaxSlots * MaxSubs

\* An AR that inherits a submodule it expects as it is gets it announced by
\* a Released alarm, at once or when the alarms before it are done with.  The
\* queue has room for all the places there are; that entries are also made for
\* submodules that were pulled can fill it only when there are three ARs.
HandedOver ==
  [][\A i \in Entries, j \in Places :
       Bequeathed(i, j) => Told(i, j) \/ (MaxAr > 2 /\ Full(ars'[NewOwner(i, j)]))]_treeVars

\* The queue for Released alarms has an entry for every place of a submodule
\* (PF_AR_PLUG_MAX_QUEUE, pf_types.h:2098): it has always room.
AlwaysHandedOver ==
  [][\A i \in Entries, j \in Places : Bequeathed(i, j) => Told(i, j)]_treeVars

\* PLUGSM rests exactly when nothing is queued: no release waits for ever
\* behind a machine that is idle, and the machine never runs without one.
NoneForgotten ==
  \A a \in ArEntries : (ars[a].plug = "IDLE") <=> (ars[a].queue = <<>>)

\* What the controller is told: an expected submodule is reported exactly
\* when it can not be used by this AR as it is, at the Connect and at an
\* ApplicationReady.  (Nothing of a substitute module is reported.)
Fine(a, mod, sub, diag) ==
  /\ ModuleState(tree, mod) = "PROPER"
  /\ LET i == Slot(tree, mod.nbr)
         j == Sub(tree[i], sub.nbr)
     IN  /\ j # None /\ j \notin diag
         /\ tree[i].subs[j].ident = sub.ident /\ tree[i].subs[j].owner = a
DiffTruthful ==
  \A k \in 1 .. Len(order), diag \in SUBSET Places :
    LET a == order[k] IN
    a # conn.ar =>
      \A m \in 1 .. Len(ars[a].exp) :
        \A x \in 1 .. Len(ars[a].exp[m].subs) :
          LET mod  == ars[a].exp[m]
              fine == Fine(a, mod, mod.subs[x], diag)
          IN  ModuleState(tree, mod) # "SUBSTITUTE" =>
                /\ Reported(tree, a, ars[a].exp, m, x, diag) <=> ~fine
                /\ SubReported(tree, a, ars[a].exp, m, x, diag) <=> ~fine

\* Ownership goes with the ARs: nothing is left to an AR that is gone, and nothing
\* that a connected AR expects is left to nobody (pf_device_clear, pf_cmdev.c).
Owned == []NoOrphan /\ OwnersLive

\* Who was first keeps what he has, and who inherits it is told so (pf_plugsm.c).
Inherited == FirstServed /\ HandedOver
=============================================================================
