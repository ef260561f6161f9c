--------------------------- MODULE AlarmService ---------------------------
(***************************************************************************)
(* What the alarm machines of one AR promise at their two ends, for every  *)
(* priority: alarms of the device reach the controller in order and once,  *)
(* the application is told of no confirmation that the controller has not  *)
(* given, and alarms of the controller reach the application in order and  *)
(* once and are answered only after that.  The end of the connection       *)
(* forgets everything (include/pnet_api.h, pnet_alarm_ind, pnet_alarm_cnf  *)
(* and pnet_alarm_ack_cnf).                                                *)
(***************************************************************************)
EXTENDS Naturals

CONSTANT Prios

VARIABLES
  posted,     \* per priority: alarms the application has posted
  delivered,  \* ... the controller has taken
  acked,      \* ... the controller has acknowledged
  confirmed,  \* ... the application was told so
  asked,      \* alarms the controller has sent
  indicated,  \* ... the application was told of
  answered    \* ... the controller has the answer to

counts == <<posted, delivered, acked, confirmed, asked, indicated, answered>>

Zero == [p \in Prios |-> 0]

Init == /\ posted = Zero /\ delivered = Zero /\ acked = Zero
        /\ confirmed = Zero /\ asked = Zero /\ indicated = Zero
        /\ answered = Zero

\* n catches up with bound by one.
Follows(n, bound, p) == n[p] < bound[p] /\ n' = [n EXCEPT ![p] = @ + 1]
Grows(n, p) == n' = [n EXCEPT ![p] = @ + 1]

Post(p)    == /\ Grows(posted, p)
              /\ UNCHANGED <<delivered, acked, confirmed, asked, indicated,
                             answered>>
Deliver(p) == /\ Follows(delivered, posted, p)
              /\ UNCHANGED <<posted, acked, confirmed, asked, indicated,
                             answered>>
Ack(p)     == /\ Follows(acked, delivered, p)
              /\ UNCHANGED <<posted, delivered, confirmed, asked, indicated,
                             answered>>
Confirm(p) == /\ Follows(confirmed, acked, p)
              /\ UNCHANGED <<posted, delivered, acked, asked, indicated,
                             answered>>
Ask(p)     == /\ Grows(asked, p)
              /\ UNCHANGED <<posted, delivered, acked, confirmed, indicated,
                             answered>>
Indicate(p) == /\ Follows(indicated, asked, p)
               /\ UNCHANGED <<posted, delivered, acked, confirmed, asked,
                              answered>>
Answer(p)  == /\ Follows(answered, indicated, p)
              /\ UNCHANGED <<posted, delivered, acked, confirmed, asked,
                             indicated>>

Forget == /\ posted' = Zero /\ delivered' = Zero /\ acked' = Zero
          /\ confirmed' = Zero /\ asked' = Zero /\ indicated' = Zero
          /\ answered' = Zero

Next == \/ Forget
        \/ \E p \in Prios : \/ Post(p) \/ Deliver(p) \/ Ack(p) \/ Confirm(p)
                            \/ Ask(p) \/ Indicate(p) \/ Answer(p)

Spec == Init /\ [][Next]_counts
=============================================================================
