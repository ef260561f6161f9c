------------------------------ MODULE MCAlarm ------------------------------
(* Model-checking instances of Alarm.                                      *)
EXTENDS Alarm

Load(alarms, notes, noise, fails) ==
  [alarms |-> alarms, notes |-> notes, noise |-> noise, fails |-> fails]
Quiet == Load(0, 0, FALSE, FALSE)
On(high, low) == [p \in Prios |-> IF p = "high" THEN high ELSE low]

\* Long use of one priority, across the wrap of the numbers; both directions with
\* refused sends, and with foreign frames; both priorities.
MainLoads == {On(Load(5, 0, FALSE, FALSE), Quiet), On(Load(2, 1, FALSE, FALSE), Quiet),
              On(Load(2, 0, FALSE, TRUE), Quiet), On(Load(1, 1, FALSE, TRUE), Quiet),
              On(Load(1, 0, TRUE, TRUE), Quiet), On(Load(0, 1, TRUE, FALSE), Quiet),
              On(Load(1, 0, FALSE, FALSE), Load(1, 0, FALSE, FALSE))}
TimerLoads == {On(Load(2, 0, FALSE, FALSE), Quiet)}
BusyLoads  == {On(Load(1, 1, FALSE, FALSE), Quiet)}
=============================================================================
