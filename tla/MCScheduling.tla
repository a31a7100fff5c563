---------------------------- MODULE MCScheduling ----------------------------
(***************************************************************************)
(* Small instances of Scheduling for TLC.  A day has eight ticks, numbered *)
(* from 0.  The window cuts into days 1 and 2; the offset changes on day   *)
(* 1: the West skips tick 2, the East has tick 5 twice.                    *)
(***************************************************************************)
EXTENDS Scheduling

CONSTANTS s1, s2, a, b

UTC  == [before |-> 0, at |-> 0, after |-> 0]
West == [before |-> -2, at |-> 12, after |-> -1]
East == [before |-> 2, at |-> 12, after |-> 1]

Zones == {UTC, West, East}

\* The last tick of day 0 is followed by tick 1 of day 1.
NoMidnight == {[before |-> -2, at |-> 10, after |-> -1]}

\* Midnight of day 1 and the tick after it are skipped.
SkipsMidnight == {[before |-> -3, at |-> 11, after |-> -1]}

RuleOf(staff, svc, day, start, end) ==
  [staff |-> staff, service |-> svc, day |-> day, start |-> start, end |-> end]

Rules ==
  {RuleOf(Nil, Nil, 1, 1, 4),   \* and what adjoins it,
   RuleOf(Nil, Nil, 1, 4, 7),
   RuleOf(a, Nil, 1, 1, 7),     \* holds both,
   RuleOf(a, s1, 1, 4, 6),      \* lies inside,
   RuleOf(Nil, s2, 1, 3, 7),    \* is for another service,
   RuleOf(a, Nil, 1, 2, 4),     \* begins at the skipped tick,
   RuleOf(b, Nil, 2, 0, 3),
   RuleOf(a, Nil, 2, 3, 3),     \* not valid
   RuleOf(a, Nil, 7, 1, 2)}     \* not valid

\* Open from tick 1 of day 0 to its last, and again from midnight.
NightRules == {RuleOf(a, Nil, 0, 1, 7), RuleOf(a, Nil, 1, 0, 4)}

NightWindows == {<<4, 18>>}
Windows == {<<9, 18>>, <<12, 12>>}
LateWindows == {<<8, 24>>}
Asks == {Nil, s1}
Staff == {Nil, a}
SlotMinutes == {Nil, 1}
Durations == {0, 3}
=============================================================================
