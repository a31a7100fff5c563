------------------------------- MODULE Slots -------------------------------
(***************************************************************************)
(* The slot algorithm (internal/schedule/slots.go) over integer time.      *)
(*                                                                         *)
(* An instant is a whole number of ticks of UTC, a local time a whole      *)
(* number of ticks on the wall clock of the business; a day has DayLen     *)
(* ticks and day 0 is a Sunday.  A time zone is one change of offset,      *)
(*   [before |-> offset, at |-> instant of the change, after |-> offset],  *)
(* which is all of a zone that a window of a few days can meet.            *)
(*                                                                         *)
(* Rules are a set: their order and copies do not reach the result, which  *)
(* sorts them by start and end before it merges them.                      *)
(***************************************************************************)
EXTENDS Integers, FiniteSetsExt, SequencesExt

CONSTANTS
  DayLen,  \* ticks of a day
  Nil      \* an absent staff or service id

ASSUME SlotsAssumption == DayLen \in Nat \ {0}

----------------------------------------------------------------------------
(* Go's time package, as far as the algorithm uses it.                     *)

Offset(z, u) == IF u < z.at THEN z.before ELSE z.after

\* Time.In
Local(z, u) == u + Offset(z, u)

LocalDay(z, u) == Local(z, u) \div DayLen

\* time.Date, and ParseInLocation: the offset is looked up as if the local
\* time were UTC, and once more if that answer is on the other side of the
\* change.  A local time that is skipped or repeated gets one of the two.
DateOf(z, l) ==
  LET guess == l - Offset(z, l)
  IN IF (l < z.at) <=> (guess < z.at) THEN guess ELSE l - Offset(z, guess)

----------------------------------------------------------------------------

Matches(rule, service, staff) ==
  /\ Nil \in {service, rule.service} \/ rule.service = service
  /\ Nil \in {staff, rule.staff} \/ rule.staff = staff

\* The instants the day loop visits: midnight of the first day, then the same
\* wall clock time of the next day, until after midnight of the last day.
Days(q) ==
  LET Midnight(u) == DateOf(q.zone, LocalDay(q.zone, u) * DayLen)
      last == (q.to - q.from) \div DayLen + 2
      visit[k \in 0..last] ==
        IF k = 0 THEN Midnight(q.from)
                 ELSE DateOf(q.zone, Local(q.zone, visit[k - 1]) + DayLen)
  IN {u \in {visit[k] : k \in 0..last} : u <= Midnight(q.to)}

\* A rule without staff opens the hours of the staff member that was asked for.
EffectiveStaff(rule, q) == IF rule.staff = Nil THEN q.staff ELSE rule.staff

\* The wall clock of a rule read as UTC.
SegmentInUTC(rule, day, q) ==
  [day   |-> day,
   staff |-> EffectiveStaff(rule, q),
   start |-> Max({day * DayLen + rule.start, q.from}),
   end   |-> Min({day * DayLen + rule.end, q.to})]

\* What a rule opens on a local day, cut to the window, with the bucket the
\* day and the staff member make.
Segment(rule, day, q) ==
  [day   |-> day,
   staff |-> EffectiveStaff(rule, q),
   start |-> Max({DateOf(q.zone, day * DayLen + rule.start), q.from}),
   end   |-> Min({DateOf(q.zone, day * DayLen + rule.end), q.to})]

\* A rule whose ends meet on this day (a change of offset can do that) opens
\* nothing, nor does one outside the window.
OpensIn(rule, day, q) ==
  LET opens  == DateOf(q.zone, day * DayLen + rule.start)
      closes == DateOf(q.zone, day * DayLen + rule.end)
  IN closes > opens /\ closes >= q.from /\ opens < q.to

\* A segment too short for a slot is dropped here, before the merge.
Segments(q) ==
  LET openings ==
        {<<rule, LocalDay(q.zone, u)>> :
           rule \in {r \in q.rules : Matches(r, q.service, q.staff)},
           u \in Days(q)}
      open == {o \in openings : /\ o[1].day = o[2] % 7
                                /\ OpensIn(o[1], o[2], q)}
  IN {s \in {Segment(o[1], o[2], q) : o \in open} : s.end - s.start >= q.dur}

----------------------------------------------------------------------------
(* mergeIntervals: sort, then extend the current interval or start a new   *)
(* one.                                                                    *)

Before(a, b) == a.start < b.start \/ (a.start = b.start /\ a.end < b.end)

\* An adjoining interval starts a new one.
AbsorbOverlapOnly(out, next) ==
  LET cur == Last(out)
  IN IF out # <<>> /\ next.start < cur.end
     THEN Front(out) \o <<[cur EXCEPT !.end = Max({cur.end, next.end})]>>
     ELSE Append(out, next)

\* The end of the next interval always wins, also when it lies inside.
AbsorbShrinking(out, next) ==
  LET cur == Last(out)
  IN IF out # <<>> /\ next.start <= cur.end
     THEN Front(out) \o <<[cur EXCEPT !.end = next.end]>>
     ELSE Append(out, next)

Absorb(out, next) ==
  LET cur == Last(out)
  IN IF out # <<>> /\ next.start <= cur.end
     THEN Front(out) \o <<[cur EXCEPT !.end = Max({cur.end, next.end})]>>
     ELSE Append(out, next)

\* Every interval is cut for itself.
MergeNothing(ivs) == ivs

\* The intervals one after the other, as sort.Slice leaves them.
InTurn(ivs) ==
  CHOOSE s \in [1..Cardinality(ivs) -> ivs] :
    \A j, k \in DOMAIN s : j < k => Before(s[j], s[k])

MergeIntervals(ivs) ==
  LET s == InTurn(ivs)
      out[k \in 0..Len(s)] == IF k = 0 THEN <<>> ELSE Absorb(out[k - 1], s[k])
  IN ToSet(out[Len(s)])

----------------------------------------------------------------------------

\* The slots of one merged interval, from its start; a rest too short for a
\* slot is left over.
Cut(iv, dur) ==
  {[staff |-> iv.staff,
    start |-> iv.start + k * dur,
    end   |-> iv.start + (k + 1) * dur]
     : k \in 0..((iv.end - iv.start) \div dur - 1)}

\* q: zone, rules, dur, from, to, service, staff.  The service id of a slot
\* is the one asked for, hence not kept.
BuildSlots(q) ==
  IF q.dur <= 0 \/ q.to <= q.from
  THEN {}
  ELSE LET segments == Segments(q)
           Bucket(s) == {t \in segments : t.day = s.day /\ t.staff = s.staff}
       IN UNION {Cut(iv, q.dur) :
                   iv \in UNION {MergeIntervals(Bucket(s)) : s \in segments}}

=============================================================================
