----------------------------- MODULE Scheduling -----------------------------
(***************************************************************************)
(* Availability (internal/app/scheduling/app.go, availability_repo.go,     *)
(* handlers_crm.go): the weekly rules of a business are replaced as one    *)
(* row, and a list of slots is computed from three rows, the business, its *)
(* rules and a service, read one after the other.  In between, the rules   *)
(* may be replaced and the other two patched (Catalog models those         *)
(* handlers; here they are single writes).                                 *)
(*                                                                         *)
(* One business and one service.  Requests for slots change nothing, so    *)
(* one of them stands for all.                                             *)
(***************************************************************************)
EXTENDS Slots

CONSTANTS
  Zone,         \* time zones, UTC among them
  Rule,         \* the rules a client may send, valid or not
  Duration,     \* service durations in ticks; 0 is the one not set
  Window,       \* <<from, to>> pairs a client may send
  Minutes,      \* slot_minutes a client may send, or Nil
  ServiceId,    \* service_id of a request: Nil, the service's, or another one
  StaffId,      \* staff_id of a request, or Nil
  TheService,
  DefaultSlot,  \* defaultSlotMinutes in ticks
  MaxRules,     \* bound: rules in one put
  MaxWrites     \* bound: puts and patches in a behaviour

\* The three are optional.
ASSUME OptionalAssumption ==
  Nil \in ServiceId /\ Nil \in StaffId /\ Nil \in Minutes

ASSUME TimeAssumption ==
  /\ Zone \subseteq [before : Int, at : Int, after : Int]
  /\ Window \subseteq Int \X Int
  /\ Duration \subseteq Int
  /\ (Minutes \ {Nil}) \cup {DefaultSlot} \subseteq Nat \ {0}

\* A put is a finite list of rules with times of day.
ASSUME RuleAssumption ==
  /\ \A r \in Rule : r.start \in 0..(DayLen - 1) /\ r.end \in 0..(DayLen - 1)
  /\ \A k \in 0..MaxRules : \A put \in kSubset(k, Rule) : IsFiniteSet(put)

ASSUME BoundAssumption == MaxWrites \in Nat

VARIABLES
  zone,     \* business row: its time zone
  rules,    \* AVAILABILITY#RULES row
  service,  \* service row: its duration; Nil once deleted
  writes,   \* changes of the three so far
  h,        \* the request's local state
  moments   \* history: the values the rows had while the request ran

vars == <<zone, rules, service, writes, h, moments>>

\* The read a request makes next, or how it ended.
PC == {"idle", "business", "rules", "service", "answered", "invalid", "missing"}

IdleHandler ==
  [pc |-> "idle", window |-> Nil, serviceId |-> Nil, staffId |-> Nil,
   minutes |-> Nil, zone |-> Nil, rules |-> {}, dur |-> Nil, slots |-> {}]

ValidRule(r) ==
  /\ r.day \in 0..6
  /\ r.end > r.start

Rows == [zone |-> zone, rules |-> rules, service |-> service]

Init ==
  /\ zone \in Zone
  /\ rules = {}
  /\ service \in Duration
  /\ writes = 0
  /\ h = IdleHandler
  /\ moments = {}

Running == h.pc \in {"business", "rules", "service"}

\* Bound on the changes; those after the answer are nobody's business.
MayWrite == writes < MaxWrites /\ (h.pc = "idle" \/ Running)

\* A request that runs meets the rows as this step leaves them.
Observe ==
  moments' = IF Running \/ h'.pc = "business" THEN moments \cup {Rows'}
                                              ELSE moments

----------------------------------------------------------------------------
(* The writes.                                                             *)

\* Rejected only when no rule is valid.
AcceptsAny(put) == put = {} \/ \E r \in put : ValidRule(r)

\* validateRule of each rule, then one put that replaces them all.
Accepts(put) == \A r \in put : ValidRule(r)

PutRules(put) ==
  /\ MayWrite
  /\ Accepts(put)
  /\ rules' = put
  /\ writes' = writes + 1
  /\ UNCHANGED <<zone, service, h>>

PatchBusiness(z) ==
  /\ MayWrite
  /\ zone' = z
  /\ writes' = writes + 1
  /\ UNCHANGED <<rules, service, h>>

\* PatchService, or DeleteService when d is Nil.
PatchService(d) ==
  /\ MayWrite
  /\ service # Nil
  /\ service' = d
  /\ writes' = writes + 1
  /\ UNCHANGED <<zone, rules, h>>

----------------------------------------------------------------------------
(* getAvailabilitySlots and ListSlots.                                     *)

Begin(w, serviceId, staffId, minutes) ==
  /\ h.pc = "idle"
  /\ h' = [IdleHandler EXCEPT
             !.pc = IF w[2] > w[1] THEN "business" ELSE "invalid",
             !.window = w, !.serviceId = serviceId, !.staffId = staffId,
             !.minutes = minutes]
  /\ UNCHANGED <<zone, rules, service, writes>>

ReadBusiness ==
  /\ h.pc = "business"
  /\ h' = [h EXCEPT !.pc = "rules", !.zone = zone]
  /\ UNCHANGED <<zone, rules, service, writes>>

\* The slot length: asked for, else the service's when set, else the default.
SlotLength(minutes, serviceId, d) ==
  IF minutes # Nil THEN minutes
  ELSE IF serviceId # Nil /\ d > 0 THEN d
  ELSE DefaultSlot

\* What BuildSlots gets from a request and from the rows it has read.
Query(z, rs, dur) ==
  [zone |-> z, rules |-> rs, dur |-> dur, from |-> h.window[1],
   to |-> h.window[2], service |-> h.serviceId, staff |-> h.staffId]

Answer(rs, d) ==
  LET dur == SlotLength(h.minutes, h.serviceId, d)
  IN h' = [h EXCEPT !.pc = "answered", !.rules = rs, !.dur = dur,
                    !.slots = BuildSlots(Query(h.zone, rs, dur))]

\* Not a consistent read: the replica may have none of the puts.
ReadRulesBehind ==
  /\ h.pc = "rules"
  /\ \E seen \in {rules, {}} :
       IF h.serviceId = Nil
       THEN Answer(seen, 0)
       ELSE h' = [h EXCEPT !.pc = "service", !.rules = seen]
  /\ UNCHANGED <<zone, rules, service, writes>>

\* Without a service id the rules are the last read.
ReadRules ==
  /\ h.pc = "rules"
  /\ IF h.serviceId = Nil
     THEN Answer(rules, 0)
     ELSE h' = [h EXCEPT !.pc = "service", !.rules = rules]
  /\ UNCHANGED <<zone, rules, service, writes>>

ReadService ==
  /\ h.pc = "service"
  /\ IF h.serviceId # TheService \/ service = Nil
     THEN h' = [h EXCEPT !.pc = "missing"]
     ELSE Answer(h.rules, service)
  /\ UNCHANGED <<zone, rules, service, writes>>

ListSlots ==
  \/ \E w \in Window, serviceId \in ServiceId, staffId \in StaffId,
        minutes \in Minutes : Begin(w, serviceId, staffId, minutes)
  \/ ReadBusiness
  \/ ReadRules
  \/ ReadService

Next ==
  /\ \/ \E k \in 0..MaxRules : \E put \in kSubset(k, Rule) : PutRules(put)
     \/ \E z \in Zone : PatchBusiness(z)
     \/ \E d \in Duration \cup {Nil} : PatchService(d)
     \/ ListSlots
  /\ Observe

Spec == Init /\ [][Next]_vars

----------------------------------------------------------------------------
(* The reference for BuildSlots, instant by instant.                       *)

Answered == h.pc = "answered"

\* What the answer was computed from.
Asked == Query(h.zone, h.rules, h.dur)

\* What the rules that are long enough hold open, day by day.
Opened(q, length) ==
  {s \in UNION {{Segment(r, day, q) :
                   r \in {x \in q.rules : /\ Matches(x, q.service, q.staff)
                                          /\ x.day = day % 7}}
                  : day \in LocalDay(q.zone, q.from)..LocalDay(q.zone, q.to)}
     : s.end - s.start >= length}

\* Slots follow one another from the first instant of an open stretch.
Reference(q, length) ==
  LET opened == Opened(q, length)
      Instants(d, f) == UNION {s.start..(s.end - 1) :
                          s \in {t \in opened : t.day = d /\ t.staff = f}}
      First(I) == {x \in I : x - 1 \notin I}
  IN UNION {LET open == Instants(s.day, s.staff)
            IN {[staff |-> s.staff, start |-> u, end |-> u + q.dur] :
                  u \in {v \in open :
                           \E x \in First(open) :
                             /\ x <= v /\ (v - x) % q.dur = 0
                             /\ x..(v + q.dur - 1) \subseteq open}}
              : s \in opened}

\* A wall clock time that the change of offset neither skips nor repeats.
Unambiguous(z, l) ==
  Cardinality({u \in {l - z.before, l - z.after} : Local(z, u) = l}) = 1

ClearRules(q) ==
  \A r \in q.rules, day \in LocalDay(q.zone, q.from)..LocalDay(q.zone, q.to) :
    /\ Unambiguous(q.zone, day * DayLen + r.start)
    /\ Unambiguous(q.zone, day * DayLen + r.end)

OpenOnTheWall(q, staff, u) ==
  \E r \in q.rules :
    LET l == Local(q.zone, u)
    IN /\ Matches(r, q.service, q.staff) /\ EffectiveStaff(r, q) = staff
       /\ (l \div DayLen) % 7 = r.day
       /\ r.start <= l % DayLen /\ l % DayLen < r.end

----------------------------------------------------------------------------
(* Properties.                                                             *)

\* Values have their types; the stored rules are valid ones.
TypeOK ==
  /\ zone \in Zone
  /\ rules \subseteq Rule /\ \A r \in rules : ValidRule(r)
  /\ service \in Duration \cup {Nil}
  /\ writes \in 0..MaxWrites
  /\ h.pc \in PC
  /\ h.window \in Window \cup {Nil} /\ h.serviceId \in ServiceId
  /\ h.staffId \in StaffId /\ h.minutes \in Minutes

\* The days, the clipping, the buckets and the merge of BuildSlots come to
\* what is said instant by instant: the slots tile every maximal stretch that
\* the rules long enough for a slot hold open, whatever the change of offset,
\* unless it skips a midnight.
SlotsMatchReference == Answered => h.slots = Reference(Asked, h.dur)

\* Read back on the wall clock of the business, no instant of a slot is
\* outside the window or the opening hours of its staff member, unless a rule
\* begins or ends at a time that the change of offset skips or repeats.
SlotsInOpenHours ==
  Answered /\ ClearRules(Asked) =>
    \A s \in h.slots : \A u \in s.start..(s.end - 1) :
      /\ h.window[1] <= u /\ u < h.window[2]
      /\ OpenOnTheWall(Asked, s.staff, u)

\* Two slots of one staff member never overlap, however the rules do, in a zone
\* whose change of offset skips no local midnight (KeepsMidnight).  Where it
\* does, a rule that begins in the skipped time reaches into the day before,
\* which merges its rules for itself, and slots do overlap: slots_overlap.cfg.
SlotsDisjoint ==
  \A s, t \in h.slots : s.staff = t.staff /\ s # t => s.end <= t.start \/ t.end <= s.start

\* A request does not read its three rows at one moment.  It still answers
\* for a moment at which it ran, unless at least two changes came in between.
TornNeedsTwoWrites ==
  Answered /\ Cardinality(moments) <= 2 =>
    \E now \in moments :
      h.slots = BuildSlots(Query(now.zone, now.rules,
                  SlotLength(h.minutes, h.serviceId, now.service)))

\* LOCAL_DEV.md: the list "merges overlapping windows per staff/day".  It does
\* not hold: a rule too short for a slot is dropped before the merge.
ShortRulesMerge == Answered => h.slots = Reference(Asked, 0)

=============================================================================
