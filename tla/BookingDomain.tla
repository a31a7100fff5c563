--------------------------- MODULE BookingDomain ---------------------------
(***************************************************************************)
(* The booking entity of internal/domain/booking.go: its statuses, the     *)
(* transitions its methods allow, and when two bookings of one staff       *)
(* member compete for the same time.  Pure definitions, shared by the      *)
(* abstract Calendar and the detailed Bookings.                            *)
(***************************************************************************)
EXTENDS Integers

CONSTANTS Staff,    \* staff members of the one tenant that is modelled
          Instant   \* instants bookings may start or end at, in half seconds

ASSUME InstantAssumption == Instant \subseteq Nat

Status == {"created", "confirmed", "completed", "cancelled", "no_show"}

\* What the properties tell apart of a booking row: customer, service,
\* cancel reason and timestamps are left out.
Booking == [staff: Staff, start: Instant, end: Instant, status: Status]

\* The four transition routes and the methods behind them: Confirm, Cancel,
\* Complete, MarkNoShow.
LifecycleOp == {"confirm", "cancel", "complete", "no_show"}

\* Mutant of From: Complete without its check for confirmed.
FromCompleteCreated ==
  [confirm |-> {"created"}, cancel |-> {"created", "confirmed"},
   complete |-> {"created", "confirmed"}, no_show |-> {"confirmed"}]

From == [confirm  |-> {"created"},
         cancel   |-> {"created", "confirmed"},
         complete |-> {"confirmed"},
         no_show  |-> {"confirmed"}]

\* Mutant of To: the route's name stored as the status.
ToRouteName == [op \in LifecycleOp |-> op]

To == [confirm  |-> "confirmed",
       cancel   |-> "cancelled",
       complete |-> "completed",
       no_show  |-> "no_show"]

\* A booking that was b may be c after a call of one of those methods.
LegalMove(b, c) ==
  \E op \in LifecycleOp : b.status \in From[op] /\ c = [b EXCEPT !.status = To[op]]

\* StatusReservesSlot: the booking blocks the calendar.
Reserves(status) == status \in {"created", "confirmed"}

\* intervalsOverlap, on half-open windows.
IntervalsOverlap(b, c) == b.start < c.end /\ c.start < b.end

\* Booking b stands in the way of c.
Blocks(b, c) ==
  b.staff = c.staff /\ Reserves(b.status) /\ IntervalsOverlap(b, c)
=============================================================================
