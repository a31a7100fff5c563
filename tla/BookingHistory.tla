--------------------------- MODULE BookingHistory ---------------------------
(***************************************************************************)
(* Bookings with a memory: history variables that record, as the requests  *)
(* of Bookings run, what the overlap check and the unconditional save of   *)
(* internal/app/bookings/app.go have no way to know.  They change nothing  *)
(* the service does; with them one can say which double bookings and which *)
(* illegal transitions are possible, and that there are no others.         *)
(***************************************************************************)
EXTENDS Bookings

VARIABLES
  met,         \* request -> requests that had yet to write while it had, too
  overlooked,  \* request -> stored bookings its overlap check could not see
  revived      \* bookings a save brought back after they had ended

histories == <<met, overlooked, revived>>

hvars == <<vars, histories>>

HInit ==
  /\ Init
  /\ met        = [r \in Request |-> {}]
  /\ overlooked = [r \in Request |-> {}]
  /\ revived    = {}

-----------------------------------------------------------------------------
(* What is recorded *)

\* The query that reads a page for r cannot show it booking d: the index item
\* is missing or its status is old, its sort key lies beyond the window's end,
\* or it comes after the last page the check reads.
Hidden(r, d) ==
  \/ gsi1[d] = Nil \/ ~Blocks(gsi1[d], h[r].copy)
  \/ TextOrder(gsi1[d].start) > TextOrder(h[r].copy.end)
  \/ LastPage(r) /\ d \in Rest(r) \ Page(r)

\* The stored bookings in the way of r that the page it reads now, or a later
\* one, does not show.
Missed(r) ==
  {d \in BookingId \ {h[r].id} :
     bookings[d] # Nil /\ Blocks(bookings[d], h[r].copy) /\ Hidden(r, d)}

Ended(b) == bookings[b] # Nil /\ ~Reserves(bookings[b].status)

\* The requests that have arrived and may still write a booking.
Undecided ==
  {r \in Request : h[r].pc \in {"load", "page", "lookup", "write", "gate", "save"}}

\* Every step that takes r out of "page" or on to the next one reads a page.
Record ==
  /\ met' = [r \in Request |->
       met[r] \cup {q \in Undecided' : r \in Undecided' /\ q # r}]
  /\ overlooked' = [r \in Request |->
       overlooked[r] \cup IF h[r].pc = "page" /\ h'[r] # h[r] THEN Missed(r) ELSE {}]
  /\ revived' = revived \cup {b \in BookingId : Ended(b) /\ ~Ended(b)'}

HNext == Next /\ Record

HSpec == HInit /\ [][HNext]_hvars

-----------------------------------------------------------------------------
(* Properties *)

(***************************************************************************)
(* Two overlapping bookings of a staff member are both confirmed only if   *)
(* one of them had ended and was brought back by a stale save, or if a     *)
(* confirm that went through could not see the other one in the index.  A  *)
(* race alone is not enough, however creates and confirms read and save:   *)
(* ConfirmBooking checks again after its own booking became visible to     *)
(* everyone else.                                                          *)
(***************************************************************************)
ConfirmOverlooked(b, d) ==
  \E r \in Request :
    /\ h[r].op = "confirm" /\ h[r].id = b /\ h[r].reply \in {"ok", "lost"}
    /\ d \in overlooked[r]

BothConfirmed(b, d) ==
  /\ bookings[b] # Nil /\ bookings[b].status = "confirmed"
  /\ bookings[d] # Nil /\ bookings[d].status = "confirmed"

NoDoubleConfirmed ==
  \A b, d \in BookingId :
    b # d /\ BothConfirmed(b, d) /\ Blocks(bookings[b], bookings[d])
      => b \in revived \/ d \in revived \/ ConfirmOverlooked(b, d) \/ ConfirmOverlooked(d, b)

-----------------------------------------------------------------------------
(* What the service promises, and how its state maps to it. *)

\* The requests that have a booking reserve its slot, and those that move one
\* along; a create claims a booking of its own, even if it ends as a replay.
Claimants == {r \in Request : h[r].op \in {"create", "confirm"}}

Movers == {r \in Request : h[r].op \in LifecycleOp}

Claimed(r) == IF h[r].op = "create" THEN r ELSE h[r].id

\* The bookings that a claimant of another one met a claimant of, or that its
\* overlap check could not see; and those that two movers met over.
Rivals(r) ==
  ({Claimed(q) : q \in met[r] \cap Claimants} \cup overlooked[r]) \ {Claimed(r)}

MovedTwice == {r \in Movers : \E q \in met[r] \cap Movers : h[q].id = h[r].id}

Disputed ==
  (UNION {{Claimed(r)} \X Rivals(r) : r \in Claimants})
    \cup {<<h[r].id, h[r].id>> : r \in MovedTwice}

Promise == INSTANCE Calendar WITH book <- bookings, disputed <- Disputed

(***************************************************************************)
(* The handlers implement the calendar of atomic steps, whatever races,    *)
(* fails and trails: a slot is taken, and a booking moved, as in a single  *)
(* step, except where two requests over it were between their reads and    *)
(* their writes together, or the overlap check could not see a booking.    *)
(***************************************************************************)
ImplementsCalendar == Promise!Spec

(***************************************************************************)
(* Hence no staff member is reserved twice at one time without a dispute,  *)
(***************************************************************************)
OverlapsAreDisputed == Promise!NoDoubleBooking

(***************************************************************************)
(* and no booking leaves its lifecycle without one (domain/booking.go).    *)
(***************************************************************************)
IllegalMovesAreDisputed == Promise!LegalTransitions
=============================================================================
