------------------------------ MODULE Calendar ------------------------------
(***************************************************************************)
(* What the booking API promises (PLANNING.md, "Invariants: no             *)
(* double-booking same staff slice; allowed state transitions only"): a    *)
(* calendar on which taking a slot and moving a booking along its          *)
(* lifecycle are single atomic steps.  It promises this of the bookings    *)
(* that are not in dispute, and leaves open how they come to be: whoever   *)
(* implements the calendar says which ones are.                            *)
(***************************************************************************)
EXTENDS BookingDomain

CONSTANTS BookingId, Nil

VARIABLES
  book,      \* BookingId -> booking, or Nil when there is none
  disputed   \* <<b, d>>: b may be claimed in spite of d; <<b, b>>: b may be
             \* moved in spite of the status it has

vars == <<book, disputed>>

Init ==
  /\ book = [b \in BookingId |-> Nil]
  /\ disputed = {}

\* No other booking reserves any of the time of c, but those b disputes.
SlotFree(b, c) ==
  \A d \in BookingId \ {b} :
    book[d] # Nil /\ Blocks(book[d], c) => <<b, d>> \in disputed

Book(b, c) ==
  /\ book[b] = Nil
  /\ c.start < c.end
  /\ c.status = "created"
  /\ SlotFree(b, c)
  /\ book' = [book EXCEPT ![b] = c]
  /\ UNCHANGED disputed

Move(b, op) ==
  /\ book[b] # Nil
  /\ book[b].status \in From[op] \/ <<b, b>> \in disputed
  /\ op = "confirm" => SlotFree(b, book[b])
  /\ book' = [book EXCEPT ![b].status = To[op]]
  /\ UNCHANGED disputed

\* A dispute is never over.
Dispute ==
  /\ disputed \subseteq disputed'
  /\ disputed' \subseteq BookingId \X BookingId
  /\ UNCHANGED book

Next ==
  \/ Dispute
  \/ \E b \in BookingId :
       \/ \E c \in Booking : Book(b, c)
       \/ \E op \in LifecycleOp : Move(b, op)

Spec == Init /\ [][Next]_vars

TypeOK ==
  /\ book \in [BookingId -> Booking \cup {Nil}]
  /\ disputed \subseteq BookingId \X BookingId

(***************************************************************************)
(* No staff member is reserved twice at one time: two stored bookings that *)
(* still block the calendar never overlap, unless one of them disputes the *)
(* other.  This is what the overlap check in CreateBooking and             *)
(* ConfirmBooking (assertNoStaffOverlap) is for.                           *)
(***************************************************************************)
NoDoubleBooking ==
  \A b, d \in BookingId :
    b # d /\ book[b] # Nil /\ book[d] # Nil /\ Reserves(book[d].status)
    /\ Blocks(book[b], book[d])
      => <<b, d>> \in disputed \/ <<d, b>> \in disputed

(***************************************************************************)
(* A booking only moves along created -> confirmed -> completed | no_show, *)
(* or from created or confirmed to cancelled, unless it is disputed; it    *)
(* never disappears or changes its staff member or its window even then    *)
(* (the transition methods of internal/domain/booking.go).                 *)
(***************************************************************************)
LegalStep(b, c) == b = c \/ (b = Nil /\ c.status = "created") \/ LegalMove(b, c)

LegalTransitions ==
  [][\A b \in BookingId :
       \/ LegalStep(book[b], book'[b])
       \/ /\ <<b, b>> \in disputed
          /\ book'[b].status \in Status
          /\ book'[b] = [book[b] EXCEPT !.status = book'[b].status]]_vars
=============================================================================
