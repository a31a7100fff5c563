-------------------------- MODULE MCBookingHistory --------------------------
(***************************************************************************)
(* Small instances of BookingHistory for TLC.                              *)
(***************************************************************************)
EXTENDS BookingHistory, TLC

\* Keys and staff members are only compared for equality.
KeySymmetry == Permutations(Key) \cup Permutations(Staff)

\* A constraint on the states TLC goes on from.  Neither the reminders nor what
\* a client is told of a call that took effect matter to the calendar, and a
\* request that fails or is refused writes nothing: it is as good as one that
\* never came.
OneOutcome ==
  /\ \A r \in Request : h[r].reply \notin {"lost", "error", "conflict", "not_found"}
  /\ \A b \in BookingId : reminders[b] = 0

\* Another one: two creates with keys of their own, then a confirm for each,
\* then cancels.  They arrive in this order, and from there on their calls
\* interleave in every way.
Cast ==
  /\ \A r \in Request :
       h[r].pc # "idle" =>
         /\ h[r].op = IF r <= 2 THEN "create" ELSE IF r <= 4 THEN "confirm" ELSE "cancel"
         /\ h[r].op # "create" => h[r].id = IF r % 2 = 1 THEN 1 ELSE 2
  /\ \A q, r \in Request : h[q].key = h[r].key /\ h[q].key # Nil => q = r
=============================================================================
