------------------------- MODULE MCBookingPayments -------------------------
(***************************************************************************)
(* Small instances of BookingPayments for TLC.                             *)
(***************************************************************************)
EXTENDS BookingPayments, TLC

\* Keys and staff members are only compared for equality.
ComposedSymmetry == Permutations(Key) \cup Permutations(PayKey) \cup Permutations(Staff)
=============================================================================
