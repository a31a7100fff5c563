----------------------------- MODULE MCBookings -----------------------------
(***************************************************************************)
(* Small instances of Bookings for TLC.                                    *)
(***************************************************************************)
EXTENDS Bookings, TLC

\* Keys and staff members are only compared for equality.
KeySymmetry == Permutations(Key) \cup Permutations(Staff)
=============================================================================
