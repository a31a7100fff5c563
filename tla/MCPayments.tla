----------------------------- MODULE MCPayments -----------------------------
(***************************************************************************)
(* Small instances of Payments for TLC.                                    *)
(***************************************************************************)
EXTENDS Payments, TLC

\* Keys are only compared for equality.
PayKeySymmetry == Permutations(PayKey)
=============================================================================
