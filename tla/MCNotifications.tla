-------------------------- MODULE MCNotifications --------------------------
(***************************************************************************)
(* Small instances of Notifications for TLC.                               *)
(***************************************************************************)
EXTENDS Notifications, TLC

\* Dispatchers are only compared for equality.
DispatcherSymmetry == Permutations(Dispatcher)
=============================================================================
