----------------------------- MODULE MCTransfers -----------------------------
(***************************************************************************)
(* Model checking Transfers.                                               *)
(***************************************************************************)
EXTENDS Transfers, TLC

Symmetry == Permutations(Session) \cup Permutations(Transfer)
=============================================================================
