---------------------------- MODULE MCCaseEvents ----------------------------
(***************************************************************************)
(* Model checking CaseEvents.                                              *)
(***************************************************************************)
EXTENDS CaseEvents, TLC

Symmetry == Permutations(Session) \cup Permutations(Case)
=============================================================================
