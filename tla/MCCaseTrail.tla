---------------------------- MODULE MCCaseTrail ----------------------------
(***************************************************************************)
(* Model checking CaseTrail.                                               *)
(***************************************************************************)
EXTENDS CaseTrail, TLC

Symmetry == Permutations(Session) \cup Permutations(Case)
=============================================================================
