----------------------------- MODULE MCAccounts -----------------------------
(***************************************************************************)
(* Model checking Accounts.                                                *)
(***************************************************************************)
EXTENDS Accounts, TLC

\* The account of the prototype's viewer.
MCPrototype == [e \in Email |-> "viewer"]

Symmetry == Permutations(Session) \cup Permutations(Password)
=============================================================================
