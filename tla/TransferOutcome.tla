-------------------------- MODULE TransferOutcome --------------------------
(***************************************************************************)
(* What a transfer promises (backend/app/transfers.py, docstring): it is   *)
(* decided once, and the recipient has access exactly when it is accepted. *)
(***************************************************************************)
CONSTANT Transfer

VARIABLES
  outcome,   \* "none" before the request, "pending" until the decision
  access     \* transfers whose recipient has been given access

OutcomeInit == outcome = [t \in Transfer |-> "none"] /\ access = {}

Becomes(t, from, to) ==
  /\ outcome[t] = from
  /\ outcome' = [outcome EXCEPT ![t] = to]

Decide(t) ==
  \/ Becomes(t, "none", "pending") /\ UNCHANGED access
  \/ Becomes(t, "pending", "accepted") /\ access' = access \cup {t}
  \/ Becomes(t, "pending", "rejected") /\ UNCHANGED access

OutcomeSpec == OutcomeInit /\ [][\E t \in Transfer : Decide(t)]_<<outcome, access>>
=============================================================================
