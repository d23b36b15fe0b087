--------------------------- MODULE MCAuditLedger ---------------------------
(***************************************************************************)
(* Model checking AuditLedger: a few sessions, a bounded clock.            *)
(***************************************************************************)
EXTENDS AuditLedger, TLC

Symmetry == Permutations(Session) \cup Permutations(Body)
=============================================================================
