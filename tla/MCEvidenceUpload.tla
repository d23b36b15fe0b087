-------------------------- MODULE MCEvidenceUpload --------------------------
(***************************************************************************)
(* Model checking EvidenceUpload.                                          *)
(***************************************************************************)
EXTENDS EvidenceUpload, TLC

Symmetry == Permutations(Session) \cup Permutations(Document) \cup Permutations(Role)
=============================================================================
