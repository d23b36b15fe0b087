--------------------------- MODULE EvidenceVault ---------------------------
(***************************************************************************)
(* What the evidence store promises (docs/architecture.md: "Every document *)
(* version is stored immutably; originals are never overwritten"): the     *)
(* versions of a document are numbered one after the other, none is ever   *)
(* changed, and the bytes of each can be read for ever after.              *)
(***************************************************************************)
EXTENDS Naturals

VARIABLES
  evidence,   \* the versions: document, number, name of the bytes
  readable    \* the versions whose bytes can be read

vault == <<evidence, readable>>

NextNumber(v) ==
  /\ \A w \in evidence : w.doc = v.doc => w.num < v.num
  /\ v.num = 1 \/ \E w \in evidence : w.doc = v.doc /\ v.num = w.num + 1

VaultInit == evidence = {} /\ readable = {}

\* One version is filed, with its bytes.
File ==
  \E v \in evidence' :
    /\ evidence' = evidence \cup {v}
    /\ NextNumber(v)
    /\ \A w \in evidence : w.blob # v.blob
    /\ readable' = readable \cup {v}

VaultSpec == VaultInit /\ [][File]_vault
=============================================================================
