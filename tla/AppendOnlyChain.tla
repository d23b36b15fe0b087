-------------------------- MODULE AppendOnlyChain --------------------------
(***************************************************************************)
(* What the audit ledger promises (docs/architecture.md: "Append-only,     *)
(* hash-chained audit log"): rows are only ever added, behind the rows     *)
(* already there, and each carries the hash of the row before it.          *)
(***************************************************************************)
EXTENDS Naturals

VARIABLE chain

ChainedAfter(r, p) == p.at < r.at /\ r.prev = p.hash

\* r hangs from the newest of the rows older than it.
InPlace(r, rows) ==
  \/ r.prev = 0 /\ \A q \in rows : r.at <= q.at
  \/ \E p \in rows : /\ ChainedAfter(r, p)
                     /\ \A q \in rows : q.at < r.at => q.at <= p.at

ChainInit == chain = {}

\* One or more rows are appended.
ChainAppend ==
  /\ chain \subseteq chain'
  /\ \A r \in chain' \ chain, q \in chain : q.at < r.at
  /\ \A r \in chain' : InPlace(r, chain')

ChainSpec == ChainInit /\ [][ChainAppend]_chain
=============================================================================
