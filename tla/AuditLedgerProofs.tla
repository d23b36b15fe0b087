------------------------- MODULE AuditLedgerProofs -------------------------
(***************************************************************************)
(* Theorems about AuditLedger, for any set of sessions, any provider and   *)
(* any bound on the clock.                                                 *)
(***************************************************************************)
EXTENDS AuditLedger, TLAPS

\* The fields of rows and drafts are numbers.
LEMMA FieldTypes ==
  ASSUME TypeOK
  PROVE  /\ clock \in Nat
         /\ \A r \in ledger :
              r.hash \in Nat /\ r.prev \in Nat /\ r.at \in Nat /\ r.done \in Nat
         /\ \A s \in Session : \A r \in pending[s] :
              r.hash \in Nat /\ r.prev \in Nat /\ r.at \in Nat
         /\ \A s \in Session : draft[s].hash \in Nat /\ draft[s].prev \in Nat
  BY DEF TypeOK, CommittedRow, Row, Draft

\* No step breaks the types.
LEMMA TypeStep == TypeOK /\ [Next]_vars => TypeOK'
<1> SUFFICES ASSUME TypeOK, [Next]_vars PROVE TypeOK'
  OBVIOUS
<1> USE DEF TypeOK, NoDraft, Draft, Row, CommittedRow, Genesis
<1>1. ASSUME NEW s \in Session, Seal(s) PROVE TypeOK'
  BY <1>1 DEF Seal
<1>2. ASSUME NEW s \in Session, NEW b \in Body, Record(s, b) PROVE TypeOK'
  <2>1. FlushedRow(s, b, clock + 1) \in Row
    BY <1>2 DEF FlushedRow
  <2>2. pending' \in [Session -> SUBSET Row]
    BY <1>2, <2>1 DEF Record
  <2>3. gateway' \subseteq Nat
    BY <1>2 DEF Record
  <2> QED
    BY <1>2, <2>2, <2>3 DEF Record
<1>3. ASSUME NEW s \in Session, SubmitFails(s) PROVE TypeOK'
  BY <1>3 DEF SubmitFails, Discard
<1>4. ASSUME NEW s \in Session, Commit(s) PROVE TypeOK'
  <2>1. \A r \in pending[s] : Durable(r, clock + 1) \in CommittedRow
    BY <1>4 DEF Durable
  <2> QED
    BY <1>4, <2>1 DEF Commit
<1>5. ASSUME NEW s \in Session, Abort(s) PROVE TypeOK'
  BY <1>5 DEF Abort, Discard
<1>6. CASE Tick
  BY <1>6 DEF Tick
<1>7. CASE UNCHANGED vars
  BY <1>7 DEF vars
<1> QED
  BY <1>1, <1>2, <1>3, <1>4, <1>5, <1>6, <1>7 DEF Next

\* Every variable keeps its type.
THEOREM TypeCorrect == Spec => []TypeOK
<1>1. Init => TypeOK
  BY DEF Init, TypeOK, NoDraft, Draft, Genesis
<1> QED
  BY <1>1, TypeStep, PTL DEF Spec

-----------------------------------------------------------------------------
(* Each step keeps the inductive invariant of AuditLedger *)

\* Seal reads the newest visible row and draws a fresh hash.
LEMMA SealStep ==
  ASSUME LedgerInv, NEW s \in Session, Seal(s)
  PROVE  LedgerInv'
<1> USE FieldTypes DEF LedgerInv
<1> DEFINE h == clock + 1
<1>1. TypeOK'
  BY TypeStep DEF Next
<1>2. /\ ledger' = ledger /\ pending' = pending /\ clock' = h
      /\ ~Sealing(s)
      /\ \A t \in Session : t # s => draft'[t] = draft[t]
      /\ draft'[s].hash = h
      /\ IsHead(draft'[s].prev, Visible(s))
      /\ \A t \in Session : t # s => (Sealing(t)' <=> Sealing(t))
  BY DEF Seal, TypeOK, Sealing, Visible
<1>3. TicksGrow'
  BY <1>2 DEF TicksGrow, Genesis
<1>4. NamesUnique'
  <2>1. \A q \in ledger : q.hash < h
    BY DEF TicksGrow
  <2>2. \A t \in Session : \A q \in pending[t] : q.hash < h
    BY DEF TicksGrow
  <2>3. \A t \in Session : draft[t].hash < h
    BY DEF TicksGrow, Sealing, NoDraft, Genesis
  <2>4. \A t \in Session : \A q \in pending[t] : q.hash # h
    BY <2>2
  <2>5. \A q \in ledger : q.hash # h
    BY <2>1
  <2>6. \A t \in Session : draft[t].hash # h
    BY <2>3
  <2> QED
    BY <1>2, <2>4, <2>5, <2>6 DEF NamesUnique, SameName
<1>5. LinksResolveInside'
  <2>1. Resolves(draft'[s], Visible(s))
    BY <1>2 DEF Resolves, IsHead, Visible, TicksGrow
  <2> QED
    BY <1>2, <2>1 DEF LinksResolveInside, Resolves, Visible
<1>6. LinksNewestSeen'
  <2>1. \A q \in Visible(s) : ReachesPast(draft'[s], q, Visible(s))
    BY <1>2 DEF IsHead, ReachesPast
  <2> QED
    BY <1>2, <2>1 DEF LinksNewestSeen, ReachesPast, Visible
<1>7. RecordsTakeTurns'
  BY <1>2 DEF RecordsTakeTurns, TicksGrow, InTurn
<1> QED
  BY <1>1, <1>3, <1>4, <1>5, <1>6, <1>7

\* Record turns the draft of s into a row of its transaction.
LEMMA RecordStep ==
  ASSUME LedgerInv, NEW s \in Session, NEW b \in Body, Record(s, b)
  PROVE  LedgerInv'
<1> USE FieldTypes DEF LedgerInv
<1> DEFINE n == FlushedRow(s, b, clock + 1)
<1>1. TypeOK'
  BY TypeStep DEF Next
<1>2. /\ ledger' = ledger /\ clock' = clock + 1
      /\ pending'[s] = pending[s] \cup {n}
      /\ \A t \in Session : t # s => pending'[t] = pending[t] /\ draft'[t] = draft[t]
      /\ Sealing(s) /\ ~Sealing(s)'
      /\ \A t \in Session : t # s => (Sealing(t)' <=> Sealing(t))
      /\ Visible(s)' = Visible(s) \cup {n}
      /\ \A t \in Session : t # s => Visible(t)' = Visible(t)
  BY DEF Record, TypeOK, Sealing, Visible
<1>3. n.hash = draft[s].hash /\ n.prev = draft[s].prev /\ n.at = clock + 1
  BY DEF FlushedRow
<1>4. TicksGrow'
  BY <1>2, <1>3 DEF TicksGrow, Genesis
<1>5. NamesUnique'
  <2>1. /\ \A q \in ledger : q.at < n.at
        /\ \A t \in Session : \A q \in pending[t] : q.at < n.at
    BY <1>3 DEF TicksGrow
  <2>2. /\ \A q \in ledger : ~SameName(n, q) /\ ~SameName(q, n)
        /\ \A t \in Session : \A q \in pending[t] : ~SameName(n, q) /\ ~SameName(q, n)
    BY <1>2, <1>3, <2>1 DEF NamesUnique, SameName
  <2>3. \A t \in Session : \A q \in pending'[t] : q \in pending[t] \/ (t = s /\ q = n)
    BY <1>2
  <2>4. /\ \A t \in Session : \A r \in pending'[t], q \in ledger : ~SameName(r, q)
        /\ \A t, u \in Session : \A r \in pending'[t], q \in pending'[u] :
             SameName(r, q) => r = q /\ t = u
    BY <2>2, <2>3 DEF NamesUnique
  <2>5. \A t \in Session : Sealing(t)' =>
          /\ \A q \in ledger : q.hash # draft'[t].hash
          /\ \A u \in Session : \A q \in pending'[u] : q.hash # draft'[t].hash
          /\ \A u \in Session : draft'[u].hash = draft'[t].hash => u = t
    <3> SUFFICES ASSUME NEW t \in Session, Sealing(t)' PROVE
          /\ \A q \in ledger : q.hash # draft'[t].hash
          /\ \A u \in Session : \A q \in pending'[u] : q.hash # draft'[t].hash
          /\ \A u \in Session : draft'[u].hash = draft'[t].hash => u = t
      OBVIOUS
    <3>1. t # s /\ Sealing(t) /\ draft'[t] = draft[t]
      BY <1>2
    <3>2. draft[t].hash # n.hash
      BY <3>1, <1>2, <1>3 DEF NamesUnique
    <3>3. draft'[s].hash = Genesis
      BY DEF Record, NoDraft, TypeOK
    <3>4. draft[t].hash # Genesis
      BY <3>1 DEF TicksGrow, Genesis
    <3> QED
      BY <1>2, <2>3, <3>1, <3>2, <3>3, <3>4 DEF NamesUnique
  <2> QED
    BY <1>2, <2>4, <2>5 DEF NamesUnique, SameName
<1>6. LinksResolveInside'
  <2>1. Resolves(n, Visible(s))
    BY <1>2, <1>3 DEF LinksResolveInside, Resolves
  <2> QED
    BY <1>2, <2>1 DEF LinksResolveInside, Resolves
<1>7. LinksNewestSeen'
  <2>1. /\ \A q \in ledger : q.done < n.hash => ReachesPast(n, q, Visible(s))
        /\ \A q \in pending[s] : ReachesPast(n, q, Visible(s))
    BY <1>2, <1>3 DEF LinksNewestSeen, ReachesPast
  <2>2. n.hash < n.at
    BY <1>2, <1>3 DEF TicksGrow
  <2>3. \A r \in pending[s] : ~(n.at < r.hash)
    BY <1>3 DEF TicksGrow
  <2>4. ASSUME NEW t \in Session, NEW r \in pending'[t]
        PROVE  /\ \A q \in ledger : q.done < r.hash => ReachesPast(r, q, Visible(t)')
               /\ \A q \in pending'[t] : q.at < r.hash => ReachesPast(r, q, Visible(t)')
    <3>1. CASE r \in pending[t] /\ t = s
      BY <1>2, <2>3, <3>1 DEF LinksNewestSeen, ReachesPast
    <3>2. CASE r = n /\ t = s
      BY <1>2, <2>1, <2>2, <3>2, <1>3 DEF ReachesPast, TicksGrow
    <3>3. CASE r \in pending[t] /\ t # s
      BY <1>2, <3>3 DEF LinksNewestSeen
    <3> QED
      BY <1>2, <2>4, <3>1, <3>2, <3>3
  <2>5. ASSUME NEW t \in Session, Sealing(t)'
        PROVE  /\ \A q \in ledger :
                    q.done < draft'[t].hash => ReachesPast(draft'[t], q, Visible(t)')
               /\ \A q \in pending'[t] : ReachesPast(draft'[t], q, Visible(t)')
    BY <1>2, <2>5 DEF LinksNewestSeen
  <2> QED
    BY <1>2, <2>4, <2>5 DEF LinksNewestSeen
<1>8. RecordsTakeTurns'
  BY <1>2, <1>3 DEF RecordsTakeTurns, InTurn
<1> QED
  BY <1>1, <1>4, <1>5, <1>6, <1>7, <1>8

\* Rolling a session back forgets its rows and its draft.
LEMMA DiscardStep ==
  ASSUME LedgerInv, TypeOK', NEW s \in Session, Discard(s)
  PROVE  LedgerInv'
<1> USE FieldTypes DEF LedgerInv
<1>1. /\ ledger' = ledger /\ clock' = clock
      /\ pending'[s] = {} /\ ~Sealing(s)' /\ draft'[s].hash = Genesis
      /\ \A t \in Session : t # s => pending'[t] = pending[t] /\ draft'[t] = draft[t]
      /\ \A t \in Session : t # s => (Sealing(t)' <=> Sealing(t))
      /\ \A t \in Session : t # s => Visible(t)' = Visible(t)
  BY DEF Discard, TypeOK, Sealing, Visible, NoDraft
<1>2. TicksGrow'
  BY <1>1 DEF TicksGrow
<1>3. NamesUnique'
  <2>1. \A t \in Session : \A r \in pending'[t] : r \in pending[t]
    BY <1>1
  <2>2. \A t \in Session : Sealing(t)' => t # s /\ Sealing(t) /\ draft'[t].hash # Genesis
    BY <1>1 DEF TicksGrow, Genesis
  <2>3. \A t, u \in Session :
          Sealing(t)' /\ draft'[u].hash = draft'[t].hash => u = t
    BY <1>1, <2>2 DEF NamesUnique
  <2> QED
    BY <1>1, <2>1, <2>2, <2>3 DEF NamesUnique, SameName
<1>4. LinksResolveInside'
  BY <1>1 DEF LinksResolveInside, Resolves
<1>5. LinksNewestSeen'
  BY <1>1 DEF LinksNewestSeen, ReachesPast
<1>6. RecordsTakeTurns'
  BY <1>1 DEF RecordsTakeTurns, InTurn
<1> QED
  BY <1>2, <1>3, <1>4, <1>5, <1>6

\* Commit makes the rows of s visible to everybody, all at one tick.
LEMMA CommitStep ==
  ASSUME LedgerInv, NEW s \in Session, Commit(s)
  PROVE  LedgerInv'
<1> USE FieldTypes DEF LedgerInv
<1> DEFINE now == clock + 1
<1>1. TypeOK'
  BY TypeStep DEF Next
<1>2. /\ clock' = now /\ pending'[s] = {} /\ draft' = draft /\ ~Sealing(s)
      /\ \A t \in Session : t # s => pending'[t] = pending[t]
      /\ \A t \in Session : Sealing(t)' <=> Sealing(t)
      /\ ledger \subseteq ledger'
  BY DEF Commit, TypeOK, Sealing
<1>3. \A r \in pending[s] :
        LET d == Durable(r, now)
        IN  /\ d \in ledger'
            /\ d.hash = r.hash /\ d.prev = r.prev /\ d.at = r.at /\ d.done = now
  BY DEF Commit, Durable
<1>4. \A d \in ledger' :
        \/ d \in ledger /\ d.done <= clock
        \/ /\ d.done = now
           /\ \E r \in pending[s] : /\ d = Durable(r, now) /\ d.hash = r.hash
                                   /\ d.prev = r.prev /\ d.at = r.at
  BY DEF Commit, Durable, TicksGrow
<1>5. \A p \in Visible(s) : \E d \in ledger' : d.hash = p.hash /\ d.at = p.at
  BY <1>2, <1>3 DEF Visible
<1>6. \A t \in Session : t # s => Visible(t) \subseteq Visible(t)'
  BY <1>2 DEF Visible
<1>7. TicksGrow'
  BY <1>2, <1>4 DEF TicksGrow
<1>8. NamesUnique'
  <2>1. \A r, q \in ledger' : SameName(r, q) => r = q
    BY <1>4 DEF NamesUnique, SameName
  <2>2. \A t \in Session : \A r \in pending'[t], q \in ledger' : ~SameName(r, q)
    BY <1>2, <1>4 DEF NamesUnique, SameName
  <2>3. \A t \in Session : \A r \in pending'[t] : r \in pending[t]
    BY <1>2
  <2>4. \A t \in Session : Sealing(t) => \A q \in ledger' : q.hash # draft[t].hash
    BY <1>4 DEF NamesUnique
  <2> QED
    BY <1>2, <2>1, <2>2, <2>3, <2>4 DEF NamesUnique, SameName
<1>9. LinksResolveInside'
  <2>1. \A r \in ledger' : Resolves(r, ledger')
    <3> SUFFICES ASSUME NEW r \in ledger' PROVE Resolves(r, ledger')
      OBVIOUS
    <3>1. CASE r \in ledger
      BY <3>1, <1>2 DEF LinksResolveInside, Resolves
    <3>2. CASE \E q \in pending[s] : r.hash = q.hash /\ r.prev = q.prev
      BY <3>2, <1>5 DEF LinksResolveInside, Resolves
    <3> QED
      BY <1>4, <3>1, <3>2
  <2> QED
    BY <1>2, <1>6, <2>1 DEF LinksResolveInside, Resolves
<1>10. LinksNewestSeen'
  <2>1. ASSUME NEW r \in ledger', NEW q \in ledger',
               q.done < r.hash \/ (q.done = r.done /\ q.at < r.hash)
        PROVE  ReachesPast(r, q, ledger')
    <3>1. r.hash < now
      BY <1>4 DEF TicksGrow
    <3>2. CASE r \in ledger /\ r.done <= clock
      <4>1. q \in ledger
        BY <1>4, <2>1, <3>1, <3>2
      <4> QED
        BY <1>2, <2>1, <3>2, <4>1 DEF LinksNewestSeen, ReachesPast
    <3>3. CASE r.done = now /\ \E p \in pending[s] : /\ r = Durable(p, now)
                              /\ r.hash = p.hash /\ r.prev = p.prev /\ r.at = p.at
      <4>1. PICK p \in pending[s] : r.hash = p.hash /\ r.prev = p.prev
        BY <3>3
      <4>2. CASE q \in ledger /\ q.done <= clock
        <5>1. ReachesPast(p, q, Visible(s))
          BY <2>1, <3>3, <4>1, <4>2 DEF LinksNewestSeen
        <5> QED
          BY <1>5, <4>1, <5>1 DEF ReachesPast
      <4>3. CASE q.done = now /\ \E p2 \in pending[s] : q.at = p2.at
        <5>1. PICK p2 \in pending[s] : q.at = p2.at
          BY <4>3
        <5>2. ReachesPast(p, p2, Visible(s))
          BY <2>1, <3>1, <4>1, <4>3, <5>1 DEF LinksNewestSeen
        <5> QED
          BY <1>5, <4>1, <5>1, <5>2 DEF ReachesPast
      <4> QED
        BY <1>4, <4>2, <4>3
    <3> QED
      BY <1>4, <3>2, <3>3
  <2>2. ASSUME NEW t \in Session, NEW r \in pending'[t]
        PROVE  /\ \A q \in ledger' : q.done < r.hash => ReachesPast(r, q, Visible(t)')
               /\ \A q \in pending'[t] : q.at < r.hash => ReachesPast(r, q, Visible(t)')
    <3>1. t # s /\ r \in pending[t] /\ pending'[t] = pending[t] /\ r.hash < now
      BY <1>2, <2>2 DEF TicksGrow
    <3>2. \A q \in ledger' : q.done < r.hash => q \in ledger
      BY <1>4, <3>1
    <3> QED
      BY <1>6, <3>1, <3>2 DEF LinksNewestSeen, ReachesPast
  <2>3. ASSUME NEW t \in Session, Sealing(t)'
        PROVE  /\ \A q \in ledger' :
                    q.done < draft[t].hash => ReachesPast(draft[t], q, Visible(t)')
               /\ \A q \in pending'[t] : ReachesPast(draft[t], q, Visible(t)')
    <3>1. t # s /\ Sealing(t) /\ pending'[t] = pending[t] /\ draft[t].hash < now
      BY <1>2, <2>3 DEF TicksGrow
    <3>2. \A q \in ledger' : q.done < draft[t].hash => q \in ledger
      BY <1>4, <3>1
    <3> QED
      BY <1>6, <3>1, <3>2 DEF LinksNewestSeen, ReachesPast
  <2> QED
    BY <1>2, <2>1, <2>2, <2>3 DEF LinksNewestSeen, ReachesPast
<1>11. RecordsTakeTurns'
  <2>1. \A r, q \in ledger' : r # q /\ r.done = q.done => InTurn(r, q)
    BY <1>4 DEF RecordsTakeTurns, InTurn
  <2> QED
    BY <1>2, <2>1 DEF RecordsTakeTurns, InTurn
<1> QED
  BY <1>1, <1>7, <1>8, <1>9, <1>10, <1>11

\* The inductive invariant holds in every reachable state.
THEOREM LedgerInvariant == Spec => []LedgerInv
<1>1. Init => LedgerInv
  BY DEF Init, LedgerInv, TypeOK, NoDraft, Draft, Genesis, TicksGrow, NamesUnique,
         LinksResolveInside, LinksNewestSeen, RecordsTakeTurns, Sealing
<1>2. LedgerInv /\ [Next]_vars => LedgerInv'
  <2> SUFFICES ASSUME LedgerInv, [Next]_vars PROVE LedgerInv'
    OBVIOUS
  <2>1. TypeOK'
    BY TypeStep DEF LedgerInv
  <2>2. ASSUME NEW s \in Session, SubmitFails(s) \/ Abort(s) PROVE LedgerInv'
    BY <2>1, <2>2, DiscardStep DEF SubmitFails, Abort
  <2>3. CASE Tick \/ UNCHANGED vars
    <3>1. /\ ledger' = ledger /\ pending' = pending /\ draft' = draft
          /\ clock' = clock \/ clock' = clock + 1
      BY <2>3 DEF Tick, vars
    <3>2. TicksGrow'
      BY <3>1, FieldTypes DEF LedgerInv, TicksGrow, Sealing
    <3> QED
      BY <2>1, <3>1, <3>2 DEF LedgerInv, NamesUnique, LinksResolveInside, LinksNewestSeen,
                RecordsTakeTurns, Sealing, Visible, Resolves, ReachesPast, InTurn, SameName
  <2> QED
    BY <2>2, <2>3, SealStep, RecordStep, CommitStep DEF Next
<1> QED
  BY <1>1, <1>2, PTL DEF Spec

-----------------------------------------------------------------------------
(* The properties *)

\* previous_hash leads from a committed row to an older committed row.
THEOREM LinksAlwaysResolve == Spec => []LinksResolve
<1>1. LedgerInv => LinksResolve
  BY DEF LedgerInv, LinksResolveInside, Resolves, LinksResolve
<1> QED
  BY <1>1, LedgerInvariant, PTL

\* A fork of the chain takes two requests that were open at the same time.
THEOREM ForksNeedOverlap == Spec => []ForkOnlyByOverlap
<1>1. ASSUME LedgerInv PROVE ForkOnlyByOverlap
  <2> USE <1>1, FieldTypes DEF LedgerInv
  <2>1. ASSUME NEW r \in ledger, NEW q \in ledger, r.prev = q.prev,
               q.done < r.hash \/ (q.done = r.done /\ q.at < r.hash)
        PROVE  FALSE
    <3>1. PICK p \in ledger : p.hash = r.prev /\ q.at <= p.at
      BY <2>1 DEF LinksNewestSeen, ReachesPast
    <3>2. PICK o \in ledger : o.hash = q.prev /\ o.at < q.hash
      BY <2>1, <3>1 DEF LinksResolveInside, Resolves, TicksGrow, Genesis
    <3>3. o = p
      BY <2>1, <3>1, <3>2 DEF NamesUnique, SameName
    <3> QED
      BY <3>1, <3>2, <3>3 DEF TicksGrow
  <2>2. SUFFICES ASSUME NEW r \in ledger, NEW q \in ledger, r # q, r.prev = q.prev
                 PROVE  Overlap(r, q)
    BY DEF ForkOnlyByOverlap
  <2>3. r.done # q.done
    BY <2>1, <2>2 DEF RecordsTakeTurns, InTurn
  <2>4. r.hash <= q.done /\ q.hash <= r.done
    BY <2>1, <2>2
  <2> QED
    BY <2>3, <2>4 DEF Overlap
<1> QED
  BY <1>1, LedgerInvariant, PTL

\* As long as no two of the requests that wrote to it overlapped, the ledger
\* is what verify_chain expects, whatever failed or was rolled back between
\* their commits: every record carries the hash of the one created before it.
THEOREM SerialLedgerVerifies ==
  Spec => []((\A p, q \in ledger : ~Overlap(p, q)) => ChainIntact)
<1>1. ASSUME LedgerInv, \A p, q \in ledger : ~Overlap(p, q), NEW r \in ledger
      PROVE  Linked(r, ledger)
  <2>1. \A q \in ledger :
          /\ q.hash \in Nat /\ q.at \in Nat /\ q.done \in Nat
          /\ 0 < q.hash /\ q.hash < q.at /\ q.at < q.done
    BY <1>1, FieldTypes DEF LedgerInv, TicksGrow, Genesis
  <2>2. ASSUME NEW q \in Before(r, ledger)
        PROVE  q \in ledger /\ \E p \in ledger : p.hash = r.prev /\ q.at <= p.at
    <3>1. q \in ledger /\ q.at < r.at
      BY DEF Before
    <3>2. CASE q.done # r.done
      <4>1. q.done < r.hash \/ r.done < q.hash
        BY <1>1, <2>1, <3>1, <3>2 DEF Overlap
      <4>2. q.done < r.hash
        BY <1>1, <2>1, <3>1, <4>1
      <4> QED
        BY <1>1, <3>1, <4>2 DEF LedgerInv, LinksNewestSeen, ReachesPast
    <3>3. CASE q.done = r.done
      <4>1. q.at < r.hash \/ r.at < q.hash
        BY <1>1, <2>1, <3>1, <3>3 DEF LedgerInv, RecordsTakeTurns, InTurn
      <4>2. q.at < r.hash
        BY <1>1, <2>1, <3>1, <4>1
      <4> QED
        BY <1>1, <3>1, <3>3, <4>2 DEF LedgerInv, LinksNewestSeen, ReachesPast
    <3> QED
      BY <3>2, <3>3
  <2>3. CASE r.prev = Genesis
    <3>1. Before(r, ledger) = {}
      BY <2>1, <2>2, <2>3 DEF Genesis
    <3> QED
      BY <2>3, <3>1 DEF Linked, IsHead
  <2>4. CASE r.prev # Genesis
    <3>1. PICK p \in ledger : p.hash = r.prev /\ p.at < r.hash
      BY <1>1, <2>4 DEF LedgerInv, LinksResolveInside, Resolves
    <3>2. p \in Before(r, ledger)
      BY <1>1, <2>1, <3>1 DEF Before
    <3>3. \A q \in ledger : q.hash = r.prev => q = p
      BY <1>1, <3>1 DEF LedgerInv, NamesUnique, SameName
    <3>4. \A q \in Before(r, ledger) : q.at <= p.at
      BY <2>2, <3>3
    <3> QED
      BY <3>1, <3>2, <3>4 DEF Linked, IsHead
  <2> QED
    BY <2>3, <2>4
<1>2. LedgerInv => ((\A p, q \in ledger : ~Overlap(p, q)) => ChainIntact)
  BY <1>1 DEF ChainIntact
<1> QED
  BY <1>2, LedgerInvariant, PTL

\* A record that verify and verify_chain find out of place is out of place for
\* good: what is committed later, the rows of other forks included, never heals
\* a link, and no row is taken away.
BrokenStaysBroken ==
  [][\A r \in ledger : ~Linked(r, ledger) => r \in ledger' /\ ~Linked(r, ledger')]_vars

\* A fork made by requests that overlapped is reported by every later
\* verification (ledger.py:41, 62-119).
THEOREM ForksStayReported == Spec => BrokenStaysBroken
<1>1. LedgerInv /\ LedgerInv' /\ [Next]_vars =>
        [\A r \in ledger : ~Linked(r, ledger) => r \in ledger' /\ ~Linked(r, ledger')]_vars
  <2> SUFFICES ASSUME LedgerInv, LedgerInv', [Next]_vars, NEW r \in ledger
               PROVE  r \in ledger' /\ (Linked(r, ledger') => Linked(r, ledger))
    OBVIOUS
  <2>1. ledger \subseteq ledger'
    BY DEF Next, Seal, Record, SubmitFails, Commit, Abort, Discard, Tick, vars
  <2>2. ASSUME Linked(r, ledger') PROVE Linked(r, ledger)
    <3>1. CASE Before(r, ledger') = {} /\ r.prev = Genesis
      <4>1. Before(r, ledger) = {}
        BY <2>1, <3>1 DEF Before
      <4> QED
        BY <3>1, <4>1 DEF Linked, IsHead
    <3>2. ASSUME NEW p \in Before(r, ledger'), r.prev = p.hash,
                 \A q \in Before(r, ledger') : q.at <= p.at
          PROVE  Linked(r, ledger)
      <4>1. p \in ledger' /\ p.at < r.at
        BY <3>2 DEF Before
      <4>2. r.prev # Genesis
        BY <3>2, <4>1 DEF LedgerInv, TicksGrow, TypeOK, CommittedRow, Genesis
      <4>3. PICK o \in ledger : o.hash = r.prev
        BY <4>2 DEF LedgerInv, LinksResolveInside, Resolves
      <4>4. o = p
        BY <2>1, <3>2, <4>1, <4>3 DEF LedgerInv, NamesUnique, SameName
      <4>5. p \in Before(r, ledger)
        BY <4>1, <4>3, <4>4 DEF Before
      <4>6. \A q \in Before(r, ledger) : q.at <= p.at
        BY <2>1, <3>2 DEF Before
      <4> QED
        BY <3>2, <4>5, <4>6 DEF Linked, IsHead
    <3> QED
      BY <2>2, <3>1, <3>2 DEF Linked, IsHead
  <2> QED
    BY <2>1, <2>2
<1> QED
  BY <1>1, LedgerInvariant, PTL DEF Spec, BrokenStaysBroken

\* Fabric mode never commits a row the gateway has not accepted.
THEOREM GatewayAlwaysBacksLedger == Spec => []GatewayBacksLedger
<1>1. Init => GatewayInv
  BY DEF Init, GatewayInv
<1>2. TypeOK /\ GatewayInv /\ [Next]_vars => GatewayInv'
  <2> SUFFICES ASSUME TypeOK, GatewayInv, [Next]_vars, Provider = "fabric"
               PROVE  /\ \A r \in ledger' : r.hash \in gateway'
                      /\ \A s \in Session : \A r \in pending'[s] : r.hash \in gateway'
    BY DEF GatewayInv
  <2> USE DEF TypeOK, GatewayInv
  <2>1. ASSUME NEW s \in Session, Seal(s) PROVE GatewayInv'
    BY <2>1 DEF Seal
  <2>2. ASSUME NEW s \in Session, NEW b \in Body, Record(s, b) PROVE GatewayInv'
    BY <2>2 DEF Record, FlushedRow
  <2>3. ASSUME NEW s \in Session, SubmitFails(s) PROVE GatewayInv'
    BY <2>3 DEF SubmitFails, Discard
  <2>4. ASSUME NEW s \in Session, Commit(s) PROVE GatewayInv'
    BY <2>4 DEF Commit, Durable
  <2>5. ASSUME NEW s \in Session, Abort(s) PROVE GatewayInv'
    BY <2>5 DEF Abort, Discard
  <2>6. CASE Tick \/ UNCHANGED vars
    BY <2>6 DEF Tick, vars
  <2> QED
    BY <2>1, <2>2, <2>3, <2>4, <2>5, <2>6 DEF Next
<1>3. GatewayInv => GatewayBacksLedger
  BY DEF GatewayInv, GatewayBacksLedger
<1> QED
  BY <1>1, <1>2, <1>3, TypeCorrect, PTL DEF Spec

-----------------------------------------------------------------------------
(* The ledger until two requests overlap *)

\* No step makes a record link to something that was committed after it.
LEMMA SettledStep ==
  ASSUME LedgerInv, LinksSettled, [Next]_vars
  PROVE  LinksSettled'
<1> USE FieldTypes DEF LedgerInv
<1>1. ASSUME NEW s \in Session, Seal(s) PROVE LinksSettled'
  BY <1>1 DEF Seal, TypeOK, LinksSettled, TicksGrow, Sealing
<1>2. ASSUME NEW s \in Session, NEW b \in Body, Record(s, b) PROVE LinksSettled'
  <2>1. /\ ledger' = ledger /\ Sealing(s) /\ ~Sealing(s)'
        /\ \A t \in Session \ {s} : pending'[t] = pending[t] /\ draft'[t] = draft[t]
        /\ \A r \in pending'[s] :
             \/ r \in pending[s]
             \/ r.hash = draft[s].hash /\ r.prev = draft[s].prev
    BY <1>2 DEF Record, FlushedRow, TypeOK, Sealing
  <2> QED
    BY <2>1 DEF LinksSettled, Sealing
<1>3. ASSUME NEW s \in Session, SubmitFails(s) \/ Abort(s) PROVE LinksSettled'
  BY <1>3 DEF SubmitFails, Abort, Discard, TypeOK, LinksSettled, Sealing
<1>4. ASSUME NEW s \in Session, Commit(s) PROVE LinksSettled'
  <2>1. /\ draft' = draft /\ ~Sealing(s)
        /\ pending'[s] = {} /\ \A t \in Session \ {s} : pending'[t] = pending[t]
        /\ \A d \in ledger' :
             \/ d \in ledger
             \/ /\ d.done = clock + 1
                /\ \E r \in pending[s] : d.hash = r.hash /\ d.prev = r.prev
    BY <1>4 DEF Commit, Durable, TypeOK, Sealing
  \* Nothing else links to what s has flushed.
  <2>2. \A p \in pending[s] :
          /\ \A r \in ledger : p.hash # r.prev
          /\ \A t \in Session \ {s} : \A r \in pending[t] : p.hash # r.prev
          /\ \A t \in Session \ {s} : Sealing(t) => p.hash # draft[t].prev
    BY DEF LinksResolveInside, Resolves, Visible, NamesUnique, SameName, TicksGrow
  <2>3. \A r, p \in ledger' : p.hash = r.prev => p.done < r.hash \/ p.done = r.done
    BY <2>1, <2>2 DEF LinksSettled
  <2> QED
    BY <2>1, <2>2, <2>3 DEF LinksSettled, Sealing
<1>5. CASE Tick \/ UNCHANGED vars
  BY <1>5 DEF Tick, vars, LinksSettled, Sealing
<1> QED
  BY <1>1, <1>2, <1>3, <1>4, <1>5 DEF Next

\* The records before the first overlap form a chain.
LEMMA UnforkedInPlace ==
  ASSUME LedgerInv, LinksSettled, NEW r \in Unforked
  PROVE  Chain!InPlace(r, Unforked)
<1> USE FieldTypes DEF LedgerInv
<1>1. r \in ledger /\ Unforked \subseteq ledger
  BY DEF Unforked
<1>2. \A q \in Unforked : q.at < r.at => ReachesPast(r, q, ledger)
  <2>1. SUFFICES ASSUME NEW q \in Unforked, q.at < r.at PROVE ReachesPast(r, q, ledger)
    OBVIOUS
  <2>2. ~Overlap(r, q)
    BY <1>1 DEF Unforked
  <2>3. q.done < r.hash \/ (q.done = r.done /\ q.at < r.hash)
    BY <1>1, <2>1, <2>2 DEF Overlap, RecordsTakeTurns, InTurn, TicksGrow
  <2> QED
    BY <1>1, <2>3 DEF LinksNewestSeen
<1>3. CASE r.prev = Genesis
  <2>1. \A q \in Unforked : ~(q.at < r.at)
    BY <1>1, <1>2, <1>3 DEF ReachesPast, TicksGrow
  <2> QED
    BY <1>1, <1>3, <2>1 DEF Chain!InPlace, Genesis
<1>4. CASE r.prev # Genesis
  <2>1. PICK p \in ledger : p.hash = r.prev /\ p.at < r.hash
    BY <1>1, <1>4 DEF LinksResolveInside, Resolves
  <2>2. p.at < r.at /\ p.done <= r.done
    BY <1>1, <2>1 DEF LinksSettled, TicksGrow
  <2>3. p \in Unforked
    BY <1>1, <2>2 DEF Unforked
  <2>4. \A q \in Unforked : q.at < r.at => q.at <= p.at
    BY <1>1, <1>2, <2>1 DEF ReachesPast, NamesUnique, SameName
  <2> QED
    BY <2>1, <2>2, <2>3, <2>4 DEF Chain!InPlace, Chain!ChainedAfter
<1> QED
  BY <1>3, <1>4

\* A commit appends to that chain, or leaves it as it is.
LEMMA UnforkedGrows ==
  ASSUME LedgerInv, NEW s \in Session, Commit(s)
  PROVE  /\ Unforked \subseteq Unforked'
         /\ \A r \in Unforked' \ Unforked, q \in Unforked : q.at < r.at
<1> USE FieldTypes DEF LedgerInv
<1>1. /\ ledger \subseteq ledger'
      /\ \A r \in ledger : r.done <= clock
      /\ \A r \in ledger' : r.hash \in Nat /\ r.done \in Nat /\ r.at \in Nat
      /\ \A r \in ledger' \ ledger : r.done = clock + 1 /\ r.hash < r.at
  BY DEF Commit, Durable, TypeOK, TicksGrow
<1>2. Unforked \subseteq Unforked'
  <2>1. ASSUME NEW r \in Unforked, NEW p \in ledger', NEW q \in ledger',
               p.done <= r.done, q.done <= r.done
        PROVE  ~Overlap(p, q)
    <3>1. r \in ledger /\ p \in ledger /\ q \in ledger
      BY <1>1, <2>1 DEF Unforked
    <3> QED
      BY <2>1, <3>1 DEF Unforked
  <2>2. \A r \in Unforked : r \in ledger'
    BY <1>1 DEF Unforked
  <2> QED
    BY <2>1, <2>2 DEF Unforked, Overlap
<1>3. ASSUME NEW r \in Unforked' \ Unforked, NEW q \in Unforked PROVE q.at < r.at
  <2>1. r \in ledger' /\ q \in ledger
    BY DEF Unforked
  <2>2. \A o, p \in ledger' : o.done <= r.done /\ p.done <= r.done => ~Overlap(o, p)
    BY DEF Unforked, Overlap
  <2>3. r \notin ledger
    BY <1>1, <2>2 DEF Unforked
  <2>4. ~Overlap(r, q)
    BY <1>1, <2>1, <2>2, <2>3
  <2> QED
    BY <1>1, <2>1, <2>3, <2>4 DEF Overlap, TicksGrow
<1> QED
  BY <1>2, <1>3

\* Until two requests overlap the ledger implements AppendOnlyChain.
THEOREM ChainsUntilOverlap == Spec => ChainUntilOverlap
<1>1. Init => LinksSettled /\ Chain!ChainInit
  BY DEF Init, LinksSettled, Sealing, Chain!ChainInit, Unforked
<1>2. LedgerInv /\ LinksSettled /\ [Next]_vars => LinksSettled'
  BY SettledStep
<1>3. LedgerInv' /\ LinksSettled' => (\A r \in Unforked : Chain!InPlace(r, Unforked))'
  <2>1. LedgerInv /\ LinksSettled => \A r \in Unforked : Chain!InPlace(r, Unforked)
    BY UnforkedInPlace
  <2> QED
    BY <2>1, PTL
<1>4. ASSUME LedgerInv, (\A r \in Unforked : Chain!InPlace(r, Unforked))', [Next]_vars
      PROVE  [Chain!ChainAppend]_Unforked
  <2>1. ASSUME NEW s \in Session, Commit(s) PROVE Chain!ChainAppend
    BY <1>4, <2>1, UnforkedGrows DEF Chain!ChainAppend
  <2>2. CASE ledger' = ledger
    BY <2>2 DEF Unforked, Overlap
  <2> QED
    BY <1>4, <2>1, <2>2 DEF Next, Seal, Record, SubmitFails, Abort, Discard, Tick, vars
<1>5. LedgerInv /\ (\A r \in Unforked : Chain!InPlace(r, Unforked))' /\ [Next]_vars
        => [Chain!ChainAppend]_Unforked
  BY <1>4
<1> QED
  BY <1>1, <1>2, <1>3, <1>5, LedgerInvariant, PTL
     DEF Spec, ChainUntilOverlap, Chain!ChainSpec
=============================================================================
