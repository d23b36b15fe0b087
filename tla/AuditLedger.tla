---------------------------- MODULE AuditLedger ----------------------------
(***************************************************************************)
(* backend/app/ledger.py: the hash-chained audit ledger every write of the *)
(* platform is sealed into.                                                *)
(*                                                                         *)
(* A session is one HTTP request with its own database session (db.py).    *)
(* Under READ COMMITTED, the default of the PostgreSQL the deployment      *)
(* runs on, a statement sees the committed rows and the rows its own       *)
(* transaction has flushed, nothing else.  AuditLedger.record runs inside  *)
(* the transaction of its caller: it reads the newest visible record and   *)
(* computes the new hash over it (Seal), submits that hash to the ledger   *)
(* provider and flushes the row (Record), and leaves the commit to the     *)
(* caller (Commit).  Other sessions run between any two of these steps.    *)
(*                                                                         *)
(* A record hash covers a microsecond timestamp and its column is UNIQUE,  *)
(* so a hash is a fresh name: the tick of the clock at which it was        *)
(* computed.  Genesis, which is no tick, stands for a NULL previous_hash.  *)
(***************************************************************************)
EXTENDS Naturals, FiniteSets

CONSTANTS
  Session,    \* concurrent requests
  Body,       \* what a record is about (event type, payload, actor)
  Provider,   \* BLOCKCHAIN_PROVIDER
  MaxClock    \* bound: no record is begun after this many ticks

ASSUME ProviderAssumption == Provider \in {"local", "fabric"}
ASSUME MaxClockAssumption == MaxClock \in Nat

VARIABLES
  ledger,     \* committed rows of audit_ledger_records
  pending,    \* rows a session has flushed and not committed
  draft,      \* hash and link of the record() call a session is inside
  clock,      \* the last tick of datetime.now()
  gateway     \* hashes the Fabric gateway has accepted

vars == <<ledger, pending, draft, clock, gateway>>

Genesis == 0

Draft == [hash : Nat, prev : Nat]
NoDraft == [hash |-> Genesis, prev |-> Genesis]

\* hash is record_hash, prev is previous_hash, at is created_at.
Row == [hash : Nat, prev : Nat, body : Body, at : Nat]

\* done, the tick at which the row was committed, is a history field.
CommittedRow == [hash : Nat, prev : Nat, body : Body, at : Nat, done : Nat]

TypeOK ==
  /\ ledger \subseteq CommittedRow
  /\ pending \in [Session -> SUBSET Row]
  /\ draft \in [Session -> Draft]
  /\ clock \in Nat
  /\ gateway \subseteq Nat

-----------------------------------------------------------------------------
Sealing(s) == draft[s] # NoDraft

\* h is the record_hash of the newest row of rows, by created_at.
IsHead(h, rows) ==
  \/ rows = {} /\ h = Genesis
  \/ \E r \in rows : h = r.hash /\ \A q \in rows : q.at <= r.at

\* Rows created before r.
Before(r, rows) == {q \in rows : q.at < r.at}

\* The chain_linked test of verify(), the link test of verify_chain().
Linked(r, rows) == IsHead(r.prev, Before(r, rows))

-----------------------------------------------------------------------------
Init ==
  /\ ledger = {}
  /\ pending = [s \in Session |-> {}]
  /\ draft = [s \in Session |-> NoDraft]
  /\ clock = 0
  /\ gateway = {}

\* Mutants of Seal: it reads the rows that other sessions have not committed,
\* or it misses the rows of its own transaction.
SealReading(s, seen) ==
  /\ ~Sealing(s)
  /\ clock < MaxClock
  /\ clock' = clock + 1
  /\ \E h \in {Genesis} \cup {r.hash : r \in seen} :
       /\ IsHead(h, seen)
       /\ draft' = [draft EXCEPT ![s] = [hash |-> clock + 1, prev |-> h]]
  /\ UNCHANGED <<ledger, pending, gateway>>
SealDirty(s) == SealReading(s, ledger \cup UNION {pending[t] : t \in Session})
SealCommitted(s) == SealReading(s, ledger)

\* The first half of record(): the newest visible row is read and the hash
\* of the new record is computed over it.
Seal(s) ==
  /\ ~Sealing(s)
  /\ clock < MaxClock
  /\ clock' = clock + 1
  /\ \E h \in {Genesis} \cup {r.hash : r \in ledger \cup pending[s]} :
       /\ IsHead(h, ledger \cup pending[s])
       /\ draft' = [draft EXCEPT ![s] = [hash |-> clock + 1, prev |-> h]]
  /\ UNCHANGED <<ledger, pending, gateway>>

\* The row that the record() call of s flushes at tick t.
FlushedRow(s, b, t) ==
  [hash |-> draft[s].hash, prev |-> draft[s].prev, body |-> b, at |-> t]

\* The row r once it is committed at tick t.
Durable(r, t) ==
  [hash |-> r.hash, prev |-> r.prev, body |-> r.body, at |-> r.at, done |-> t]

\* Mutant of Record: a gateway that does not answer is ignored.
RecordUnconfirmed(s, b) ==
  /\ Sealing(s)
  /\ gateway' \in {gateway, gateway \cup {draft[s].hash}}
  /\ clock' = clock + 1
  /\ pending' = [pending EXCEPT ![s] = @ \cup {FlushedRow(s, b, clock + 1)}]
  /\ draft' = [draft EXCEPT ![s] = NoDraft]
  /\ UNCHANGED ledger

\* The second half: the provider returns a transaction id and the row is
\* flushed, stamped with a created_at of its own.
Record(s, b) ==
  /\ Sealing(s)
  /\ gateway' = IF Provider = "fabric" THEN gateway \cup {draft[s].hash}
                                       ELSE gateway
  /\ clock' = clock + 1
  /\ pending' = [pending EXCEPT ![s] = @ \cup {FlushedRow(s, b, clock + 1)}]
  /\ draft' = [draft EXCEPT ![s] = NoDraft]
  /\ UNCHANGED ledger

\* The session is rolled back: what it has flushed is gone.
Discard(s) ==
  /\ pending' = [pending EXCEPT ![s] = {}]
  /\ draft' = [draft EXCEPT ![s] = NoDraft]
  /\ UNCHANGED <<ledger, clock>>

\* LedgerError: the gateway refuses, does not answer in time, or answers
\* without a transaction id.  It may have accepted the hash all the same.
SubmitFails(s) ==
  /\ Provider = "fabric"
  /\ Sealing(s)
  /\ gateway' \in {gateway, gateway \cup {draft[s].hash}}
  /\ Discard(s)

\* The caller commits; a transaction without rows leaves no trace here.
Commit(s) ==
  /\ ~Sealing(s)
  /\ pending[s] # {}
  /\ clock' = clock + 1
  /\ ledger' = ledger \cup {Durable(r, clock + 1) : r \in pending[s]}
  /\ pending' = [pending EXCEPT ![s] = {}]
  /\ UNCHANGED <<draft, gateway>>

\* The caller fails for a reason of its own, or the process dies.
Abort(s) ==
  /\ Sealing(s) \/ pending[s] # {}
  /\ Discard(s)
  /\ UNCHANGED gateway

\* Code outside the ledger takes a timestamp.
Tick ==
  /\ clock < MaxClock
  /\ clock' = clock + 1
  /\ UNCHANGED <<ledger, pending, draft, gateway>>

Next ==
  \/ \E s \in Session :
       \/ Seal(s)
       \/ \E b \in Body : Record(s, b)
       \/ SubmitFails(s)
       \/ Commit(s)
       \/ Abort(s)
  \/ Tick

Spec == Init /\ [][Next]_vars

-----------------------------------------------------------------------------
(* Properties *)

\* No record of the ledger hangs from a record that was rolled back or that
\* is younger than itself: following previous_hash from any committed row
\* leads, through committed rows only, back to a first record (ledger.py
\* reads the previous row before the fate of other sessions is known).
LinksResolve ==
  \A r \in ledger :
    r.prev = Genesis \/ \E p \in ledger : p.hash = r.prev /\ p.at < r.hash

\* Were the transactions of these two rows open at the same time?
Overlap(r, q) == r.done # q.done /\ r.hash <= q.done /\ q.hash <= r.done

\* Two records share a predecessor only when the requests that wrote them
\* overlapped: a request that starts after another has committed never
\* forks the chain behind it, and no request forks the chain with itself.
ForkOnlyByOverlap ==
  \A r, q \in ledger : r # q /\ r.prev = q.prev => Overlap(r, q)

\* The chain is what verify_chain expects: every record carries the hash of
\* the record created just before it (verify and verify_chain).
ChainIntact == \A r \in ledger : Linked(r, ledger)

\* With the Fabric provider every committed row has been accepted by the
\* gateway: record() never falls back to a local row (_submit).
GatewayBacksLedger ==
  Provider = "fabric" => {r.hash : r \in ledger} \subseteq gateway

\* What was committed before the first two requests overlapped.
Unforked ==
  {r \in ledger : \A p, q \in ledger :
                    p.done <= r.done /\ q.done <= r.done => ~Overlap(p, q)}

\* Until two requests overlap, whatever rollbacks, gateway failures and
\* crashes lie between their commits, the committed ledger is the append-only
\* chain that the architecture document promises; and what overlaps later
\* leaves that chain as it is.
Chain == INSTANCE AppendOnlyChain WITH chain <- Unforked
ChainUntilOverlap == Chain!ChainSpec

-----------------------------------------------------------------------------
(* The inductive invariant behind these properties *)

\* The rows a statement of session s sees.
Visible(s) == ledger \cup pending[s]

\* A record is hashed, then created, then committed, at growing ticks.
TicksGrow ==
  /\ \A r \in ledger :
       Genesis < r.hash /\ r.hash < r.at /\ r.at < r.done /\ r.done <= clock
  /\ \A s \in Session : \A r \in pending[s] :
       Genesis < r.hash /\ r.hash < r.at /\ r.at <= clock
  /\ \A s \in Session :
       Sealing(s) => Genesis < draft[s].hash /\ draft[s].hash <= clock

\* record_hash and created_at identify a row.
SameName(r, q) == r.hash = q.hash \/ r.at = q.at
NamesUnique ==
  /\ \A r, q \in ledger : SameName(r, q) => r = q
  /\ \A s \in Session : \A r \in pending[s], q \in ledger : ~SameName(r, q)
  /\ \A s, t \in Session : \A r \in pending[s], q \in pending[t] :
       SameName(r, q) => r = q /\ s = t
  /\ \A s \in Session : Sealing(s) =>
       /\ \A q \in ledger : q.hash # draft[s].hash
       /\ \A t \in Session : \A q \in pending[t] : q.hash # draft[s].hash
       /\ \A t \in Session : draft[t].hash = draft[s].hash => t = s

\* The row that d links to is among rows, and was created before d.
Resolves(d, rows) ==
  d.prev = Genesis \/ \E p \in rows : p.hash = d.prev /\ p.at < d.hash
LinksResolveInside ==
  /\ \A r \in ledger : Resolves(r, ledger)
  /\ \A s \in Session : \A r \in pending[s] : Resolves(r, Visible(s))
  /\ \A s \in Session : Sealing(s) => Resolves(draft[s], Visible(s))

\* The row that d links to is at least as new as q.
ReachesPast(d, q, rows) == \E p \in rows : p.hash = d.prev /\ q.at <= p.at

\* A record links at or after everything committed, or flushed by its own
\* transaction, before it was hashed.
LinksNewestSeen ==
  /\ \A r, q \in ledger :
       q.done < r.hash \/ (q.done = r.done /\ q.at < r.hash)
         => ReachesPast(r, q, ledger)
  /\ \A s \in Session : \A r \in pending[s] :
       /\ \A q \in ledger : q.done < r.hash => ReachesPast(r, q, Visible(s))
       /\ \A q \in pending[s] : q.at < r.hash => ReachesPast(r, q, Visible(s))
  /\ \A s \in Session : Sealing(s) =>
       /\ \A q \in ledger :
            q.done < draft[s].hash => ReachesPast(draft[s], q, Visible(s))
       /\ \A q \in pending[s] : ReachesPast(draft[s], q, Visible(s))

\* The record() calls of one transaction come one after the other.
InTurn(r, q) == r.at < q.hash \/ q.at < r.hash
RecordsTakeTurns ==
  /\ \A r, q \in ledger : r # q /\ r.done = q.done => InTurn(r, q)
  /\ \A s \in Session : \A r, q \in pending[s] : r # q => InTurn(r, q)
  /\ \A s \in Session : Sealing(s) => \A r \in pending[s] : r.at < draft[s].hash

LedgerInv ==
  /\ TypeOK
  /\ TicksGrow
  /\ NamesUnique
  /\ LinksResolveInside
  /\ LinksNewestSeen
  /\ RecordsTakeTurns

\* A record links to what was committed before it was hashed, or to a record
\* of its own transaction.
LinksSettled ==
  /\ \A r, p \in ledger : p.hash = r.prev => p.done < r.hash \/ p.done = r.done
  /\ \A s \in Session : \A r \in pending[s], p \in ledger :
       p.hash = r.prev => p.done < r.hash
  /\ \A s \in Session : Sealing(s) =>
       \A p \in ledger : p.hash = draft[s].prev => p.done < draft[s].hash

\* What is flushed has been accepted by the gateway before.
GatewayInv ==
  Provider = "fabric" =>
    /\ \A r \in ledger : r.hash \in gateway
    /\ \A s \in Session : \A r \in pending[s] : r.hash \in gateway
=============================================================================
