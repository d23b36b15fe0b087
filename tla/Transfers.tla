------------------------------ MODULE Transfers ------------------------------
(***************************************************************************)
(* TransferService (backend/app/transfers.py): evidence is handed over by  *)
(* a transfer that its recipient accepts, or that either side rejects.     *)
(*                                                                         *)
(* accept() and reject() read the status, change it and seal the change,   *)
(* all in one transaction, but no lock is held between the read and the    *)
(* change.  The UPDATE names the row by its id only: under READ COMMITTED  *)
(* it waits for another request that has changed the row and then goes     *)
(* ahead, whatever that request has made of the status.                    *)
(*                                                                         *)
(* The documents that are transferred have a version, and the recipients   *)
(* are active.  The order of the ledger is the subject of AuditLedger; a   *)
(* ledger row here is what it is about, and the ticks at which its request *)
(* read the transfer and committed.                                        *)
(***************************************************************************)
EXTENDS Naturals

CONSTANTS
  Session,    \* concurrent requests
  Transfer,   \* transfer ids
  User,
  Admin,      \* users with the role admin
  MaxClock    \* bound: no request begins after this many ticks

ASSUME AdminAssumption == Admin \subseteq User
ASSUME MaxClockAssumption == MaxClock \in Nat

VARIABLES
  transfers,   \* document_transfers, by id
  grants,      \* rows of authorized_access with purpose "transfer <id>"
  ledger,      \* audit records about transfers
  job,         \* what each request is doing
  clock        \* ticks of the requests' beginnings and commits

vars == <<transfers, grants, ledger, job, clock>>

NoTransfer == [status |-> "none"]
Row == [status : {"pending", "accepted", "rejected"}, from : User, to : User]
Event == {"document_transferred", "transfer_accepted", "transfer_rejected"}
Record == [transfer : Transfer, event : Event, begun : Nat, done : Nat]
Grant == [transfer : Transfer, begun : Nat]

\* row is what the request makes of the transfer, fresh whether it adds a grant.
Idle == [pc |-> "idle"]
Job == [pc : {"read", "changing", "flushed", "sealed"}, transfer : Transfer,
        row : Row, event : Event, begun : Nat, fresh : BOOLEAN]

TypeOK ==
  /\ transfers \in [Transfer -> Row \cup {NoTransfer}]
  /\ grants \subseteq Grant
  /\ ledger \subseteq Record
  /\ job \in [Session -> Job \cup {Idle}]
  /\ clock \in Nat

-----------------------------------------------------------------------------
At(s, points) == job[s].pc \in points
Status(t) == transfers[t].status
Granted(t) == \E g \in grants : g.transfer = t

\* Does another request hold the lock on the row of the transfer?
RowHeld(s) == \E o \in Session \ {s} :
  At(o, {"flushed", "sealed"}) /\ job[o].transfer = job[s].transfer

Begin(s, pc, t, row, event) ==
  /\ At(s, {"idle"})
  /\ clock < MaxClock
  /\ clock' = clock + 1
  /\ job' = [job EXCEPT ![s] = [pc |-> pc, transfer |-> t, row |-> row,
               event |-> event, begun |-> clock + 1, fresh |-> FALSE]]
  /\ UNCHANGED <<transfers, grants, ledger>>

Leave(s) == job' = [job EXCEPT ![s] = Idle]

Init ==
  /\ transfers = [t \in Transfer |-> NoTransfer]
  /\ grants = {}
  /\ ledger = {}
  /\ job = [s \in Session |-> Idle]
  /\ clock = 0

\* create(): a transfer gets a fresh id.
Create(s, t, from, to) ==
  /\ from # to
  /\ Status(t) = "none"
  /\ \A o \in Session : ~At(o, {"idle"}) => job[o].transfer # t
  /\ Begin(s, "changing", t, [status |-> "pending", from |-> from, to |-> to],
           "document_transferred")

\* accept() by user u reads the transfer ...
Accept(s, t, u) ==
  /\ Status(t) = "pending"
  /\ u \in {transfers[t].to} \cup Admin
  /\ Begin(s, "read", t, [transfers[t] EXCEPT !.status = "accepted"], "transfer_accepted")

\* Mutant of FindGrant: any grant will do, whatever its purpose.
FindAnyGrant(s) ==
  /\ At(s, {"read"})
  /\ job' = [job EXCEPT ![s].pc = "changing", ![s].fresh = grants = {}]
  /\ UNCHANGED <<transfers, grants, ledger, clock>>

\* ... and then looks for the grant that it would otherwise add.
FindGrant(s) ==
  /\ At(s, {"read"})
  /\ job' = [job EXCEPT ![s].pc = "changing", ![s].fresh = ~Granted(job[s].transfer)]
  /\ UNCHANGED <<transfers, grants, ledger, clock>>

\* reject() by user u.
Reject(s, t, u) ==
  /\ Status(t) = "pending"
  /\ u \in {transfers[t].from, transfers[t].to} \cup Admin
  /\ Begin(s, "changing", t, [transfers[t] EXCEPT !.status = "rejected"], "transfer_rejected")

\* The change is flushed; the database locks the row until the commit.
Flush(s) ==
  /\ At(s, {"changing"})
  /\ ~RowHeld(s)
  /\ job' = [job EXCEPT ![s].pc = "flushed"]
  /\ UNCHANGED <<transfers, grants, ledger, clock>>

\* AuditLedger.record
Seal(s) ==
  /\ At(s, {"flushed"})
  /\ job' = [job EXCEPT ![s].pc = "sealed"]
  /\ UNCHANGED <<transfers, grants, ledger, clock>>

Commit(s) ==
  /\ At(s, {"sealed"})
  /\ LET j == job[s] IN
       /\ transfers' = [transfers EXCEPT ![j.transfer] = j.row]
       /\ grants' = IF j.fresh THEN grants \cup {[transfer |-> j.transfer, begun |-> j.begun]}
                               ELSE grants
       /\ ledger' = ledger \cup {[transfer |-> j.transfer, event |-> j.event,
                                  begun |-> j.begun, done |-> clock + 1]}
  /\ clock' = clock + 1
  /\ Leave(s)

\* LedgerError, which no handler catches, or another failure: rollback.
Abort(s) ==
  /\ ~At(s, {"idle"})
  /\ Leave(s)
  /\ UNCHANGED <<transfers, grants, ledger, clock>>

Next ==
  \E s \in Session :
    \/ \E t \in Transfer :
         \/ \E from, to \in User : Create(s, t, from, to)
         \/ \E u \in User : Accept(s, t, u) \/ Reject(s, t, u)
    \/ FindGrant(s)
    \/ Flush(s)
    \/ Seal(s)
    \/ Commit(s)
    \/ Abort(s)

Spec == Init /\ [][Next]_vars

-----------------------------------------------------------------------------
(* Properties *)

Decision == {"transfer_accepted", "transfer_rejected"}
Decisions(t) == {r \in ledger : r.transfer = t /\ r.event \in Decision}

\* The status of a transfer and the ledger agree however its decisions race:
\* the ledger has one request for it, a decision of it iff it is decided, and
\* among them one of the kind that its status tells.
StatusIsSealed ==
  \A t \in Transfer :
    /\ Status(t) # "none" =>
         \E r \in ledger : r.transfer = t /\ r.event = "document_transferred"
    /\ Status(t) \in {"none", "pending"} <=> Decisions(t) = {}
    /\ Status(t) = "accepted" => \E r \in Decisions(t) : r.event = "transfer_accepted"
    /\ Status(t) = "rejected" => \E r \in Decisions(t) : r.event = "transfer_rejected"

\* "acceptance is what actually creates the recipient's purpose-bound access
\* grant" (transfers.py:13): each grant was committed with a sealed acceptance,
\* and no acceptance was sealed without a grant being there.
GrantsFollowAcceptance ==
  /\ \A g \in grants : \E r \in ledger :
       r.event = "transfer_accepted" /\ r.transfer = g.transfer /\ r.begun = g.begun
  /\ \A r \in ledger : r.event = "transfer_accepted" => Granted(r.transfer)

\* A transfer is decided twice only by requests that were open at the same
\* time: after a decision is committed none begins (transfers.py:149, 205).
SecondDecisionOverlaps ==
  \A t \in Transfer : \A r, q \in Decisions(t) : r.begun < q.done

\* Was t decided more than once, and what was the first decision?
Contested(t) == \E r, q \in Decisions(t) : r # q
FirstDecision(t) ==
  IF \E r \in Decisions(t) :
       r.event = "transfer_accepted" /\ \A q \in Decisions(t) : r.done <= q.done
  THEN "accepted" ELSE "rejected"

\* Until requests that overlap decide a transfer twice, it is decided once and
\* gives access exactly with its acceptance; and the ledger goes on to tell
\* that first decision when a second one has changed the row.
Outcome == INSTANCE TransferOutcome WITH
  outcome <- [t \in Transfer |-> IF Contested(t) THEN FirstDecision(t) ELSE Status(t)],
  access <- {t \in Transfer : IF Contested(t) THEN FirstDecision(t) = "accepted"
                                              ELSE Granted(t)}
DecidedOnceUntilContested == Outcome!OutcomeSpec
-----------------------------------------------------------------------------
(* The inductive invariant behind these properties *)

Deciding(s) == ~At(s, {"idle"}) /\ job[s].event \in Decision

\* What a request is about to write agrees with what it is.
Writing ==
  [document_transferred |-> "pending", transfer_accepted |-> "accepted",
   transfer_rejected |-> "rejected"]
JobsConsistent ==
  \A s \in Session : ~At(s, {"idle"}) =>
    /\ job[s].row.status = Writing[job[s].event]
    /\ job[s].begun <= clock
    /\ job[s].event # "transfer_accepted" => ~job[s].fresh
    /\ At(s, {"read"}) => job[s].event = "transfer_accepted"

\* The id of a transfer that is being created is used by nobody else; one that
\* is being decided exists.
NewIdsFresh ==
  \A s \in Session :
    /\ ~At(s, {"idle"}) /\ ~Deciding(s) =>
         /\ Status(job[s].transfer) = "none"
         /\ \A o \in Session \ {s} : ~At(o, {"idle"}) => job[o].transfer # job[s].transfer
    /\ Deciding(s) => Status(job[s].transfer) # "none"

\* A request that does not add a grant has seen one, which stays.
GrantsSeen ==
  \A s \in Session :
    Deciding(s) /\ job[s].event = "transfer_accepted" /\ ~At(s, {"read"}) /\ ~job[s].fresh
      => Granted(job[s].transfer)

\* A request that decides has begun before any decision was committed.
DecisionsOpen ==
  /\ \A r \in ledger : r.begun < r.done /\ r.done <= clock
  /\ \A s \in Session : Deciding(s) =>
       \A r \in Decisions(job[s].transfer) : job[s].begun < r.done

TransferInv ==
  /\ TypeOK
  /\ JobsConsistent
  /\ NewIdsFresh
  /\ GrantsSeen
  /\ DecisionsOpen
  /\ StatusIsSealed
  /\ GrantsFollowAcceptance
  /\ SecondDecisionOverlaps
=============================================================================
