--------------------------- MODULE TransfersProofs ---------------------------
(***************************************************************************)
(* Theorems about Transfers, for any sets of sessions, transfers, users    *)
(* and administrators.                                                     *)
(***************************************************************************)
EXTENDS Transfers, TLAPS

Busy(s) == ~At(s, {"idle"})

\* A busy request has the fields of a job.
LEMMA JobFields ==
  ASSUME TypeOK, NEW s \in Session, Busy(s)
  PROVE  /\ job[s] \in Job
         /\ job[s].pc \in {"read", "changing", "flushed", "sealed"}
         /\ job[s].transfer \in Transfer /\ job[s].row \in Row /\ job[s].event \in Event
         /\ job[s].begun \in Nat /\ job[s].fresh \in BOOLEAN
<1>1. job[s] \in Job \cup {Idle} /\ job[s].pc # "idle"
  BY DEF TypeOK, Busy, At
<1>2. job[s] \in Job
  BY <1>1 DEF Idle
<1> QED
  BY <1>2 DEF Job

\* Records and grants have numbers for ticks.
LEMMA RowFields ==
  ASSUME TypeOK
  PROVE  /\ \A r \in ledger : r.transfer \in Transfer /\ r.begun \in Nat /\ r.done \in Nat
         /\ \A g \in grants : g.transfer \in Transfer
         /\ clock \in Nat
  BY DEF TypeOK, Record, Grant

\* A new request is consistent with what it has read.
LEMMA BeginKeeps ==
  ASSUME TransferInv, NEW s \in Session, NEW pc \in {"read", "changing"},
         NEW t \in Transfer, NEW row \in Row, NEW event \in Event,
         Begin(s, pc, t, row, event),
         row.status = Writing[event],
         event = "transfer_accepted" <=> pc = "read",
         event \in Decision => Status(t) = "pending",
         event \notin Decision =>
           /\ Status(t) = "none"
           /\ \A o \in Session : ~At(o, {"idle"}) => job[o].transfer # t
  PROVE  TransferInv'
<1> DEFINE new == [pc |-> pc, transfer |-> t, row |-> row, event |-> event,
                   begun |-> clock + 1, fresh |-> FALSE]
<1>1. /\ job' = [job EXCEPT ![s] = new]
      /\ clock' = clock + 1
      /\ UNCHANGED <<transfers, grants, ledger>>
  BY DEF Begin
<1>2. TypeOK
  BY DEF TransferInv
<1>3. clock \in Nat /\ clock' \in Nat
  BY <1>1, <1>2 DEF TypeOK
<1>4. new \in Job
  BY <1>3 DEF Job
<1>5. TypeOK'
  BY <1>1, <1>2, <1>3, <1>4 DEF TypeOK
<1>6. /\ job'[s] = new
      /\ \A o \in Session : o # s => job'[o] = job[o]
      /\ \A o \in Session : Busy(o) => job[o].begun \in Nat
  BY <1>1, <1>2, JobFields DEF TypeOK
<1>7. JobsConsistent'
  BY <1>1, <1>3, <1>6 DEF TransferInv, JobsConsistent, At, Busy, Writing, Event
<1>8. NewIdsFresh'
  <2>1. \A u \in Transfer : Status(u)' = Status(u)
    BY <1>1 DEF Status
  <2>2. \A o \in Session : Busy(o) => job[o].transfer \in Transfer
    BY <1>2, JobFields
  <2>3. \A o \in Session : o # s => (Busy(o)' <=> Busy(o)) /\ (Deciding(o)' <=> Deciding(o))
    BY <1>6 DEF Busy, Deciding, At
  <2>4. ASSUME NEW o \in Session, Busy(o)', ~Deciding(o)'
        PROVE  /\ Status(job[o].transfer)' = "none"
               /\ \A p \in Session \ {o} : Busy(p)' => job'[p].transfer # job'[o].transfer
    <3>1. CASE o = s
      BY <1>6, <2>1, <2>3, <2>4, <3>1 DEF Deciding, At, Busy
    <3>2. CASE o # s
      <4>1. Busy(o) /\ ~Deciding(o) /\ job[o].transfer \in Transfer
        BY <2>2, <2>3, <2>4, <3>2
      <4>2. /\ Status(job[o].transfer) = "none"
            /\ \A p \in Session \ {o} : Busy(p) => job[p].transfer # job[o].transfer
        BY <4>1 DEF TransferInv, NewIdsFresh, Busy
      <4>3. job[o].transfer # t
        BY <4>1, <4>2 DEF Busy
      <4> QED
        BY <1>6, <2>1, <2>3, <3>2, <4>1, <4>2, <4>3
    <3> QED
      BY <3>1, <3>2
  <2>5. ASSUME NEW o \in Session, Deciding(o)'
        PROVE  Status(job[o].transfer)' # "none"
    BY <1>6, <2>1, <2>2, <2>3, <2>5 DEF TransferInv, NewIdsFresh, Deciding, At, Busy
  <2> QED
    BY <2>4, <2>5 DEF NewIdsFresh, Busy
<1>9. GrantsSeen'
  BY <1>1, <1>6 DEF TransferInv, GrantsSeen, Deciding, At, Granted
<1>10. DecisionsOpen'
  <2>1. \A r \in ledger : r.begun < r.done /\ r.done <= clock
    BY DEF TransferInv, DecisionsOpen
  <2>2. \A u : Decisions(u)' = Decisions(u)
    BY <1>1 DEF Decisions
  <2>3. event \in Decision => Decisions(t) = {}
    BY DEF TransferInv, StatusIsSealed
  <2> QED
    BY <1>1, <1>2, <1>3, <1>6, <2>1, <2>2, <2>3, RowFields
       DEF TransferInv, DecisionsOpen, Deciding, At
<1>11. StatusIsSealed' /\ GrantsFollowAcceptance' /\ SecondDecisionOverlaps'
  BY <1>1 DEF TransferInv, StatusIsSealed, GrantsFollowAcceptance, SecondDecisionOverlaps,
              Status, Decisions, Granted
<1> QED
  BY <1>5, <1>7, <1>8, <1>9, <1>10, <1>11 DEF TransferInv

\* A request that moves on without a commit keeps the invariant.
LEMMA MoveKeeps ==
  ASSUME TransferInv, NEW s \in Session, FindGrant(s) \/ Flush(s) \/ Seal(s)
  PROVE  TransferInv'
<1>1. TypeOK /\ Busy(s) /\ UNCHANGED <<transfers, grants, ledger, clock>>
  BY DEF TransferInv, FindGrant, Flush, Seal, Busy, At
<1>2. job[s] \in Job
  BY <1>1, JobFields
<1>3. PICK new \in Job :
        /\ job' = [job EXCEPT ![s] = new]
        /\ new.pc # "read"
        /\ new.transfer = job[s].transfer /\ new.row = job[s].row
        /\ new.event = job[s].event /\ new.begun = job[s].begun
        /\ new.event # "transfer_accepted" => ~new.fresh
        /\ ~new.fresh => Granted(job[s].transfer) \/ (~At(s, {"read"}) /\ ~job[s].fresh)
  <2>1. CASE FindGrant(s)
    <3> DEFINE new == [job[s] EXCEPT !.pc = "changing", !.fresh = ~Granted(job[s].transfer)]
    <3>1. job' = [job EXCEPT ![s] = new] /\ job[s].pc = "read"
      BY <2>1 DEF FindGrant, At
    <3>2. new \in Job
      BY <1>2 DEF Job
    <3>3. job[s].event = "transfer_accepted"
      BY <1>1, <3>1 DEF TransferInv, JobsConsistent, At, Busy
    <3>4. ~new.fresh => Granted(job[s].transfer)
      BY <1>2 DEF Job
    <3> QED
      BY <1>2, <3>1, <3>2, <3>3, <3>4 DEF Job
  <2>2. CASE Flush(s) \/ Seal(s)
    <3>1. PICK pc \in {"flushed", "sealed"} : job' = [job EXCEPT ![s].pc = pc]
      BY <2>2 DEF Flush, Seal
    <3> DEFINE new == [job[s] EXCEPT !.pc = pc]
    <3>2. job' = [job EXCEPT ![s] = new] /\ ~At(s, {"read"})
      BY <2>2, <3>1 DEF Flush, Seal, At
    <3>3. new \in Job /\ new.fresh = job[s].fresh
      BY <1>2 DEF Job
    <3>4. job[s].event # "transfer_accepted" => ~job[s].fresh
      BY <1>1 DEF TransferInv, JobsConsistent, Busy
    <3> QED
      BY <1>2, <3>2, <3>3, <3>4 DEF Job
  <2> QED
    BY <2>1, <2>2
<1>4. /\ job'[s] = new /\ new.pc # "idle"
      /\ \A o \in Session : o # s => job'[o] = job[o]
      /\ TypeOK'
  BY <1>1, <1>3 DEF TypeOK, Job
<1>5. /\ \A o \in Session : Busy(o)' <=> Busy(o)
      /\ \A o \in Session : Deciding(o)' <=> Deciding(o)
      /\ \A o \in Session : /\ job'[o].transfer = job[o].transfer
                            /\ job'[o].row = job[o].row
                            /\ job'[o].event = job[o].event
                            /\ job'[o].begun = job[o].begun
  BY <1>1, <1>3, <1>4 DEF Busy, Deciding, At
<1>6. JobsConsistent'
  BY <1>1, <1>3, <1>4, <1>5 DEF TransferInv, JobsConsistent, At, Busy
<1>7. NewIdsFresh'
  BY <1>1, <1>5 DEF TransferInv, NewIdsFresh, Busy, Status
<1>8. GrantsSeen'
  BY <1>1, <1>3, <1>4, <1>5 DEF TransferInv, GrantsSeen, At, Granted
<1>9. DecisionsOpen'
  BY <1>1, <1>5 DEF TransferInv, DecisionsOpen, Decisions
<1>10. StatusIsSealed' /\ GrantsFollowAcceptance' /\ SecondDecisionOverlaps'
  BY <1>1 DEF TransferInv, StatusIsSealed, GrantsFollowAcceptance, SecondDecisionOverlaps,
              Status, Decisions, Granted
<1> QED
  BY <1>4, <1>6, <1>7, <1>8, <1>9, <1>10 DEF TransferInv

\* What a request leaves behind: it is idle, the others go on.
LEMMA LeaveFields ==
  ASSUME TypeOK, NEW s \in Session, Leave(s)
  PROVE  /\ job' \in [Session -> Job \cup {Idle}]
         /\ ~Busy(s)' /\ ~Deciding(s)'
         /\ \A o \in Session : Busy(o)' => o # s /\ Busy(o)
         /\ \A o \in Session : o # s => job'[o] = job[o] /\ (Deciding(o)' <=> Deciding(o))
  BY DEF Leave, TypeOK, Idle, Busy, Deciding, At

LEMMA AbortKeeps ==
  ASSUME TransferInv, NEW s \in Session, Abort(s)
  PROVE  TransferInv'
<1>1. TypeOK /\ Leave(s) /\ UNCHANGED <<transfers, grants, ledger, clock>>
  BY DEF TransferInv, Abort
<1>2. TypeOK'
  BY <1>1, LeaveFields DEF TypeOK
<1>3. JobsConsistent' /\ NewIdsFresh'
  BY <1>1, LeaveFields DEF TransferInv, JobsConsistent, NewIdsFresh, Busy, At, Status
<1>4. GrantsSeen' /\ DecisionsOpen'
  BY <1>1, LeaveFields DEF TransferInv, GrantsSeen, DecisionsOpen, At, Granted, Decisions
<1>5. StatusIsSealed' /\ GrantsFollowAcceptance' /\ SecondDecisionOverlaps'
  BY <1>1 DEF TransferInv, StatusIsSealed, GrantsFollowAcceptance, SecondDecisionOverlaps,
              Status, Decisions, Granted
<1> QED
  BY <1>2, <1>3, <1>4, <1>5 DEF TransferInv

\* A request that commits writes one record, one status and at most a grant.
LEMMA CommitKeeps ==
  ASSUME TransferInv, NEW s \in Session, Commit(s)
  PROVE  TransferInv'
<1>0. TypeOK /\ Busy(s)
  BY DEF TransferInv, Commit, Busy, At
<1> PICK t \in Transfer, row \in Row, event \in Event, begun \in Nat, fresh \in BOOLEAN :
      /\ job[s].transfer = t /\ job[s].row = row /\ job[s].event = event
      /\ job[s].begun = begun /\ job[s].fresh = fresh
  BY <1>0, JobFields
<1> PICK now \in Nat : now = clock + 1
  BY <1>0, RowFields
<1> DEFINE rec == [transfer |-> t, event |-> event, begun |-> begun, done |-> now]
           grant == [transfer |-> t, begun |-> begun]
<1>1. TypeOK /\ Busy(s) /\ Leave(s) /\ ~At(s, {"read"})
  BY DEF TransferInv, Commit, Busy, At
<1>2. /\ transfers' = [transfers EXCEPT ![t] = row]
      /\ grants' = IF fresh THEN grants \cup {grant} ELSE grants
      /\ ledger' = ledger \cup {rec}
      /\ clock' = now
  BY DEF Commit
<1>3. clock \in Nat
  BY <1>1 DEF TypeOK
<1>4. rec \in Record /\ grant \in Grant
  BY <1>3 DEF Record, Grant
<1>5. TypeOK'
  BY <1>1, <1>2, <1>3, <1>4, LeaveFields DEF TypeOK
<1>6. /\ row.status = Writing[event]
      /\ begun <= clock
      /\ event # "transfer_accepted" => ~fresh
  BY <1>1 DEF TransferInv, JobsConsistent, Busy
<1>7. /\ Status(t)' = Writing[event]
      /\ \A u \in Transfer : u # t => Status(u)' = Status(u)
  BY <1>1, <1>2, <1>3, <1>6 DEF Status, TypeOK
<1>8. /\ \A u : u # t => Decisions(u)' = Decisions(u)
      /\ event \in Decision => Decisions(t)' = Decisions(t) \cup {rec}
      /\ event \notin Decision => Decisions(t)' = Decisions(t)
  BY <1>2 DEF Decisions
<1>9. JobsConsistent'
  BY <1>1, <1>2, <1>3, LeaveFields, JobFields DEF TransferInv, JobsConsistent, Busy, At
<1>10. NewIdsFresh'
  <2>1. ASSUME NEW o \in Session, Busy(o)', ~Deciding(o)'
        PROVE  /\ Status(job[o].transfer)' = "none"
               /\ \A p \in Session \ {o} : Busy(p)' => job'[p].transfer # job'[o].transfer
    <3>1. o # s /\ Busy(o) /\ ~Deciding(o) /\ job'[o] = job[o]
      BY <1>1, <2>1, LeaveFields
    <3>2. /\ Status(job[o].transfer) = "none"
          /\ \A p \in Session \ {o} : Busy(p) => job[p].transfer # job[o].transfer
      BY <3>1 DEF TransferInv, NewIdsFresh, Busy
    <3>3. job[o].transfer \in Transfer /\ job[o].transfer # t
      BY <1>1, <3>1, <3>2, JobFields
    <3> QED
      BY <1>1, <1>7, <3>1, <3>2, <3>3, LeaveFields
  <2>2. ASSUME NEW o \in Session, Deciding(o)'
        PROVE  Status(job[o].transfer)' # "none"
    <3>1. o # s /\ Deciding(o) /\ job'[o] = job[o] /\ Busy(o)
      BY <1>1, <2>2, LeaveFields DEF Deciding, Busy
    <3>2. Status(job[o].transfer) # "none" /\ job[o].transfer \in Transfer
      BY <1>1, <3>1, JobFields DEF TransferInv, NewIdsFresh
    <3>3. Writing[event] # "none"
      BY <1>3 DEF Writing, Event
    <3> QED
      BY <1>7, <3>1, <3>2, <3>3
  <2> QED
    BY <2>1, <2>2 DEF NewIdsFresh, Busy
<1>11. GrantsSeen'
  <2>1. \A u : Granted(u) => Granted(u)'
    BY <1>2 DEF Granted
  <2> QED
    BY <1>1, <2>1, LeaveFields DEF TransferInv, GrantsSeen, At
<1>12. DecisionsOpen'
  <2>1. \A r \in ledger' : r.begun < r.done /\ r.done <= clock'
    BY <1>1, <1>2, <1>3, <1>6, RowFields DEF TransferInv, DecisionsOpen
  <2>2. ASSUME NEW o \in Session, Deciding(o)', NEW r \in Decisions(job[o].transfer)'
        PROVE  job'[o].begun < r.done
    <3>1. o # s /\ Deciding(o) /\ job'[o] = job[o] /\ Busy(o)
      BY <1>1, <2>2, LeaveFields DEF Deciding, Busy
    <3>2. job[o].begun \in Nat /\ job[o].begun <= clock
      BY <1>1, <3>1, JobFields DEF TransferInv, JobsConsistent, Busy
    <3>3. r \in Decisions(job[o].transfer) \/ r = rec
      BY <1>8, <2>2, <3>1
    <3> QED
      BY <1>3, <3>1, <3>2, <3>3 DEF TransferInv, DecisionsOpen
  <2> QED
    BY <2>1, <2>2 DEF DecisionsOpen
<1>13. StatusIsSealed'
  <2>1. ASSUME NEW u \in Transfer, u # t
        PROVE  /\ Status(u)' # "none" =>
                    \E r \in ledger' : r.transfer = u /\ r.event = "document_transferred"
               /\ Status(u)' \in {"none", "pending"} <=> Decisions(u)' = {}
               /\ Status(u)' = "accepted" => \E r \in Decisions(u)' : r.event = "transfer_accepted"
               /\ Status(u)' = "rejected" => \E r \in Decisions(u)' : r.event = "transfer_rejected"
    BY <1>2, <1>7, <1>8, <2>1 DEF TransferInv, StatusIsSealed
  <2>2. CASE event \in Decision
    <3>1. Status(t) # "none"
      BY <1>1, <2>2 DEF TransferInv, NewIdsFresh, Deciding, Busy
    <3>2. rec \in Decisions(t)' /\ rec.event = event
      BY <1>8, <2>2
    <3>3. \E r \in ledger' : r.transfer = t /\ r.event = "document_transferred"
      BY <1>2, <1>3, <3>1 DEF TransferInv, StatusIsSealed
    <3> QED
      BY <1>7, <2>1, <2>2, <3>2, <3>3 DEF StatusIsSealed, Writing, Decision
  <2>3. CASE event \notin Decision
    <3>1. Status(t) = "none" /\ event = "document_transferred"
      BY <1>1, <1>3, <2>3 DEF TransferInv, NewIdsFresh, Deciding, Busy, Decision, Event
    <3>2. Decisions(t)' = {}
      BY <1>3, <1>8, <2>3, <3>1 DEF TransferInv, StatusIsSealed
    <3>3. rec \in ledger' /\ rec.transfer = t /\ rec.event = "document_transferred"
      BY <1>2, <3>1
    <3> QED
      BY <1>7, <2>1, <3>1, <3>2, <3>3 DEF StatusIsSealed, Writing
  <2> QED
    BY <2>2, <2>3
<1>14. GrantsFollowAcceptance'
  <2>1. fresh => event = "transfer_accepted"
    BY <1>6
  <2>2. event = "transfer_accepted" => Granted(t)'
    <3>1. CASE fresh
      <4>1. grant \in grants' /\ grant.transfer = t
        BY <1>2, <3>1
      <4> QED
        BY <4>1 DEF Granted
    <3>2. CASE ~fresh /\ event = "transfer_accepted"
      <4>1. Granted(t)
        BY <1>1, <3>2 DEF TransferInv, GrantsSeen, Deciding, Busy, Decision
      <4> QED
        BY <1>2, <4>1 DEF Granted
    <3> QED
      BY <3>1, <3>2
  <2>3. ASSUME NEW g \in grants'
        PROVE  \E r \in ledger' : /\ r.event = "transfer_accepted"
                                  /\ r.transfer = g.transfer /\ r.begun = g.begun
    <3>1. CASE g \in grants
      BY <1>2, <3>1 DEF TransferInv, GrantsFollowAcceptance
    <3>2. CASE fresh /\ g = grant
      <4>1. rec \in ledger' /\ rec.event = "transfer_accepted"
        BY <1>2, <2>1, <3>2
      <4> QED
        BY <3>2, <4>1
    <3> QED
      BY <1>2, <2>3, <3>1, <3>2
  <2>4. ASSUME NEW r \in ledger', r.event = "transfer_accepted"
        PROVE  Granted(r.transfer)'
    <3>1. CASE r \in ledger
      BY <1>2, <2>4, <3>1 DEF TransferInv, GrantsFollowAcceptance, Granted
    <3>2. CASE r = rec
      BY <2>2, <2>4, <3>2
    <3> QED
      BY <1>2, <2>4, <3>1, <3>2
  <2> QED
    BY <2>3, <2>4 DEF GrantsFollowAcceptance
<1>15. SecondDecisionOverlaps'
  <2>1. ASSUME NEW u \in Transfer, NEW r \in Decisions(u)', NEW q \in Decisions(u)'
        PROVE  r.begun < q.done
    <3>1. CASE r \in Decisions(u) /\ q \in Decisions(u)
      BY <3>1 DEF TransferInv, SecondDecisionOverlaps
    <3>2. CASE q = rec
      <4>1. r = rec \/ r \in ledger
        BY <1>2, <2>1 DEF Decisions
      <4> QED
        BY <1>1, <1>3, <1>6, <3>2, <4>1, RowFields DEF TransferInv, DecisionsOpen
    <3>3. CASE r = rec /\ q # rec
      <4>1. u = t /\ event \in Decision /\ q \in Decisions(t)
        BY <1>2, <2>1, <3>3 DEF Decisions
      <4> QED
        BY <1>1, <3>3, <4>1 DEF TransferInv, DecisionsOpen, Deciding, Busy
    <3> QED
      BY <1>2, <2>1, <3>1, <3>2, <3>3 DEF Decisions
  <2> QED
    BY <2>1 DEF SecondDecisionOverlaps
<1> QED
  BY <1>5, <1>9, <1>10, <1>11, <1>12, <1>13, <1>14, <1>15 DEF TransferInv

LEMMA InitHolds == Init => TransferInv
  BY DEF Init, TransferInv, TypeOK, JobsConsistent, NewIdsFresh, GrantsSeen, DecisionsOpen,
         StatusIsSealed, GrantsFollowAcceptance, SecondDecisionOverlaps, Status, Decisions,
         Deciding, At, Idle, NoTransfer

LEMMA TransferStep == TransferInv /\ [Next]_vars => TransferInv'
<1> SUFFICES ASSUME TransferInv, [Next]_vars PROVE TransferInv'
  OBVIOUS
<1>0. \A t \in Transfer : Status(t) = "pending" => transfers[t] \in Row
  BY DEF TransferInv, TypeOK, Status, NoTransfer
<1>1. ASSUME NEW s \in Session, NEW t \in Transfer, NEW from \in User, NEW to \in User,
             Create(s, t, from, to)
      PROVE  TransferInv'
  <2>1. [status |-> "pending", from |-> from, to |-> to] \in Row
    BY DEF Row
  <2> QED
    BY <1>1, <2>1, BeginKeeps DEF Create, Event, Decision, Writing
<1>2. ASSUME NEW s \in Session, NEW t \in Transfer, NEW u \in User, Accept(s, t, u)
      PROVE  TransferInv'
  <2> DEFINE row == [transfers[t] EXCEPT !.status = "accepted"]
  <2>1. row \in Row /\ row.status = "accepted"
    BY <1>0, <1>2 DEF Accept, Row
  <2> HIDE DEF row
  <2> QED
    BY <1>2, <2>1, BeginKeeps DEF Accept, Event, Decision, Writing, row
<1>3. ASSUME NEW s \in Session, NEW t \in Transfer, NEW u \in User, Reject(s, t, u)
      PROVE  TransferInv'
  <2> DEFINE row == [transfers[t] EXCEPT !.status = "rejected"]
  <2>1. row \in Row /\ row.status = "rejected"
    BY <1>0, <1>3 DEF Reject, Row
  <2> HIDE DEF row
  <2> QED
    BY <1>3, <2>1, BeginKeeps DEF Reject, Event, Decision, Writing, row
<1>4. CASE UNCHANGED vars
  BY <1>4 DEF vars, TransferInv, TypeOK, JobsConsistent, NewIdsFresh, GrantsSeen,
              DecisionsOpen, StatusIsSealed, GrantsFollowAcceptance, SecondDecisionOverlaps,
              Status, Decisions, Deciding, At, Granted
<1> QED
  BY <1>1, <1>2, <1>3, <1>4, MoveKeeps, AbortKeeps, CommitKeeps DEF Next

\* The inductive invariant holds.
THEOREM TransferInvariant == Spec => []TransferInv
  BY InitHolds, TransferStep, PTL DEF Spec

\* Every variable has its type.
THEOREM TransferTypes == Spec => []TypeOK
<1>1. TransferInv => TypeOK
  BY DEF TransferInv
<1> QED
  BY <1>1, TransferInvariant, PTL

\* The status of every transfer is the one the ledger tells.
THEOREM StatusAlwaysSealed == Spec => []StatusIsSealed
<1>1. TransferInv => StatusIsSealed
  BY DEF TransferInv
<1> QED
  BY <1>1, TransferInvariant, PTL

\* Access and sealed acceptances come together.
THEOREM GrantsAlwaysFollow == Spec => []GrantsFollowAcceptance
<1>1. TransferInv => GrantsFollowAcceptance
  BY DEF TransferInv
<1> QED
  BY <1>1, TransferInvariant, PTL

\* A second decision needs a request that overlaps the first.
THEOREM SecondDecisionsOverlap == Spec => []SecondDecisionOverlaps
<1>1. TransferInv => SecondDecisionOverlaps
  BY DEF TransferInv
<1> QED
  BY <1>1, TransferInvariant, PTL

\* What TransferOutcome sees of a transfer.
Told(t) == IF Contested(t) THEN FirstDecision(t) ELSE Status(t)
Access(t) == IF Contested(t) THEN FirstDecision(t) = "accepted" ELSE Granted(t)

\* A transfer with a single decision has the status that this decision gives,
\* and has a grant iff it is accepted.
LEMMA SingleDecision ==
  ASSUME TransferInv, NEW t \in Transfer, NEW r \in Decisions(t),
         \A q \in Decisions(t) : q = r
  PROVE  /\ r.event = "transfer_accepted" => Status(t) = "accepted" /\ Granted(t)
         /\ r.event = "transfer_rejected" => Status(t) = "rejected" /\ ~Granted(t)
<1>1. Status(t) \in {"none", "pending", "accepted", "rejected"}
  BY DEF TransferInv, TypeOK, Row, NoTransfer, Status
<1>2. Status(t) \in {"accepted", "rejected"}
  BY <1>1 DEF TransferInv, StatusIsSealed
<1>3. /\ r.event = "transfer_accepted" => Status(t) = "accepted"
      /\ r.event = "transfer_rejected" => Status(t) = "rejected"
  BY <1>2 DEF TransferInv, StatusIsSealed
<1>4. Granted(t) <=> r.event = "transfer_accepted"
  BY DEF TransferInv, GrantsFollowAcceptance, Granted, Decisions, Decision
<1> QED
  BY <1>3, <1>4

\* A commit is one decision of TransferOutcome, or the second one of a
\* transfer, which TransferOutcome does not see.
LEMMA CommitDecides ==
  ASSUME TransferInv, NEW s \in Session, Commit(s)
  PROVE  \/ \E t \in Transfer :
              /\ \A u \in Transfer : u # t => Told(u)' = Told(u) /\ (Access(u)' <=> Access(u))
              /\ \/ Told(t) = "none" /\ Told(t)' = "pending" /\ (Access(t)' <=> Access(t))
                 \/ Told(t) = "pending" /\ Told(t)' = "accepted" /\ Access(t)'
                 \/ Told(t) = "pending" /\ Told(t)' = "rejected" /\ (Access(t)' <=> Access(t))
         \/ \A u \in Transfer : Told(u)' = Told(u) /\ (Access(u)' <=> Access(u))
<1>0. TypeOK /\ Busy(s)
  BY DEF TransferInv, Commit, Busy, At
<1> PICK t \in Transfer, row \in Row, event \in Event, begun \in Nat, fresh \in BOOLEAN :
      /\ job[s].transfer = t /\ job[s].row = row /\ job[s].event = event
      /\ job[s].begun = begun /\ job[s].fresh = fresh
  BY <1>0, JobFields
<1> PICK now \in Nat : now = clock + 1
  BY <1>0, RowFields
<1> DEFINE rec == [transfer |-> t, event |-> event, begun |-> begun, done |-> now]
<1>1. /\ transfers' = [transfers EXCEPT ![t] = row]
      /\ grants' = IF fresh THEN grants \cup {[transfer |-> t, begun |-> begun]} ELSE grants
      /\ ledger' = ledger \cup {rec}
      /\ ~At(s, {"read"})
  BY DEF Commit, At
<1>2. row.status = Writing[event] /\ (event # "transfer_accepted" => ~fresh)
  BY <1>0 DEF TransferInv, JobsConsistent, Busy
<1>3. /\ Status(t)' = Writing[event]
      /\ \A u \in Transfer : u # t => Status(u)' = Status(u)
  BY <1>0, <1>1, <1>2 DEF Status, TypeOK
<1>4. /\ \A u : u # t => (Granted(u)' <=> Granted(u))
      /\ fresh => Granted(t)'
      /\ ~fresh => (Granted(t)' <=> Granted(t))
  <2>1. [transfer |-> t, begun |-> begun].transfer = t
    OBVIOUS
  <2> QED
    BY <1>1, <2>1 DEF Granted
<1>5. /\ \A u : u # t => Decisions(u)' = Decisions(u)
      /\ event \in Decision => Decisions(t)' = Decisions(t) \cup {rec}
      /\ event \notin Decision => Decisions(t)' = Decisions(t)
  BY <1>1 DEF Decisions
<1>6. \A u \in Transfer : u # t => Told(u)' = Told(u) /\ (Access(u)' <=> Access(u))
  BY <1>3, <1>4, <1>5 DEF Told, Access, Contested, FirstDecision
<1>7. \A q \in Decisions(t) : q.done \in Nat /\ q.done < now
  BY <1>0, RowFields DEF TransferInv, DecisionsOpen, Decisions
<1> HIDE DEF rec
<1>8. CASE event \notin Decision
  <2>1. event = "document_transferred"
    BY <1>8 DEF Event, Decision
  <2>2. Status(t) = "none" /\ Decisions(t) = {} /\ ~fresh
    BY <1>0, <1>2, <1>8 DEF TransferInv, NewIdsFresh, StatusIsSealed, Deciding, Busy, Decision
  <2>3. Told(t) = "none" /\ Told(t)' = "pending" /\ (Access(t)' <=> Access(t))
    BY <1>3, <1>4, <1>5, <1>8, <2>1, <2>2 DEF Told, Access, Contested, Writing, Event
  <2> QED
    BY <1>6, <2>3
<1>9. CASE event \in Decision /\ Decisions(t) = {}
  <2>1. Status(t) = "pending" /\ ~Granted(t)
    BY <1>0, <1>9 DEF TransferInv, NewIdsFresh, StatusIsSealed, GrantsFollowAcceptance,
                      Deciding, Busy, Granted, Decisions, Decision
  <2>2. event = "transfer_accepted" => fresh
    BY <1>0, <1>1, <1>9, <2>1 DEF TransferInv, GrantsSeen, Deciding, Busy
  <2>3. Told(t) = "pending" /\ ~Access(t) /\ Told(t)' = Writing[event]
    BY <1>3, <1>5, <1>9, <2>1 DEF Told, Access, Contested
  <2>4. Access(t)' <=> Granted(t)'
    BY <1>5, <1>9 DEF Access, Contested
  <2>5. \/ Told(t)' = "accepted" /\ Access(t)'
        \/ Told(t)' = "rejected" /\ (Access(t)' <=> Access(t))
    BY <1>2, <1>4, <1>9, <2>1, <2>2, <2>3, <2>4 DEF Writing, Decision
  <2> QED
    BY <1>6, <2>3, <2>5
<1>10. CASE event \in Decision /\ Decisions(t) # {} /\ ~Contested(t)
  <2>1. PICK r \in Decisions(t) : \A q \in Decisions(t) : q = r
    BY <1>10 DEF Contested
  <2>2. rec.done = now /\ Decisions(t)' = {r, rec} /\ r.done < now /\ r.done \in Nat
    BY <1>5, <1>7, <1>10, <2>1 DEF rec
  <2>3. Contested(t)'
    BY <2>2 DEF Contested
  <2>4. FirstDecision(t)' = IF r.event = "transfer_accepted" THEN "accepted" ELSE "rejected"
    BY <2>2 DEF FirstDecision
  <2>5. r.event \in Decision
    BY DEF Decisions
  <2>6. Told(t)' = Told(t) /\ (Access(t)' <=> Access(t))
    BY <1>10, <2>1, <2>3, <2>4, <2>5, SingleDecision DEF Told, Access, Decision
  <2> QED
    BY <1>6, <2>6
<1>11. CASE event \in Decision /\ Contested(t)
  <2>1. Contested(t)' /\ rec.done = now /\ Decisions(t)' = Decisions(t) \cup {rec}
    BY <1>5, <1>11 DEF Contested, rec
  <2>2. PICK r0 \in Decisions(t) : TRUE
    BY <1>11 DEF Contested
  <2>3. FirstDecision(t)' = FirstDecision(t)
    BY <1>7, <2>1, <2>2 DEF FirstDecision
  <2> QED
    BY <1>6, <1>11, <2>1, <2>3 DEF Told, Access
<1> QED
  BY <1>8, <1>9, <1>10, <1>11

\* Until a transfer is contested Transfers implements TransferOutcome.
THEOREM TransfersImplementOutcome == Spec => DecidedOnceUntilContested
<1> DEFINE outcome == [t \in Transfer |-> Told(t)]
           access == {t \in Transfer : Access(t)}
<1>1. Init => Outcome!OutcomeInit
  BY DEF Init, Outcome!OutcomeInit, Granted, Status, NoTransfer, Contested, Decisions
<1>2. ASSUME TransferInv, [Next]_vars
      PROVE  [\E t \in Transfer : Outcome!Decide(t)]_<<outcome, access>>
  <2>1. CASE \E s \in Session : Commit(s)
    <3>1. CASE \A u \in Transfer : Told(u)' = Told(u) /\ (Access(u)' <=> Access(u))
      BY <3>1
    <3>2. ASSUME NEW t \in Transfer,
                 \A u \in Transfer : u # t => Told(u)' = Told(u) /\ (Access(u)' <=> Access(u)),
                 \/ Told(t) = "none" /\ Told(t)' = "pending" /\ (Access(t)' <=> Access(t))
                 \/ Told(t) = "pending" /\ Told(t)' = "accepted" /\ Access(t)'
                 \/ Told(t) = "pending" /\ Told(t)' = "rejected" /\ (Access(t)' <=> Access(t))
          PROVE  Outcome!Decide(t)
      <4>1. outcome' = [outcome EXCEPT ![t] = Told(t)'] /\ outcome[t] = Told(t)
        BY <3>2
      <4>2. (Access(t)' <=> Access(t)) => access' = access
        BY <3>2
      <4>3. Access(t)' => access' = access \cup {t}
        BY <3>2
      <4>4. /\ outcome = [u \in Transfer |-> IF Contested(u) THEN FirstDecision(u) ELSE Status(u)]
            /\ access = {u \in Transfer : IF Contested(u) THEN FirstDecision(u) = "accepted"
                                                        ELSE Granted(u)}
        BY DEF Told, Access
      <4>5. /\ outcome' = [u \in Transfer |-> IF Contested(u) THEN FirstDecision(u) ELSE Status(u)]'
            /\ access' = {u \in Transfer : IF Contested(u) THEN FirstDecision(u) = "accepted"
                                                         ELSE Granted(u)}'
        BY DEF Told, Access
      <4> HIDE DEF outcome, access
      <4> QED
        BY <3>2, <4>1, <4>2, <4>3, <4>4, <4>5 DEF Outcome!Decide, Outcome!Becomes
    <3> QED
      BY <1>2, <2>1, <3>1, <3>2, CommitDecides
  <2>2. CASE ~\E s \in Session : Commit(s)
    <3>1. UNCHANGED <<transfers, grants, ledger>>
      BY <1>2, <2>2 DEF Next, Create, Accept, Reject, Begin, FindGrant, Flush, Seal, Abort, vars
    <3> QED
      BY <3>1 DEF Told, Access, Status, Granted, Decisions, Contested, FirstDecision
  <2> QED
    BY <2>1, <2>2
<1>3. TransferInv /\ [Next]_vars
        => [\E t \in Transfer : Outcome!Decide(t)]_<<outcome, access>>
  BY <1>2
<1> QED
  BY <1>1, <1>3, TransferInvariant, PTL
     DEF Spec, DecidedOnceUntilContested, Outcome!OutcomeSpec, Told, Access
=============================================================================
