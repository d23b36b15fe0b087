-------------------------- MODULE CaseEventsProofs --------------------------
(***************************************************************************)
(* Theorems about CaseEvents, and about the handlers of CaseTrail that     *)
(* call it, for any sets of sessions, cases, statuses and records of other *)
(* services, any provider and any bound on the clock.                      *)
(***************************************************************************)
EXTENDS CaseTrail, FiniteSetTheorems, TLAPS

\* The theorems of the ledger, about the ledger of CaseEvents.
LedgerProofs == INSTANCE AuditLedgerProofs

\* Two instances of AuditLedger with the same variables are the same.
LEMMA SameLedger ==
  /\ LedgerProofs!TypeOK <=> Ledger!TypeOK
  /\ LedgerProofs!TypeOK' <=> Ledger!TypeOK'
  /\ LedgerProofs!Init <=> Ledger!Init
  /\ [LedgerProofs!Next]_(LedgerProofs!vars) <=> [Ledger!Next]_(Ledger!vars)
<1> USE DEF LedgerProofs!NoDraft, Ledger!NoDraft, LedgerProofs!Genesis, Ledger!Genesis,
            LedgerProofs!Sealing, Ledger!Sealing, LedgerProofs!Discard, Ledger!Discard
<1>1. /\ LedgerProofs!TypeOK <=> Ledger!TypeOK
      /\ LedgerProofs!TypeOK' <=> Ledger!TypeOK'
  BY DEF LedgerProofs!TypeOK, Ledger!TypeOK, LedgerProofs!Row, Ledger!Row,
         LedgerProofs!CommittedRow, Ledger!CommittedRow, LedgerProofs!Draft, Ledger!Draft
<1>2. LedgerProofs!Init <=> Ledger!Init
  BY DEF LedgerProofs!Init, Ledger!Init
<1>3. \A s \in Session : LedgerProofs!Seal(s) <=> Ledger!Seal(s)
  BY DEF LedgerProofs!Seal, Ledger!Seal, LedgerProofs!IsHead, Ledger!IsHead
<1>4. \A s \in Session, b \in Body : LedgerProofs!Record(s, b) <=> Ledger!Record(s, b)
  BY DEF LedgerProofs!Record, Ledger!Record, LedgerProofs!FlushedRow, Ledger!FlushedRow
<1>5. \A s \in Session : LedgerProofs!SubmitFails(s) <=> Ledger!SubmitFails(s)
  BY DEF LedgerProofs!SubmitFails, Ledger!SubmitFails
<1>6. \A s \in Session : LedgerProofs!Commit(s) <=> Ledger!Commit(s)
  BY DEF LedgerProofs!Commit, Ledger!Commit, LedgerProofs!Durable, Ledger!Durable
<1>7. \A s \in Session : LedgerProofs!Abort(s) <=> Ledger!Abort(s)
  BY DEF LedgerProofs!Abort, Ledger!Abort
<1>8. LedgerProofs!Tick <=> Ledger!Tick
  BY DEF LedgerProofs!Tick, Ledger!Tick
<1>9. LedgerProofs!Next <=> Ledger!Next
  BY <1>3, <1>4, <1>5, <1>6, <1>7, <1>8 DEF LedgerProofs!Next, Ledger!Next
<1>10. LedgerProofs!vars = Ledger!vars
  BY DEF LedgerProofs!vars, Ledger!vars
<1> QED
  BY <1>1, <1>2, <1>9, <1>10 DEF LedgerProofs!vars, Ledger!vars

-----------------------------------------------------------------------------
(* CaseEvents uses the ledger as AuditLedger says *)

\* What a case event is sealed with is a body of a ledger record.
LEMMA SealedIsBody ==
  ASSUME EventInv, NEW s \in Session, NEW e \in flushed[s]
  PROVE  Sealed(e) \in Body
  BY MaxClockAssumption DEF EventInv, EventsNamed, TypeOK, Event, Sealed, Body

\* Every step is a step of the ledger, or leaves the ledger alone.
LEMMA StepOfLedger ==
  ASSUME EventInv, [Next]_vars
  PROVE  [Ledger!Next]_(Ledger!vars)
<1>1. ASSUME NEW s \in Session, NEW c \in Case, NEW a \in About, AppendEvent(s, c, a)
      PROVE  Ledger!Next
  BY <1>1 DEF AppendEvent, Ledger!Next
<1>2. ASSUME NEW s \in Session, Seal(s) PROVE Ledger!Next
  BY <1>2 DEF Seal, Ledger!Next
<1>3. ASSUME NEW s \in Session, RecordEvent(s) PROVE Ledger!Next
  BY <1>3, SealedIsBody DEF RecordEvent, Ledger!Next
<1>4. ASSUME NEW s \in Session, NEW k \in OtherKind, NEW ref \in OtherRef, RecordOther(s, k, ref)
      PROVE  Ledger!Next
  <2>1. [kind |-> k, ref |-> ref] \in Body
    BY OtherRefAssumption DEF Body
  <2> QED
    BY <1>4, <2>1 DEF RecordOther, Ledger!Next
<1>5. ASSUME NEW s \in Session, Commit(s) \/ SubmitFails(s) PROVE Ledger!Next
  BY <1>5 DEF Commit, SubmitFails, Ledger!Next
<1>6. ASSUME NEW s \in Session, Abort(s) PROVE Ledger!Next \/ UNCHANGED Ledger!vars
  <2>1. CASE Ledger!Sealing(s) \/ pending[s] # {}
    BY <1>6, <2>1 DEF Abort, Ledger!Abort, Ledger!Next
  <2>2. CASE draft[s] = Ledger!NoDraft /\ pending[s] = {}
    BY <1>6, <2>2 DEF Abort, Ledger!Discard, Ledger!vars, EventInv, TypeOK, Ledger!TypeOK
  <2> QED
    BY <2>1, <2>2 DEF Ledger!Sealing
<1>7. CASE UNCHANGED vars
  BY <1>7 DEF vars, Ledger!vars
<1> QED
  BY <1>1, <1>2, <1>3, <1>4, <1>5, <1>6, <1>7 DEF Next

\* Types are kept.
LEMMA EventTypeStep ==
  ASSUME EventInv, [Next]_vars
  PROVE  TypeOK'
<1> USE DEF TypeOK, EventInv
<1>1. Ledger!TypeOK'
  BY StepOfLedger, SameLedger, LedgerProofs!TypeStep, ProviderAssumption, MaxClockAssumption
<1>2. clock \in Nat
  BY DEF Ledger!TypeOK
<1>3. events' \subseteq CommittedEvent /\ flushed' \in [Session -> SUBSET Event]
  <2>1. ASSUME NEW s \in Session, NEW c \in Case, NEW a \in About, AppendEvent(s, c, a)
        PROVE  events' \subseteq CommittedEvent /\ flushed' \in [Session -> SUBSET Event]
    <3>1. PICK h \in {Ledger!Genesis} \cup {e.hash : e \in Trail(c)} :
            flushed' = [flushed EXCEPT ![s] =
              {[case |-> c, about |-> a, hash |-> clock + 1, prev |-> h]}]
      BY <2>1 DEF AppendEvent
    <3>2. h \in Nat
      BY DEF Trail, CommittedEvent, Ledger!Genesis
    <3>3. [case |-> c, about |-> a, hash |-> clock + 1, prev |-> h] \in Event
      BY <1>2, <3>2 DEF Event
    <3> QED
      BY <2>1, <3>1, <3>3 DEF AppendEvent
  <2>2. ASSUME NEW s \in Session, Commit(s)
        PROVE  events' \subseteq CommittedEvent /\ flushed' \in [Session -> SUBSET Event]
    <3>1. \A e \in flushed[s] : DurableEvent(e, clock + 1) \in CommittedEvent
      BY <1>2 DEF DurableEvent, CommittedEvent, Event
    <3> QED
      BY <2>2, <3>1 DEF Commit
  <2>3. ASSUME NEW s \in Session, SubmitFails(s) \/ Abort(s)
        PROVE  events' \subseteq CommittedEvent /\ flushed' \in [Session -> SUBSET Event]
    BY <2>3 DEF SubmitFails, Abort
  <2>4. CASE UNCHANGED eventVars
    BY <2>4 DEF eventVars
  <2>5. CASE UNCHANGED vars
    BY <2>5 DEF vars
  <2> QED
    BY <2>1, <2>2, <2>3, <2>4, <2>5 DEF Next, Seal, RecordEvent, RecordOther
<1> QED
  BY <1>1, <1>3

-----------------------------------------------------------------------------
(* Each step keeps the inductive invariant of CaseEvents *)

\* The fields of events and of ledger rows.
LEMMA EventFields ==
  ASSUME TypeOK
  PROVE  /\ clock \in Nat
         /\ \A e \in events : e.hash \in Nat /\ e.prev \in Nat /\ e.done \in Nat /\ e.case \in Case
         /\ \A s \in Session : \A e \in flushed[s] :
              e.hash \in Nat /\ e.prev \in Nat /\ e.case \in Case
  BY DEF TypeOK, Ledger!TypeOK, CommittedEvent, Event

\* An event is chained behind the newest committed one of its case.
LEMMA AppendStep ==
  ASSUME EventInv, NEW s \in Session, NEW c \in Case, NEW a \in About, AppendEvent(s, c, a)
  PROVE  EventInv'
<1> USE EventFields DEF EventInv
<1>1. TypeOK'
  BY EventTypeStep DEF Next
<1>2. PICK h \in {Ledger!Genesis} \cup {e.hash : e \in Trail(c)} :
        /\ IsNewest(h, Trail(c))
        /\ flushed' = [flushed EXCEPT ![s] =
             {[case |-> c, about |-> a, hash |-> clock + 1, prev |-> h]}]
  BY DEF AppendEvent
<1> DEFINE n == [case |-> c, about |-> a, hash |-> clock + 1, prev |-> h]
<1>3. /\ clock < MaxClock /\ clock' = clock + 1 /\ events' = events
      /\ ledger' = ledger /\ pending' = pending /\ draft' = draft
      /\ flushed[s] = {} /\ ~Ledger!Sealing(s) /\ ~Ledger!Sealing(s)'
  BY DEF AppendEvent, Ledger!Tick, Ledger!Sealing
<1>4. /\ flushed'[s] = {n}
      /\ \A t \in Session : t # s => flushed'[t] = flushed[t]
  BY <1>2 DEF TypeOK
<1>5. EventsNamed'
  <2>1. /\ \A e \in events : e.hash < n.hash /\ e.done < n.hash
        /\ \A t \in Session : \A e \in flushed[t] : e.hash < n.hash
    BY DEF EventsNamed
  <2> QED
    BY <1>3, <1>4, <2>1, MaxClockAssumption DEF EventsNamed
<1>6. RecordsFollowEvents'
  <2>1. \A r \in pending[s] : r.body.kind # "case_event"
    BY <1>3 DEF RecordsFollowEvents
  <2>2. \A t \in Session : Ledger!Sealing(t)' <=> Ledger!Sealing(t)
    BY <1>3 DEF Ledger!Sealing
  <2> QED
    BY <1>3, <1>4, <2>1, <2>2 DEF RecordsFollowEvents, Recorded
<1>7. EventsSealedOnce'
  BY <1>3 DEF EventsSealedOnce
<1>8. EventsResolve'
  <2>1. n.prev = Ledger!Genesis \/ \E p \in events : LinksTo(n, p) /\ p.done < n.hash
    BY <1>2 DEF Trail, LinksTo, EventsNamed
  <2> QED
    BY <1>3, <1>4, <2>1 DEF EventsResolve, EventLinksResolve
<1>9. EventsLinkNewest'
  <2>1. \A f \in events : n.case = f.case => EventReaches(n, f)
    BY <1>2 DEF IsNewest, Trail, LinksTo, EventReaches
  <2>2. \A e, f : EventReaches(e, f)' <=> EventReaches(e, f)
    BY <1>3 DEF EventReaches
  <2> QED
    BY <1>3, <1>4, <2>1, <2>2 DEF EventsLinkNewest
<1> QED
  BY <1>1, <1>5, <1>6, <1>7, <1>8, <1>9

\* A step that flushes or commits no event and moves the clock at most.
LEMMA LedgerOnlyStep ==
  ASSUME EventInv, TypeOK', UNCHANGED eventVars, clock' = clock \/ clock' = clock + 1,
         ledger' = ledger, RecordsFollowEvents'
  PROVE  EventInv'
<1> USE EventFields DEF EventInv
<1>1. events' = events /\ flushed' = flushed
  BY DEF eventVars
<1>2. EventsNamed'
  BY <1>1 DEF EventsNamed
<1>3. EventsSealedOnce' /\ EventsResolve' /\ EventsLinkNewest'
  BY <1>1 DEF EventsSealedOnce, EventsResolve, EventLinksResolve, EventsLinkNewest, EventReaches
<1> QED
  BY <1>2, <1>3

\* A record() call begins.
LEMMA SealEventStep ==
  ASSUME EventInv, NEW s \in Session, Seal(s)
  PROVE  EventInv'
<1> USE DEF EventInv
<1>1. TypeOK'
  BY EventTypeStep DEF Next
<1>2. /\ UNCHANGED eventVars /\ clock' = clock + 1 /\ ledger' = ledger /\ pending' = pending
      /\ flushed' = flushed /\ \A e \in flushed[s] : ~Recorded(s, e)
      /\ \A t \in Session : t # s => (Ledger!Sealing(t)' <=> Ledger!Sealing(t))
  BY DEF Seal, Ledger!Seal, eventVars, Ledger!Sealing, TypeOK, Ledger!TypeOK
<1>3. RecordsFollowEvents'
  BY <1>2 DEF RecordsFollowEvents, Recorded
<1> QED
  BY <1>1, <1>2, <1>3, LedgerOnlyStep

\* A record() call ends, for the event or for the caller.
LEMMA RecordEventStep ==
  ASSUME EventInv, NEW s \in Session, NEW b \in Body, Ledger!Record(s, b),
         UNCHANGED eventVars, Next,
         \/ b.kind # "case_event"
         \/ \E e \in flushed[s] : b = Sealed(e)
  PROVE  EventInv'
<1> USE DEF EventInv
<1> DEFINE n == Ledger!FlushedRow(s, b, clock + 1)
<1>1. TypeOK'
  BY EventTypeStep
<1>2. /\ clock' = clock + 1 /\ ledger' = ledger /\ flushed' = flushed /\ Ledger!Sealing(s)
      /\ ~Ledger!Sealing(s)'
      /\ pending'[s] = pending[s] \cup {n} /\ n.body = b
      /\ \A t \in Session : t # s => pending'[t] = pending[t]
      /\ \A t \in Session : t # s => (Ledger!Sealing(t)' <=> Ledger!Sealing(t))
  BY DEF Ledger!Record, Ledger!FlushedRow, eventVars, Ledger!Sealing, TypeOK, Ledger!TypeOK
<1>3. \A r \in pending[s] : r.body.kind = "case_event" => r.body # b
  BY <1>2 DEF RecordsFollowEvents, Recorded
<1>4. RecordsFollowEvents'
  <2>1. ASSUME NEW t \in Session, t # s, Ledger!Sealing(t)', NEW e \in flushed[t], Recorded(t, e)'
        PROVE  FALSE
    BY <1>2, <2>1 DEF RecordsFollowEvents, Recorded
  <2>2. \A t \in Session : \A r \in pending'[t] : r.body.kind = "case_event" =>
                         \E e \in flushed[t] : r.body = Sealed(e)
    BY <1>2 DEF RecordsFollowEvents
  <2>3. \A t \in Session : \A r, q \in pending'[t] :
          r.body.kind = "case_event" /\ r.body = q.body => r = q
    BY <1>2, <1>3 DEF RecordsFollowEvents
  <2> QED
    BY <1>2, <2>1, <2>2, <2>3 DEF RecordsFollowEvents
<1> QED
  BY <1>1, <1>2, <1>4, LedgerOnlyStep

\* A session is rolled back.
LEMMA DiscardEventStep ==
  ASSUME EventInv, NEW s \in Session, Ledger!Discard(s), Next,
         flushed' = [flushed EXCEPT ![s] = {}], UNCHANGED events
  PROVE  EventInv'
<1> USE EventFields DEF EventInv
<1>1. TypeOK'
  BY EventTypeStep
<1>2. /\ ledger' = ledger /\ clock' = clock /\ events' = events
      /\ flushed'[s] = {} /\ pending'[s] = {} /\ ~Ledger!Sealing(s)'
      /\ \A t \in Session : t # s =>
           /\ flushed'[t] = flushed[t] /\ pending'[t] = pending[t]
           /\ Ledger!Sealing(t)' <=> Ledger!Sealing(t)
  BY DEF Ledger!Discard, Ledger!Sealing, TypeOK, Ledger!TypeOK
<1>3. \A t \in Session : flushed'[t] \subseteq flushed[t]
  BY <1>2
<1>4. EventsNamed'
  BY <1>2, <1>3 DEF EventsNamed
<1>5. RecordsFollowEvents'
  BY <1>2 DEF RecordsFollowEvents, Recorded
<1>6. EventsSealedOnce' /\ EventsResolve' /\ EventsLinkNewest'
  BY <1>2, <1>3 DEF EventsSealedOnce, EventsResolve, EventLinksResolve, EventsLinkNewest,
                    EventReaches
<1> QED
  BY <1>1, <1>4, <1>5, <1>6
\* The event of a session becomes visible, with the row that seals it.
LEMMA CommitEventStep ==
  ASSUME EventInv, NEW s \in Session, Commit(s)
  PROVE  EventInv'
<1> USE EventFields DEF EventInv
<1> DEFINE now == clock + 1
<1>1. TypeOK'
  BY EventTypeStep DEF Next
<1>2. /\ clock' = now /\ draft' = draft /\ flushed'[s] = {} /\ pending'[s] = {}
      /\ \A t \in Session : t # s => flushed'[t] = flushed[t] /\ pending'[t] = pending[t]
      /\ \A t \in Session : Ledger!Sealing(t)' <=> Ledger!Sealing(t)
      /\ events' = events \cup {DurableEvent(e, now) : e \in flushed[s]}
      /\ ledger' = ledger \cup {Ledger!Durable(r, now) : r \in pending[s]}
      /\ \A e \in flushed[s] : Recorded(s, e)
  BY DEF Commit, Ledger!Commit, Ledger!Sealing, TypeOK, Ledger!TypeOK
<1>3. \A e : LET d == DurableEvent(e, now)
             IN  d.hash = e.hash /\ d.prev = e.prev /\ d.case = e.case /\ d.done = now
  BY DEF DurableEvent
<1>4. \A d \in events' :
        \/ d \in events /\ d.done <= clock
        \/ /\ d.done = now
           /\ \E e \in flushed[s] : /\ d = DurableEvent(e, now) /\ d.hash = e.hash
                                   /\ d.prev = e.prev /\ d.case = e.case
  BY <1>2, <1>3 DEF EventsNamed
<1>5. \A d \in ledger' :
        \/ d \in ledger
        \/ \E r \in pending[s] : d = Ledger!Durable(r, now) /\ d.body = r.body /\ d.done = now
  BY <1>2 DEF Ledger!Durable
<1>6. EventsNamed'
  <2>1. \A d \in events' : 0 < d.hash /\ d.hash < d.done /\ d.done <= now
    BY <1>4 DEF EventsNamed
  <2>2. \A d, e \in events' : d.hash = e.hash => d = e
    BY <1>4 DEF EventsNamed
  <2>3. \A d, e \in events' : d.hash # e.done
    BY <1>4 DEF EventsNamed
  <2>4. \A t \in Session : \A e \in flushed'[t], d \in events' : e.hash # d.hash /\ e.hash # d.done
    BY <1>2, <1>4 DEF EventsNamed
  <2>5. \A t \in Session : flushed'[t] \subseteq flushed[t]
    BY <1>2
  <2> QED
    BY <1>2, <2>1, <2>2, <2>3, <2>4, <2>5 DEF EventsNamed
<1>7. RecordsFollowEvents'
  <2>1. \A t \in Session : t # s => \A e \in flushed'[t] : Recorded(t, e)' <=> Recorded(t, e)
    BY <1>2 DEF Recorded
  <2> QED
    BY <1>2, <2>1 DEF RecordsFollowEvents
<1>8. EventsSealedOnce'
  <2>1. \A e \in events' : \E r \in ledger' : r.body = Sealed(e) /\ r.done = e.done
    <3>1. ASSUME NEW e \in flushed[s]
          PROVE  \E r \in ledger' : r.body = Sealed(e) /\ r.done = now
      <4>1. PICK r \in pending[s] : r.body = Sealed(e)
        BY <1>2, <3>1 DEF Recorded
      <4>2. Ledger!Durable(r, now) \in ledger'
        BY <1>2
      <4> QED
        BY <4>1, <4>2 DEF Ledger!Durable
    <3>2. \A d, e : d.hash = e.hash => Sealed(d) = Sealed(e)
      BY DEF Sealed
    <3> QED
      BY <1>2, <1>3, <3>1, <3>2 DEF EventsSealedOnce
  <2>2. ASSUME NEW r \in ledger', r.body.kind = "case_event"
        PROVE  \E e \in events' : r.body = Sealed(e)
    <3>1. CASE r \in ledger
      BY <1>2, <2>2, <3>1 DEF EventsSealedOnce
    <3>2. CASE \E p \in pending[s] : r.body = p.body
      <4>1. PICK e \in flushed[s] : r.body = Sealed(e)
        BY <2>2, <3>2 DEF RecordsFollowEvents
      <4>2. DurableEvent(e, now) \in events'
        BY <1>2
      <4> QED
        BY <4>1, <4>2 DEF Sealed, DurableEvent
    <3> QED
      BY <1>5, <3>1, <3>2
  <2>3. ASSUME NEW r \in ledger', NEW q \in ledger', r.body.kind = "case_event", r.body = q.body
        PROVE  r = q
    <3>1. ASSUME NEW x \in ledger, NEW y \in pending[s], x.body = y.body,
                 x.body.kind = "case_event"
          PROVE  FALSE
      <4>1. PICK e \in events : x.body = Sealed(e)
        BY <3>1 DEF EventsSealedOnce
      <4>2. PICK f \in flushed[s] : y.body = Sealed(f)
        BY <3>1 DEF RecordsFollowEvents
      <4>3. Sealed(e).ref = e.hash /\ Sealed(f).ref = f.hash
        BY DEF Sealed
      <4>4. e.hash = f.hash
        BY <3>1, <4>1, <4>2, <4>3
      <4> QED
        BY <4>4 DEF EventsNamed
    <3>2. CASE r \in ledger /\ q \in ledger
      BY <2>3, <3>2 DEF EventsSealedOnce
    <3>3. CASE /\ \E x \in pending[s] : r = Ledger!Durable(x, now) /\ r.body = x.body
               /\ \E y \in pending[s] : q = Ledger!Durable(y, now) /\ q.body = y.body
      BY <2>3, <3>3 DEF RecordsFollowEvents
    <3> QED
      BY <1>5, <2>3, <3>1, <3>2, <3>3
  <2> QED
    BY <2>1, <2>2, <2>3 DEF EventsSealedOnce
<1>9. EventsResolve'
  <2>1. ASSUME NEW d \in events'
        PROVE  d.prev = Ledger!Genesis \/ \E p \in events : LinksTo(d, p) /\ p.done < d.hash
    <3>1. CASE d \in events
      BY <3>1 DEF EventsResolve, EventLinksResolve, LinksTo
    <3>2. CASE \E e \in flushed[s] : d.hash = e.hash /\ d.prev = e.prev /\ d.case = e.case
      BY <3>2 DEF EventsResolve, LinksTo
    <3> QED
      BY <1>4, <3>1, <3>2
  <2>2. EventLinksResolve'
    BY <1>2, <2>1 DEF EventLinksResolve, LinksTo
  <2> QED
    BY <1>2, <2>2 DEF EventsResolve
<1>10. EventsLinkNewest'
  <2>1. \A e, f : EventReaches(e, f) => EventReaches(e, f)'
    BY <1>2 DEF EventReaches, LinksTo
  <2>2. ASSUME NEW d \in events', NEW f \in events', d.case = f.case, f.done < d.hash
        PROVE  EventReaches(d, f)'
    <3>1. f \in events
      BY <1>4, <2>2 DEF EventsNamed
    <3>2. CASE d \in events
      BY <2>1, <2>2, <3>1, <3>2 DEF EventsLinkNewest
    <3>3. CASE \E e \in flushed[s] : d.hash = e.hash /\ d.prev = e.prev /\ d.case = e.case
      <4>1. PICK e \in flushed[s] : d.hash = e.hash /\ d.prev = e.prev /\ d.case = e.case
        BY <3>3
      <4>2. EventReaches(e, f)
        BY <2>2, <3>1, <4>1 DEF EventsLinkNewest
      <4>3. EventReaches(d, f)
        BY <4>1, <4>2 DEF EventReaches, LinksTo
      <4> QED
        BY <2>1, <4>3
    <3> QED
      BY <1>4, <3>2, <3>3
  <2>3. ASSUME NEW t \in Session, NEW e \in flushed'[t], NEW f \in events',
               e.case = f.case, f.done < e.hash
        PROVE  EventReaches(e, f)'
    <3>1. t # s /\ e \in flushed[t]
      BY <1>2, <2>3
    <3>2. f \in events
      BY <1>4, <2>3, <3>1 DEF EventsNamed
    <3> QED
      BY <2>1, <2>3, <3>1, <3>2 DEF EventsLinkNewest
  <2> QED
    BY <2>2, <2>3 DEF EventsLinkNewest
<1> QED
  BY <1>1, <1>6, <1>7, <1>8, <1>9, <1>10

-----------------------------------------------------------------------------
(* The theorems *)

\* Every step keeps the invariant.
LEMMA EventStep == EventInv /\ [Next]_vars => EventInv'
<1> SUFFICES ASSUME EventInv, [Next]_vars PROVE EventInv'
  OBVIOUS
<1>1. ASSUME NEW s \in Session, RecordEvent(s) PROVE EventInv'
  <2>1. PICK e \in flushed[s] : Ledger!Record(s, Sealed(e))
    BY <1>1 DEF RecordEvent
  <2> QED
    BY <1>1, <2>1, SealedIsBody, RecordEventStep DEF RecordEvent, Next
<1>2. ASSUME NEW s \in Session, NEW k \in OtherKind, NEW ref \in OtherRef, RecordOther(s, k, ref)
      PROVE  EventInv'
  <2> DEFINE b == [kind |-> k, ref |-> ref]
  <2>1. b \in Body /\ b.kind # "case_event"
    BY OtherRefAssumption, OtherKindAssumption DEF Body
  <2>2. Ledger!Record(s, b) /\ UNCHANGED eventVars /\ Next
    BY <1>2 DEF RecordOther, Next
  <2> QED
    BY <2>1, <2>2, RecordEventStep
<1>3. ASSUME NEW s \in Session, SubmitFails(s) \/ Abort(s) PROVE EventInv'
  <2>1. Ledger!Discard(s) /\ Next
    BY <1>3 DEF SubmitFails, Abort, Ledger!SubmitFails, Next
  <2> QED
    BY <1>3, <2>1, DiscardEventStep DEF SubmitFails, Abort
<1>4. CASE UNCHANGED vars
  <2>1. /\ events' = events /\ flushed' = flushed /\ clock' = clock
        /\ ledger' = ledger /\ pending' = pending /\ draft' = draft
    BY <1>4 DEF vars
  <2>2. TypeOK'
    BY EventTypeStep
  <2>3. RecordsFollowEvents'
    BY <2>1 DEF EventInv, RecordsFollowEvents, Recorded, Ledger!Sealing
  <2> QED
    BY <2>1, <2>2, <2>3, LedgerOnlyStep DEF eventVars
<1> QED
  BY <1>1, <1>2, <1>3, <1>4, AppendStep, SealEventStep, CommitEventStep DEF Next

\* The invariant holds in every reachable state.
THEOREM EventInvariant == Spec => []EventInv
<1>1. Init => EventInv
  BY DEF Init, EventInv, TypeOK, Ledger!TypeOK, Ledger!Init, Ledger!NoDraft, Ledger!Draft,
         Ledger!Genesis, EventsNamed, RecordsFollowEvents, Ledger!Sealing, EventsSealedOnce,
         EventsResolve, EventLinksResolve, EventsLinkNewest
<1> QED
  BY <1>1, EventStep, PTL DEF Spec

\* Every variable keeps its type.
THEOREM EventTypes == Spec => []TypeOK
  BY EventInvariant, PTL DEF EventInv

\* An event is committed with its ledger record, and is sealed once.
THEOREM EventsAreSealedOnce == Spec => []EventsSealedOnce
  BY EventInvariant, PTL DEF EventInv

\* Links of events lead to older committed events of the same case.
THEOREM EventLinksAlwaysResolve == Spec => []EventLinksResolve
  BY EventInvariant, PTL DEF EventInv, EventsResolve

\* A fork of a trail takes two requests that were open at the same time.
THEOREM EventForksNeedOverlap == Spec => []EventForkOnlyByOverlap
<1>1. ASSUME EventInv PROVE EventForkOnlyByOverlap
  <2> USE <1>1, EventFields DEF EventInv
  <2>1. ASSUME NEW e \in events, NEW f \in events, e.case = f.case, e.prev = f.prev,
               f.done < e.hash
        PROVE  FALSE
    <3>1. PICK p \in events : LinksTo(e, p) /\ f.hash <= p.hash
      BY <2>1 DEF EventsLinkNewest, EventReaches
    <3>2. PICK o \in events : o.hash = f.prev /\ o.done < f.hash
      BY <2>1, <3>1 DEF EventsResolve, EventLinksResolve, LinksTo, EventsNamed, Ledger!Genesis
    <3>3. o = p
      BY <2>1, <3>1, <3>2 DEF LinksTo, EventsNamed
    <3> QED
      BY <3>1, <3>2, <3>3 DEF EventsNamed
  <2>2. \A e, f \in events : e.hash # f.done
    BY DEF EventsNamed
  <2> QED
    BY <2>1, <2>2 DEF EventForkOnlyByOverlap
<1> QED
  BY <1>1, EventInvariant, PTL

\* Every event of the case carries the hash of the one before it, the chain that
\* create() builds over the newest event it finds (services.py:250).
TrailIntact(c) ==
  \A e \in Trail(c) : IsNewest(e.prev, {f \in Trail(c) : f.hash < e.hash})

\* No two of the requests that wrote to the trail overlapped.
Serial(c) == \A e, f \in Trail(c) : e = f \/ e.done < f.hash \/ f.done < e.hash
SerialTrailsIntact == \A c \in Case : Serial(c) => TrailIntact(c)

\* As long as no two requests that wrote to a case overlapped its trail is a
\* chain, whatever was rolled back in between and whatever other cases did.
THEOREM SerialTrailsAreChains == Spec => []SerialTrailsIntact
<1>1. ASSUME EventInv, NEW c \in Case, Serial(c), NEW e \in Trail(c)
      PROVE  IsNewest(e.prev, {f \in Trail(c) : f.hash < e.hash})
  <2> DEFINE older == {f \in Trail(c) : f.hash < e.hash}
  <2>1. \A f \in Trail(c) :
          /\ f \in events /\ f.case = c
          /\ f.hash \in Nat /\ f.done \in Nat /\ 0 < f.hash /\ f.hash < f.done
    BY <1>1, EventFields DEF Trail, EventInv, EventsNamed
  <2>2. ASSUME NEW f \in older
        PROVE  \E p \in events : p.hash = e.prev /\ p.case = c /\ f.hash <= p.hash
    <3>1. f \in Trail(c) /\ f.hash < e.hash
      OBVIOUS
    <3>2. e # f /\ ~(e.done < f.hash)
      BY <1>1, <2>1, <3>1
    <3>3. f.done < e.hash
      BY <1>1, <3>1, <3>2 DEF Serial
    <3>4. EventReaches(e, f)
      BY <1>1, <2>1, <3>1, <3>3 DEF EventInv, EventsLinkNewest
    <3> QED
      BY <1>1, <2>1, <3>4 DEF EventReaches, LinksTo
  <2>3. CASE e.prev = Ledger!Genesis
    <3>1. \A p \in events : p.hash # e.prev
      BY <1>1, <2>3, EventFields DEF EventInv, EventsNamed, Ledger!Genesis
    <3>2. older = {}
      BY <2>2, <3>1
    <3> QED
      BY <2>3, <3>2 DEF IsNewest
  <2>4. CASE e.prev # Ledger!Genesis
    <3>1. PICK p \in events : p.hash = e.prev /\ p.case = e.case /\ p.done < e.hash
      BY <1>1, <2>1, <2>4 DEF EventInv, EventsResolve, EventLinksResolve
    <3>2. p \in Trail(c)
      BY <1>1, <2>1, <3>1 DEF Trail
    <3>3. p \in older
      BY <1>1, <2>1, <3>1, <3>2
    <3>4. \A f \in older : f.hash <= p.hash
      BY <2>2, <3>1
    <3> QED
      BY <3>1, <3>3, <3>4 DEF IsNewest
  <2> QED
    BY <2>3, <2>4
<1>2. EventInv => SerialTrailsIntact
  BY <1>1 DEF SerialTrailsIntact, TrailIntact
<1> QED
  BY <1>2, EventInvariant, PTL

\* Every behaviour of CaseEvents is one of AuditLedger.
THEOREM EventsUseLedger == Spec => UsesLedger
<1>1. Init => Ledger!Init
  BY DEF Init
<1>2. EventInv /\ [Next]_vars => [Ledger!Next]_(Ledger!vars)
  BY StepOfLedger
<1> QED
  BY <1>1, <1>2, EventInvariant, PTL DEF Spec, UsesLedger, Ledger!Spec

\* What is proved of the ledger holds of the one the events are sealed in:
\* its links resolve, and it forks only under requests that overlap.
THEOREM EventLedgerSound == Spec => [](Ledger!LinksResolve /\ Ledger!ForkOnlyByOverlap)
<1>1. LedgerProofs!Spec => [](LedgerProofs!LinksResolve /\ LedgerProofs!ForkOnlyByOverlap)
  BY LedgerProofs!LinksAlwaysResolve, LedgerProofs!ForksNeedOverlap, ProviderAssumption,
     MaxClockAssumption, PTL
<1>2. Ledger!Spec => LedgerProofs!Spec
  BY SameLedger, PTL DEF LedgerProofs!Spec, Ledger!Spec
<1>3. /\ LedgerProofs!LinksResolve <=> Ledger!LinksResolve
      /\ LedgerProofs!ForkOnlyByOverlap <=> Ledger!ForkOnlyByOverlap
  BY DEF LedgerProofs!LinksResolve, Ledger!LinksResolve, LedgerProofs!Genesis, Ledger!Genesis,
         LedgerProofs!ForkOnlyByOverlap, Ledger!ForkOnlyByOverlap, LedgerProofs!Overlap,
         Ledger!Overlap
<1> QED
  BY <1>1, <1>2, <1>3, EventsUseLedger, PTL DEF UsesLedger

-----------------------------------------------------------------------------
(* CaseTrail: the handlers *)

\* What a request in progress is about.
LEMMA JobFields ==
  ASSUME TrailTypeOK, NEW s \in Session
  PROVE  /\ job[s].pc \in {"idle", "creating", "noting", "editing", "edited", "refreshed"}
         /\ ~At(s, "idle") =>
              /\ job[s] \in Job
              /\ job[s].case \in Case /\ job[s].status \in Status /\ job[s].seen \in Status
              /\ job[s].at \in Nat
BY DEF TrailTypeOK, Job, Idle, At

\* What a request tells depends on where it is only, and is nothing where it
\* has nothing to tell.
LEMMA TellsAt ==
  ASSUME NEW s \in Session
  PROVE  /\ At(s, "creating") => Tells(s) = {"case_created"}
         /\ At(s, "noting") => Tells(s) = About
         /\ At(s, "refreshed") => Tells(s) = {job[s].seen}
         /\ ~At(s, "creating") /\ ~At(s, "noting") /\ ~At(s, "refreshed") => Tells(s) = {}
BY DEF Tells, At

LEMMA TellsAbout ==
  ASSUME TrailTypeOK, NEW s \in Session, NEW a \in Tells(s)
  PROVE  a \in About /\ (At(s, "creating") => a = "case_created") /\ ~At(s, "idle")
BY TellsAt, JobFields, AboutAssumption DEF At

\* Every step of a handler is one of the event service, or leaves the database
\* and the ledger alone.
LEMMA StepOfEvents ==
  ASSUME TrailTypeOK, [TrailNext]_trailVars
  PROVE  [Next]_vars
<1>1. CASE UNCHANGED trailVars
  BY <1>1 DEF trailVars
<1>2. ASSUME NEW s \in Session, TellEvent(s) PROVE Next
  <2>1. PICK a \in Tells(s) : AppendEvent(s, job[s].case, a)
    BY <1>2 DEF TellEvent
  <2>2. a \in About /\ job[s].case \in Case
    BY <2>1, TellsAbout, JobFields
  <2> QED
    BY <2>1, <2>2 DEF Next
<1>3. ASSUME NEW s \in Session,
             SealTold(s) \/ RecordTold(s) \/ CommitTold(s) \/ RequestFails(s)
      PROVE  Next
  BY <1>3 DEF SealTold, RecordTold, CommitTold, RequestFails, Next
<1>4. ASSUME NEW s \in Session, RequestDies(s) PROVE [Next]_vars
  BY <1>4 DEF RequestDies, Next
<1>5. ASSUME NEW s \in Session, NEW c \in Case, NEW st \in Status,
             CreateCase(s, c) \/ Note(s, c) \/ ReadCase(s, c, st)
      PROVE  UNCHANGED vars
  BY <1>5 DEF CreateCase, Note, ReadCase
<1>6. ASSUME NEW s \in Session, CommitEdit(s) \/ Refresh(s)
      PROVE  UNCHANGED vars
  BY <1>6 DEF CommitEdit, Refresh
<1>7. Status # {}
  BY StatusAssumption
<1> QED
  BY <1>1, <1>2, <1>3, <1>4, <1>5, <1>6, <1>7 DEF TrailNext

\* The types of what the handlers keep.
LEMMA TrailTypeInit == TrailInit => TrailTypeOK
BY DEF TrailInit, TrailTypeOK

LEMMA StartTyped ==
  ASSUME TrailTypeOK, NEW s \in Session, NEW c \in Case, NEW st \in Status,
         NEW pc \in {"creating", "noting", "editing"}, Start(s, pc, c, st)
  PROVE  /\ job' \in [Session -> Job \cup {Idle}]
         /\ job'[s].pc = pc /\ job'[s].case = c
         /\ \A t \in Session : t # s => job'[t] = job[t]
<1>1. [pc |-> pc, case |-> c, status |-> st, seen |-> st, at |-> 0] \in Job
  BY DEF Job
<1> QED
  BY <1>1 DEF Start, TrailTypeOK

LEMMA CommitEditTyped ==
  ASSUME TrailTypeOK, clock \in Nat, NEW s \in Session, CommitEdit(s)
  PROVE  /\ job' \in [Session -> Job \cup {Idle}]
         /\ job'[s].pc = "edited" /\ job'[s].case = job[s].case /\ job'[s].at = clock
         /\ job'[s].status = job[s].status
         /\ \A t \in Session : t # s => job'[t] = job[t]
         /\ EditOf(job[s], clock) \in Edit
         /\ status' \in [Case -> Status \cup {NoCase}]
<1>1. job[s] \in Job /\ job[s].case \in Case /\ job[s].status \in Status
  BY JobFields DEF CommitEdit, At
<1> DEFINE j == [job[s] EXCEPT !.pc = "edited", !.at = clock]
<1>2. /\ j \in Job /\ j.pc = "edited" /\ j.case = job[s].case /\ j.at = clock
      /\ j.status = job[s].status
  BY <1>1 DEF Job
<1>3. job' = [job EXCEPT ![s] = j]
  BY DEF CommitEdit
<1> HIDE DEF j
<1>4. /\ job'[s] = j /\ job' \in [Session -> Job \cup {Idle}]
      /\ \A t \in Session : t # s => job'[t] = job[t]
  BY <1>2, <1>3 DEF TrailTypeOK
<1>5. EditOf(job[s], clock) \in Edit /\ status' \in [Case -> Status \cup {NoCase}]
  BY <1>1 DEF EditOf, Edit, CommitEdit, TrailTypeOK
<1> QED
  BY <1>2, <1>4, <1>5

LEMMA RefreshTyped ==
  ASSUME TrailTypeOK, JobsFitCases, NEW s \in Session, Refresh(s)
  PROVE  /\ job' \in [Session -> Job \cup {Idle}]
         /\ job'[s].pc = "refreshed" /\ job'[s].case = job[s].case /\ job'[s].at = job[s].at
         /\ job'[s].status = job[s].status /\ job'[s].seen = status[job[s].case]
         /\ \A t \in Session : t # s => job'[t] = job[t]
<1>1. job[s] \in Job /\ job[s].case \in Case /\ status[job[s].case] \in Status
  BY JobFields DEF Refresh, At, JobsFitCases, Exists, TrailTypeOK
<1> DEFINE j == [job[s] EXCEPT !.pc = "refreshed", !.seen = status[job[s].case]]
<1>2. /\ j \in Job /\ j.pc = "refreshed" /\ j.case = job[s].case /\ j.at = job[s].at
      /\ j.status = job[s].status /\ j.seen = status[job[s].case]
  BY <1>1 DEF Job
<1>3. job' = [job EXCEPT ![s] = j]
  BY DEF Refresh
<1> HIDE DEF j
<1> QED
  BY <1>2, <1>3 DEF TrailTypeOK

LEMMA TrailTypeStep ==
  ASSUME EventInv, TrailTypeOK, JobsFitCases, [TrailNext]_trailVars
  PROVE  TrailTypeOK'
<1>1. CASE UNCHANGED trailVars
  BY <1>1 DEF trailVars, TrailTypeOK
<1>2. ASSUME NEW s \in Session, NEW c \in Case, NEW st \in Status,
             CreateCase(s, c) \/ Note(s, c) \/ ReadCase(s, c, st)
      PROVE  TrailTypeOK'
  <2>1. job' \in [Session -> Job \cup {Idle}] /\ UNCHANGED <<status, edits, told>>
    BY <1>2, StartTyped, StatusAssumption DEF CreateCase, Note, ReadCase
  <2> QED
    BY <2>1 DEF TrailTypeOK
<1>3. ASSUME NEW s \in Session, CommitEdit(s) PROVE TrailTypeOK'
  <2>1. clock \in Nat
    BY EventFields DEF EventInv
  <2>2. /\ job' \in [Session -> Job \cup {Idle}] /\ EditOf(job[s], clock) \in Edit
        /\ status' \in [Case -> Status \cup {NoCase}]
    BY <1>3, <2>1, CommitEditTyped
  <2>3. edits' = edits \cup {EditOf(job[s], clock)} /\ told' = told
    BY <1>3 DEF CommitEdit
  <2> QED
    BY <2>2, <2>3 DEF TrailTypeOK
<1>4. ASSUME NEW s \in Session, Refresh(s) PROVE TrailTypeOK'
  <2>1. job' \in [Session -> Job \cup {Idle}]
    BY <1>4, RefreshTyped
  <2>2. UNCHANGED <<status, edits, told>>
    BY <1>4 DEF Refresh
  <2> QED
    BY <2>1, <2>2 DEF TrailTypeOK
<1>5. ASSUME NEW s \in Session, TellEvent(s) \/ SealTold(s) \/ RecordTold(s) PROVE TrailTypeOK'
  BY <1>5 DEF TellEvent, SealTold, RecordTold, TrailTypeOK
<1>6. ASSUME NEW s \in Session, RequestFails(s) \/ RequestDies(s) PROVE TrailTypeOK'
  BY <1>6 DEF RequestFails, RequestDies, TrailTypeOK
<1>7. ASSUME NEW s \in Session, CommitTold(s) PROVE TrailTypeOK'
  <2>1. status' \in [Case -> Status \cup {NoCase}]
    BY <1>7, StatusAssumption, JobFields DEF CommitTold, TrailTypeOK
  <2>2. told' \subseteq [edit : Edit, seen : Status, hash : Nat]
    <3>1. CASE At(s, "refreshed")
      <4>1. EditOf(job[s], job[s].at) \in Edit /\ job[s].seen \in Status
        BY <3>1, JobFields DEF At, EditOf, Edit
      <4>2. \A e \in flushed[s] : e.hash \in Nat
        BY EventFields DEF EventInv
      <4> QED
        BY <1>7, <3>1, <4>1, <4>2 DEF CommitTold, TrailTypeOK
    <3>2. CASE ~At(s, "refreshed")
      BY <1>7, <3>2 DEF CommitTold, TrailTypeOK
    <3> QED
      BY <3>1, <3>2
  <2> QED
    BY <1>7, <2>1, <2>2 DEF CommitTold, TrailTypeOK
<1> QED
  BY <1>1, <1>2, <1>3, <1>4, <1>5, <1>6, <1>7, StatusAssumption DEF TrailNext

-----------------------------------------------------------------------------
(* CaseTrail: what steps have in common *)

\* A request whose job is left alone is where it was and tells what it told.
LEMMA JobUntouched ==
  ASSUME NEW t \in Session, job'[t] = job[t]
  PROVE  (\A pc : At(t, pc)' <=> At(t, pc)) /\ Tells(t)' = Tells(t)
BY DEF At, Tells

\* The fields of edits.
LEMMA EditFields ==
  ASSUME TrailTypeOK
  PROVE  /\ \A e \in edits : e.case \in Case /\ e.status \in Status /\ e.at \in Nat
         /\ \A c \in Case : status[c] \in Status \cup {NoCase}
BY DEF TrailTypeOK, Edit

\* Only s does something: the case it is at is there, or it alone creates it.
LEMMA JobsKept ==
  ASSUME JobsFitCases, NEW s \in Session,
         \A t \in Session : t # s => job'[t] = job[t],
         \A t \in Session : t # s /\ job[t].pc # "idle" =>
           (status'[job[t].case] = NoCase <=> status[job[t].case] = NoCase),
         job'[s].pc = "creating" =>
           /\ status'[job'[s].case] = NoCase
           /\ \A t \in Session : t # s /\ job[t].pc = "creating" => job[t].case # job'[s].case,
         job'[s].pc \notin {"idle", "creating"} => status'[job'[s].case] # NoCase
  PROVE  JobsFitCases'
<1>1. \A t \in Session :
        /\ job[t].pc = "creating" =>
             /\ status[job[t].case] = NoCase
             /\ \A u \in Session : job[u].pc = "creating" /\ job[u].case = job[t].case => u = t
        /\ job[t].pc \notin {"idle", "creating"} => status[job[t].case] # NoCase
  BY DEF JobsFitCases, At, Exists
<1>2. ASSUME NEW t \in Session, job'[t].pc = "creating"
      PROVE  /\ status'[job'[t].case] = NoCase
             /\ \A u \in Session : job'[u].pc = "creating" /\ job'[u].case = job'[t].case => u = t
  <2>1. CASE t = s
    BY <2>1, <1>2
  <2>2. CASE t # s
    <3>1. status'[job'[t].case] = NoCase
      BY <1>1, <1>2, <2>2
    <3>2. ASSUME NEW u \in Session, job'[u].pc = "creating", job'[u].case = job'[t].case
          PROVE  u = t
      <4>1. CASE u = s
        BY <1>2, <2>2, <3>2, <4>1
      <4>2. CASE u # s
        BY <1>1, <1>2, <2>2, <3>2, <4>2
      <4> QED
        BY <4>1, <4>2
    <3> QED
      BY <3>1, <3>2
  <2> QED
    BY <2>1, <2>2
<1>3. ASSUME NEW t \in Session, job'[t].pc \notin {"idle", "creating"}
      PROVE  status'[job'[t].case] # NoCase
  <2>1. CASE t = s
    BY <2>1, <1>3
  <2>2. CASE t # s
    BY <1>1, <1>3, <2>2
  <2> QED
    BY <2>1, <2>2
<1> QED
  BY <1>2, <1>3 DEF JobsFitCases, At, Exists

\* Only s does something, and the event it has flushed, if any, is its own.
LEMMA FlushedKept ==
  ASSUME FlushedFitsJob, NEW s \in Session,
         \A t \in Session : t # s =>
           job'[t] = job[t] /\ flushed'[t] = flushed[t] /\ pending'[t] = pending[t],
         \A e \in flushed'[s] :
           /\ e.case = job'[s].case /\ e.about \in Tells(s)'
           /\ e.prev = 0 <=> At(s, "creating")',
         pending'[s] # {} => flushed'[s] # {}
  PROVE  FlushedFitsJob'
<1>1. ASSUME NEW t \in Session
      PROVE  /\ \A e \in flushed'[t] :
                  /\ e.case = job'[t].case /\ e.about \in Tells(t)'
                  /\ e.prev = 0 <=> At(t, "creating")'
             /\ pending'[t] # {} => flushed'[t] # {}
  <2>1. CASE t = s
    BY <2>1
  <2>2. CASE t # s
    <3>1. (At(t, "creating")' <=> At(t, "creating")) /\ Tells(t)' = Tells(t)
      BY <2>2, JobUntouched
    <3> QED
      BY <2>2, <3>1 DEF FlushedFitsJob
  <2> QED
    BY <2>1, <2>2
<1> QED
  BY <1>1 DEF FlushedFitsJob

\* No event is committed, and no case made.
LEMMA RootsKept ==
  ASSUME TrailsRooted, events' = events, \A c \in Case : Exists(c)' <=> Exists(c),
         EventInv
  PROVE  TrailsRooted'
BY EventFields DEF TrailsRooted, EventInv

\* No edit is made, and nothing is read back or flushed.
LEMMA EditsKept ==
  ASSUME EditsShown, TrailTypeOK, clock \in Nat, clock' \in Nat, clock <= clock',
         edits' = edits, \A f \in edits : status'[f.case] = status[f.case],
         \A t \in Session : /\ job'[t] = job[t] \/ job'[t].pc \notin {"edited", "refreshed"}
                            /\ flushed'[t] \subseteq flushed[t]
  PROVE  EditsShown'
<1>1. \A f \in edits : f.at <= clock' /\ Exists(f.case)'
  BY EditFields DEF EditsShown, Exists
<1>2. \A f \in edits : \E e \in edits : NotAfter(f, e) /\ e.status = status'[f.case]
  BY DEF EditsShown
<1>3. ASSUME NEW t \in Session, At(t, "edited")' \/ At(t, "refreshed")'
      PROVE  job'[t] = job[t] /\ (At(t, "edited") \/ At(t, "refreshed"))
  BY <1>3 DEF At
<1>4. ASSUME NEW t \in Session, At(t, "refreshed")'
      PROVE  \E e \in edits : /\ NotAfter(EditOf(job'[t], job'[t].at), e)
                              /\ e.status = job'[t].seen
                              /\ \A x \in flushed'[t] : e.at < x.hash
  <2>1. job'[t] = job[t] /\ At(t, "refreshed")
    BY <1>3, <1>4 DEF At
  <2> QED
    BY <2>1 DEF EditsShown
<1> QED
  BY <1>1, <1>2, <1>3, <1>4 DEF EditsShown, NotAfter

\* What was told stays told, and edits are never taken back.
LEMMA ToldKept ==
  ASSUME EventTellsLatest, told' = told, edits \subseteq edits'
  PROVE  EventTellsLatest'
BY DEF EventTellsLatest

\* Nothing is told, no event is lost, no case is made, and the status of a case
\* without edits stays.
LEMMA RecordedKept ==
  ASSUME EditsRecorded, told' = told, events \subseteq events', edits \subseteq edits',
         \A c \in Case : Exists(c)' =>
           \/ \E e \in edits' : e.case = c
           \/ Exists(c) /\ status'[c] = status[c]
  PROVE  EditsRecorded'
<1>1. ASSUME NEW c \in Case, Exists(c)', \A e \in edits' : e.case # c
      PROVE  status'[c] = "open"
  <2>1. Exists(c) /\ status'[c] = status[c] /\ \A e \in edits : e.case # c
    BY <1>1
  <2> QED
    BY <2>1 DEF EditsRecorded
<1>2. \A t \in told' :
        /\ t.edit \in edits' /\ t.edit.at < t.hash
        /\ \E e \in events' : e.case = t.edit.case /\ e.hash = t.hash /\ e.about = t.seen
  BY DEF EditsRecorded
<1> QED
  BY <1>1, <1>2 DEF EditsRecorded

-----------------------------------------------------------------------------
(* CaseTrail: each step keeps the invariant *)

\* A request has flushed nothing until it tells.
LEMMA NothingFlushed ==
  ASSUME TrailInv, NEW s \in Session,
         At(s, "idle") \/ At(s, "editing") \/ At(s, "edited")
  PROVE  flushed[s] = {} /\ pending[s] = {}
BY TellsAt DEF TrailInv, FlushedFitsJob, At

\* A handler begins.
LEMMA StartKeeps ==
  ASSUME EventInv, TrailInv, NEW s \in Session, NEW c \in Case, NEW st \in Status,
         CreateCase(s, c) \/ Note(s, c) \/ ReadCase(s, c, st), TrailTypeOK'
  PROVE  TrailInv'
<1> USE DEF TrailInv
<1>1. /\ \E pc \in {"creating", "noting", "editing"} :
           /\ job'[s].pc = pc /\ job'[s].case = c
           /\ pc = "creating" => CreateCase(s, c)
           /\ pc # "creating" => Exists(c)
      /\ \A t \in Session : t # s => job'[t] = job[t]
      /\ At(s, "idle")
      /\ UNCHANGED <<vars, status, edits, told>>
  BY StartTyped, StatusAssumption DEF CreateCase, Note, ReadCase, Exists, Start
<1>2. /\ clock \in Nat /\ clock' = clock /\ events' = events /\ flushed' = flushed
      /\ pending' = pending /\ status' = status
  BY <1>1, EventFields DEF vars, EventInv
<1>3. flushed[s] = {} /\ pending[s] = {}
  BY <1>1, NothingFlushed
<1>4. JobsFitCases'
  <2>1. /\ job'[s].pc = "creating" =>
             /\ status'[job'[s].case] = NoCase
             /\ \A t \in Session : t # s /\ job[t].pc = "creating" => job[t].case # job'[s].case
        /\ job'[s].pc # "creating" => status'[job'[s].case] # NoCase
    BY <1>1, <1>2 DEF CreateCase, Exists, At
  <2> QED
    BY <1>1, <1>2, <2>1, JobsKept
<1>5. FlushedFitsJob'
  BY <1>1, <1>2, <1>3, FlushedKept
<1>6. TrailsRooted'
  BY <1>2, RootsKept DEF Exists
<1>7. EditsShown'
  BY <1>1, <1>2, EditsKept
<1>8. EventTellsLatest'
  BY <1>1, ToldKept
<1>9. EditsRecorded'
  BY <1>1, <1>2, RecordedKept DEF Exists
<1> QED
  BY <1>4, <1>5, <1>6, <1>7, <1>8, <1>9

\* A request ends without a commit.
LEMMA RollbackKeeps ==
  ASSUME EventInv, TrailInv, NEW s \in Session, RequestFails(s) \/ RequestDies(s), TrailTypeOK'
  PROVE  TrailInv'
<1> USE DEF TrailInv
<1>1. /\ job'[s] = Idle /\ \A t \in Session : t # s => job'[t] = job[t]
      /\ UNCHANGED <<status, edits, told>>
  BY DEF RequestFails, RequestDies, TrailTypeOK
<1>2. /\ clock \in Nat /\ clock' = clock /\ events' = events
      /\ flushed'[s] = {} /\ pending'[s] = {}
      /\ \A t \in Session : t # s => flushed'[t] = flushed[t] /\ pending'[t] = pending[t]
  <2>1. CASE SubmitFails(s) \/ Abort(s)
    BY <2>1, EventFields
    DEF SubmitFails, Abort, Ledger!SubmitFails, Ledger!Discard, EventInv, TypeOK, Ledger!TypeOK
  <2>2. CASE flushed[s] = {} /\ UNCHANGED vars
    BY <2>2, EventFields DEF vars, EventInv, FlushedFitsJob
  <2> QED
    BY <2>1, <2>2 DEF RequestFails, RequestDies
<1>3. JobsFitCases'
  <2>1. job'[s].pc = "idle"
    BY <1>1 DEF Idle
  <2> QED
    BY <1>1, <2>1, JobsKept
<1>4. FlushedFitsJob'
  BY <1>1, <1>2, FlushedKept
<1>5. TrailsRooted'
  BY <1>1, <1>2, RootsKept DEF Exists
<1>6. EditsShown'
  <2>1. \A t \in Session : /\ job'[t] = job[t] \/ job'[t].pc \notin {"edited", "refreshed"}
                           /\ flushed'[t] \subseteq flushed[t]
    BY <1>1, <1>2 DEF Idle
  <2> QED
    BY <1>1, <1>2, <2>1, EditsKept
<1>7. EventTellsLatest'
  BY <1>1, ToldKept
<1>8. EditsRecorded'
  BY <1>1, <1>2, RecordedKept DEF Exists
<1> QED
  BY <1>3, <1>4, <1>5, <1>6, <1>7, <1>8

\* What EditsShown says of a request that does nothing stays true.
LEMMA EditsOfOthers ==
  ASSUME EditsShown, NEW t \in Session, job'[t] = job[t], flushed'[t] \subseteq flushed[t],
         edits \subseteq edits'
  PROVE  /\ (At(t, "edited") \/ At(t, "refreshed"))' => EditOf(job'[t], job'[t].at) \in edits'
         /\ At(t, "refreshed")' =>
              \E e \in edits' : /\ NotAfter(EditOf(job'[t], job'[t].at), e)
                                /\ e.status = job'[t].seen
                                /\ \A x \in flushed'[t] : e.at < x.hash
<1>1. (At(t, "edited")' <=> At(t, "edited")) /\ (At(t, "refreshed")' <=> At(t, "refreshed"))
  BY JobUntouched
<1>2. ASSUME At(t, "refreshed")
      PROVE  \E e \in edits' : /\ NotAfter(EditOf(job[t], job[t].at), e)
                               /\ e.status = job[t].seen
                               /\ \A x \in flushed'[t] : e.at < x.hash
  <2>1. PICK e \in edits : /\ NotAfter(EditOf(job[t], job[t].at), e)
                           /\ e.status = job[t].seen
                           /\ \A x \in flushed[t] : e.at < x.hash
    BY <1>2 DEF EditsShown
  <2> QED
    BY <2>1
<1>3. At(t, "edited") \/ At(t, "refreshed") => EditOf(job[t], job[t].at) \in edits'
  BY DEF EditsShown
<1> QED
  BY <1>1, <1>2, <1>3

\* update_case commits an edit.
LEMMA CommitEditKeeps ==
  ASSUME EventInv, TrailInv, NEW s \in Session, CommitEdit(s), TrailTypeOK'
  PROVE  TrailInv'
<1> DEFINE c == job[s].case
           n == EditOf(job[s], clock)
<1>1. /\ clock \in Nat /\ clock' = clock /\ events' = events /\ flushed' = flushed
      /\ pending' = pending /\ told' = told
  BY EventFields DEF CommitEdit, vars, EventInv
<1>2. /\ job'[s].pc = "edited" /\ job'[s].case = c /\ job'[s].at = clock
      /\ job'[s].status = job[s].status
      /\ \A t \in Session : t # s => job'[t] = job[t]
  BY <1>1, CommitEditTyped DEF TrailInv
<1>3. /\ job[s].pc = "editing" /\ c \in Case /\ job[s].status \in Status /\ Exists(c)
      /\ job[s].status # NoCase
  BY JobFields, StatusAssumption DEF CommitEdit, At, TrailInv, JobsFitCases
<1>4. /\ status'[c] = job[s].status
      /\ \A d \in Case : d # c => status'[d] = status[d]
      /\ edits' = edits \cup {n}
  BY <1>3 DEF CommitEdit, TrailInv, TrailTypeOK
<1>5. \A d \in Case : status'[d] = NoCase <=> status[d] = NoCase
  BY <1>3, <1>4 DEF Exists
<1>6. n.case = c /\ n.status = job[s].status /\ n.at = clock
  BY DEF EditOf
<1>7. EditOf(job'[s], job'[s].at) = n
  BY <1>2 DEF EditOf
<1> HIDE DEF n
<1>8. JobsFitCases'
  <2>1. \A t \in Session : job[t].pc # "idle" => job[t].case \in Case
    BY JobFields DEF TrailInv, At
  <2>2. job'[s].pc = "edited" /\ status'[job'[s].case] # NoCase
    BY <1>2, <1>3, <1>4
  <2> QED
    BY <1>2, <1>5, <2>1, <2>2, JobsKept DEF TrailInv
<1>9. FlushedFitsJob'
  <2>1. flushed'[s] = {} /\ pending'[s] = {}
    BY <1>1, <1>3, NothingFlushed DEF At
  <2> QED
    BY <1>1, <1>2, <2>1, FlushedKept DEF TrailInv
<1>10. TrailsRooted'
  <2>1. \A d \in Case : Exists(d)' <=> Exists(d)
    BY <1>5 DEF Exists
  <2> QED
    BY <1>1, <2>1, RootsKept DEF TrailInv
<1>11. EditsShown'
  <2>1. \A f \in edits : f.at \in Nat /\ f.case \in Case
    BY EditFields DEF TrailInv
  <2>2. ASSUME NEW f \in edits'
        PROVE  /\ f.at <= clock' /\ status'[f.case] # NoCase
               /\ \E e \in edits' : NotAfter(f, e) /\ e.status = status'[f.case]
    <3>1. CASE f.case = c
      <4>1. f.at <= clock
        BY <1>1, <1>4, <1>6 DEF EditsShown, TrailInv
      <4>2. NotAfter(f, n) /\ n.status = status'[f.case]
        BY <1>4, <1>6, <3>1, <4>1 DEF NotAfter
      <4> QED
        BY <1>1, <1>3, <1>4, <3>1, <4>1, <4>2
    <3>2. CASE f.case # c
      <4>1. f \in edits /\ f.case \in Case /\ status'[f.case] = status[f.case]
        BY <1>4, <1>6, <2>1, <3>2
      <4>2. PICK e \in edits : NotAfter(f, e) /\ e.status = status[f.case]
        BY <4>1 DEF EditsShown, TrailInv
      <4>3. f.at <= clock /\ status[f.case] # NoCase
        BY <4>1 DEF EditsShown, TrailInv, Exists
      <4> QED
        BY <1>1, <1>4, <4>1, <4>2, <4>3
    <3> QED
      BY <3>1, <3>2
  <2>3. ASSUME NEW t \in Session
        PROVE  /\ (At(t, "edited") \/ At(t, "refreshed"))' =>
                    EditOf(job'[t], job'[t].at) \in edits'
               /\ At(t, "refreshed")' =>
                    \E e \in edits' : /\ NotAfter(EditOf(job'[t], job'[t].at), e)
                                      /\ e.status = job'[t].seen
                                      /\ \A x \in flushed'[t] : e.at < x.hash
    <3>1. CASE t = s
      BY <1>2, <1>4, <1>7, <3>1 DEF At
    <3>2. CASE t # s
      BY <1>1, <1>2, <1>4, <3>2, EditsOfOthers DEF TrailInv
    <3> QED
      BY <3>1, <3>2
  <2> QED
    BY <2>2, <2>3 DEF EditsShown, NotAfter, Exists
<1>12. EventTellsLatest'
  BY <1>1, <1>4, ToldKept DEF TrailInv
<1>13. EditsRecorded'
  <2>1. \A d \in Case : Exists(d)' =>
          \/ \E e \in edits' : e.case = d
          \/ Exists(d) /\ status'[d] = status[d]
    BY <1>4, <1>5, <1>6 DEF Exists
  <2> QED
    BY <1>1, <1>4, <2>1, RecordedKept DEF TrailInv
<1> QED
  BY <1>8, <1>9, <1>10, <1>11, <1>12, <1>13 DEF TrailInv

\* update_case reads the case again: it finds the status of the newest edit.
LEMMA RefreshKeeps ==
  ASSUME EventInv, TrailInv, NEW s \in Session, Refresh(s), TrailTypeOK'
  PROVE  TrailInv'
<1>1. /\ clock \in Nat /\ clock' = clock /\ events' = events /\ flushed' = flushed
      /\ pending' = pending /\ told' = told /\ status' = status /\ edits' = edits
  BY EventFields DEF Refresh, vars, EventInv
<1>2. /\ job'[s].pc = "refreshed" /\ job'[s].case = job[s].case /\ job'[s].at = job[s].at
      /\ job'[s].status = job[s].status /\ job'[s].seen = status[job[s].case]
      /\ \A t \in Session : t # s => job'[t] = job[t]
  BY RefreshTyped DEF TrailInv
<1>3. At(s, "edited") /\ status[job[s].case] # NoCase
  BY DEF Refresh, At, TrailInv, JobsFitCases, Exists
<1>4. flushed[s] = {} /\ pending[s] = {}
  BY <1>3, NothingFlushed
<1>5. JobsFitCases'
  BY <1>1, <1>2, <1>3, JobsKept DEF TrailInv
<1>6. FlushedFitsJob'
  BY <1>1, <1>2, <1>4, FlushedKept DEF TrailInv
<1>7. TrailsRooted'
  BY <1>1, RootsKept DEF TrailInv, Exists
<1>8. EditsShown'
  <2>1. EditOf(job'[s], job'[s].at) = EditOf(job[s], job[s].at)
    BY <1>2 DEF EditOf
  <2>2. EditOf(job[s], job[s].at) \in edits
    BY <1>3 DEF EditsShown, TrailInv
  <2>3. PICK e \in edits : /\ NotAfter(EditOf(job[s], job[s].at), e)
                           /\ e.status = status[EditOf(job[s], job[s].at).case]
    BY <2>2 DEF EditsShown, TrailInv
  <2>4. EditOf(job[s], job[s].at).case = job[s].case
    BY DEF EditOf
  <2>5. ASSUME NEW t \in Session
        PROVE  /\ (At(t, "edited") \/ At(t, "refreshed"))' =>
                    EditOf(job'[t], job'[t].at) \in edits'
               /\ At(t, "refreshed")' =>
                    \E x \in edits' : /\ NotAfter(EditOf(job'[t], job'[t].at), x)
                                      /\ x.status = job'[t].seen
                                      /\ \A y \in flushed'[t] : x.at < y.hash
    <3>1. CASE t = s
      BY <1>1, <1>2, <1>4, <2>1, <2>2, <2>3, <2>4, <3>1
    <3>2. CASE t # s
      BY <1>1, <1>2, <3>2, EditsOfOthers DEF TrailInv
    <3> QED
      BY <3>1, <3>2
  <2>6. ASSUME NEW f \in edits
        PROVE  /\ f.at <= clock /\ Exists(f.case)
               /\ \E x \in edits : NotAfter(f, x) /\ x.status = status[f.case]
    BY DEF EditsShown, TrailInv
  <2> QED
    BY <1>1, <2>5, <2>6 DEF EditsShown, Exists, NotAfter
<1>9. EventTellsLatest'
  BY <1>1, ToldKept DEF TrailInv
<1>10. EditsRecorded'
  BY <1>1, RecordedKept DEF TrailInv, Exists
<1> QED
  BY <1>5, <1>6, <1>7, <1>8, <1>9, <1>10 DEF TrailInv

\* A request calls the event service: the event is a root of the trail where it
\* creates the case, and where the case is there the trail has a root to follow.
LEMMA TellEventKeeps ==
  ASSUME EventInv, TrailInv, NEW s \in Session, TellEvent(s), TrailTypeOK'
  PROVE  TrailInv'
<1> DEFINE c == job[s].case
<1>1. PICK a \in Tells(s) : AppendEvent(s, c, a)
  BY DEF TellEvent
<1>2. PICK h \in {Ledger!Genesis} \cup {e.hash : e \in Trail(c)} :
        /\ IsNewest(h, Trail(c))
        /\ flushed' = [flushed EXCEPT ![s] =
             {[case |-> c, about |-> a, hash |-> clock + 1, prev |-> h]}]
  BY <1>1 DEF AppendEvent
<1> DEFINE n == [case |-> c, about |-> a, hash |-> clock + 1, prev |-> h]
<1>3. n.case = c /\ n.about = a /\ n.hash = clock + 1 /\ n.prev = h
  OBVIOUS
<1>4. /\ clock \in Nat /\ clock' = clock + 1 /\ events' = events /\ pending' = pending
      /\ UNCHANGED <<status, job, edits, told>>
  BY <1>1, EventFields DEF TellEvent, AppendEvent, Ledger!Tick, EventInv
<1>5. flushed'[s] = {n} /\ \A t \in Session : t # s => flushed'[t] = flushed[t]
  BY <1>2 DEF EventInv, TypeOK
<1> HIDE DEF n
<1>6. \A t \in Session : /\ \A pc : At(t, pc)' <=> At(t, pc)
                         /\ Tells(t)' = Tells(t)
  BY <1>4, JobUntouched
<1>7. c \in Case /\ (~At(s, "creating") => Exists(c)) /\ (At(s, "creating") => ~Exists(c))
  BY <1>1, TellsAbout, JobFields DEF TrailInv, JobsFitCases
<1>8. h = 0 <=> At(s, "creating")
  <2>1. CASE At(s, "creating")
    <3>1. Trail(c) = {}
      BY <1>7, <2>1 DEF Trail, TrailInv, TrailsRooted
    <3> QED
      BY <1>2, <2>1, <3>1 DEF Ledger!Genesis
  <2>2. CASE ~At(s, "creating")
    <3>1. PICK e \in events : e.case = c /\ e.prev = 0
      BY <1>7, <2>2 DEF TrailInv, TrailsRooted
    <3>2. e \in Trail(c)
      BY <3>1 DEF Trail
    <3>3. PICK f \in Trail(c) : h = f.hash
      BY <1>2, <3>2 DEF IsNewest
    <3>4. f \in events
      BY <3>3 DEF Trail
    <3>5. f.hash \in Nat /\ 0 < f.hash
      BY <3>4, EventFields DEF EventInv, EventsNamed
    <3> QED
      BY <2>2, <3>3, <3>5
  <2> QED
    BY <2>1, <2>2
<1>9. JobsFitCases'
  BY <1>4 DEF TrailInv, JobsFitCases, At, Exists
<1>10. FlushedFitsJob'
  BY <1>3, <1>4, <1>5, <1>6, <1>8, FlushedKept DEF TrailInv
<1>11. TrailsRooted'
  BY <1>4, RootsKept DEF TrailInv, Exists
<1>12. EditsShown'
  <2>1. \A f \in edits : f.at \in Nat /\ f.at <= clock
    BY EditFields DEF TrailInv, EditsShown
  <2>2. ASSUME NEW t \in Session
        PROVE  /\ (At(t, "edited") \/ At(t, "refreshed"))' =>
                    EditOf(job'[t], job'[t].at) \in edits'
               /\ At(t, "refreshed")' =>
                    \E e \in edits' : /\ NotAfter(EditOf(job'[t], job'[t].at), e)
                                      /\ e.status = job'[t].seen
                                      /\ \A x \in flushed'[t] : e.at < x.hash
    <3>1. CASE t = s
      <4>1. At(s, "edited") \/ At(s, "refreshed") => EditOf(job[s], job[s].at) \in edits
        BY DEF TrailInv, EditsShown
      <4>2. ASSUME At(s, "refreshed")
            PROVE  \E e \in edits : /\ NotAfter(EditOf(job[s], job[s].at), e)
                                    /\ e.status = job[s].seen
        BY <4>2 DEF TrailInv, EditsShown
      <4>3. \A e \in edits : \A x \in flushed'[s] : e.at < x.hash
        BY <1>3, <1>4, <1>5, <2>1
      <4> QED
        BY <1>4, <1>6, <3>1, <4>1, <4>2, <4>3
    <3>2. CASE t # s
      BY <1>4, <1>5, <3>2, EditsOfOthers DEF TrailInv
    <3> QED
      BY <3>1, <3>2
  <2>3. ASSUME NEW f \in edits
        PROVE  /\ f.at <= clock + 1 /\ Exists(f.case)
               /\ \E e \in edits : NotAfter(f, e) /\ e.status = status[f.case]
    BY <1>4, <2>1 DEF TrailInv, EditsShown
  <2> QED
    BY <1>4, <2>2, <2>3 DEF EditsShown, Exists, NotAfter
<1>13. EventTellsLatest'
  BY <1>4, ToldKept DEF TrailInv
<1>14. EditsRecorded'
  BY <1>4, RecordedKept DEF TrailInv, Exists
<1> QED
  BY <1>9, <1>10, <1>11, <1>12, <1>13, <1>14 DEF TrailInv

\* The event of a request is sealed; the request tells what it told.
LEMMA SealKeepsTrail ==
  ASSUME EventInv, TrailInv, NEW s \in Session, SealTold(s) \/ RecordTold(s), TrailTypeOK'
  PROVE  TrailInv'
<1>1. /\ UNCHANGED <<status, job, edits, told>> /\ events' = events /\ flushed' = flushed
      /\ clock \in Nat /\ clock' = clock + 1 /\ flushed[s] # {}
  BY EventFields
  DEF SealTold, RecordTold, Seal, RecordEvent, Ledger!Seal, Ledger!Record, eventVars, EventInv
<1>2. \A t \in Session : t # s => pending'[t] = pending[t]
  <2>1. CASE SealTold(s)
    BY <2>1 DEF SealTold, Seal, Ledger!Seal
  <2>2. CASE RecordTold(s)
    <3>1. PICK e \in flushed[s] : Ledger!Record(s, Sealed(e))
      BY <2>2 DEF RecordTold, RecordEvent
    <3> QED
      BY <3>1 DEF Ledger!Record, EventInv, TypeOK, Ledger!TypeOK
  <2> QED
    BY <2>1, <2>2
<1>3. JobsFitCases'
  BY <1>1 DEF TrailInv, JobsFitCases, At, Exists
<1>4. FlushedFitsJob'
  <2>1. \A e \in flushed'[s] :
          /\ e.case = job'[s].case /\ e.about \in Tells(s)'
          /\ e.prev = 0 <=> At(s, "creating")'
    BY <1>1, JobUntouched DEF TrailInv, FlushedFitsJob
  <2>2. \A t \in Session : t # s =>
          job'[t] = job[t] /\ flushed'[t] = flushed[t] /\ pending'[t] = pending[t]
    BY <1>1, <1>2
  <2>3. pending'[s] # {} => flushed'[s] # {}
    BY <1>1
  <2> QED
    BY <2>1, <2>2, <2>3, FlushedKept DEF TrailInv
<1>5. TrailsRooted'
  BY <1>1, RootsKept DEF TrailInv, Exists
<1>6. EditsShown'
  BY <1>1, EditsKept DEF TrailInv
<1>7. EventTellsLatest'
  BY <1>1, ToldKept DEF TrailInv
<1>8. EditsRecorded'
  BY <1>1, RecordedKept DEF TrailInv, Exists
<1> QED
  BY <1>3, <1>4, <1>5, <1>6, <1>7, <1>8 DEF TrailInv

\* The event is committed, and with it the case that it tells the creation of:
\* a new case has no trail and no edits yet.
LEMMA CommitToldKeeps ==
  ASSUME EventInv, TrailInv, NEW s \in Session, CommitTold(s), TrailTypeOK'
  PROVE  TrailInv'
<1> DEFINE c == job[s].case
<1>1. /\ clock \in Nat /\ clock' = clock + 1 /\ edits' = edits /\ pending[s] # {}
      /\ events' = events \cup {DurableEvent(e, clock + 1) : e \in flushed[s]}
      /\ job'[s] = Idle /\ \A t \in Session : t # s => job'[t] = job[t]
      /\ flushed'[s] = {} /\ \A t \in Session : t # s => flushed'[t] = flushed[t]
      /\ pending'[s] = {} /\ \A t \in Session : t # s => pending'[t] = pending[t]
  BY EventFields
  DEF CommitTold, Commit, Ledger!Commit, EventInv, TypeOK, Ledger!TypeOK, TrailInv, TrailTypeOK
<1>2. PICK x \in flushed[s] : TRUE
  BY <1>1 DEF TrailInv, FlushedFitsJob
<1>3. /\ x.case = c /\ x.about \in Tells(s) /\ (x.prev = 0 <=> At(s, "creating"))
      /\ x.hash \in Nat
  BY EventFields DEF TrailInv, FlushedFitsJob, EventInv
<1>4. At(s, "creating") => x.about = "case_created"
  BY <1>3, TellsAbout DEF TrailInv
<1>5. \A e \in flushed[s] : e = x
  BY DEF EventInv, EventsNamed
<1> DEFINE n == DurableEvent(x, clock + 1)
<1>6. n.case = c /\ n.about = x.about /\ n.prev = x.prev /\ n.hash = x.hash
  BY <1>3 DEF DurableEvent
<1>7. events' = events \cup {n}
  BY <1>1, <1>2, <1>5
<1> HIDE DEF n
<1>8. c \in Case /\ (~At(s, "creating") => Exists(c)) /\ (At(s, "creating") => ~Exists(c))
  BY <1>3, TellsAbout, JobFields DEF TrailInv, JobsFitCases
<1>9. /\ status'[c] # NoCase
      /\ \A d \in Case : d # c => status'[d] = status[d]
      /\ ~At(s, "creating") => status' = status
  BY <1>8, StatusAssumption DEF CommitTold, TrailInv, TrailTypeOK, Exists
<1>10. JobsFitCases'
  <2>1. ASSUME NEW t \in Session, t # s, job[t].pc # "idle"
        PROVE  status'[job[t].case] = NoCase <=> status[job[t].case] = NoCase
    <3>1. job[t].case \in Case
      BY <2>1, JobFields DEF TrailInv, At
    <3>2. At(s, "creating") => job[t].case # c
      <4>1. At(s, "creating") /\ At(t, "creating") => job[t].case # c
        BY <2>1 DEF TrailInv, JobsFitCases
      <4>2. ~At(t, "creating") => Exists(job[t].case)
        BY <2>1 DEF TrailInv, JobsFitCases, At
      <4> QED
        BY <1>8, <4>1, <4>2
    <3> QED
      BY <1>9, <3>1, <3>2
  <2>2. job'[s].pc = "idle"
    BY <1>1 DEF Idle
  <2> QED
    BY <1>1, <2>1, <2>2, JobsKept DEF TrailInv
<1>11. FlushedFitsJob'
  BY <1>1, FlushedKept DEF TrailInv
<1>12. TrailsRooted'
  <2>1. \A e \in events : e.case \in Case
    BY EventFields DEF EventInv
  <2>2. \A e \in events : e.case = c => ~At(s, "creating")
    BY <1>8 DEF TrailInv, TrailsRooted
  <2>3. ASSUME NEW e \in events'
        PROVE  status'[e.case] # NoCase /\ (e.prev = 0 => e.about = "case_created")
    <3>1. CASE e = n
      BY <1>3, <1>4, <1>6, <1>9, <3>1
    <3>2. CASE e \in events
      BY <1>9, <2>1, <3>2 DEF TrailInv, TrailsRooted, Exists
    <3> QED
      BY <1>7, <3>1, <3>2
  <2>4. ASSUME NEW d \in Case, status'[d] # NoCase
        PROVE  \E e \in events' : e.case = d /\ e.prev = 0
    <3>1. CASE d = c /\ At(s, "creating")
      BY <1>3, <1>6, <1>7, <3>1
    <3>2. CASE d # c \/ ~At(s, "creating")
      BY <1>7, <1>9, <2>4, <3>2 DEF TrailInv, TrailsRooted, Exists
    <3> QED
      BY <3>1, <3>2
  <2>5. ASSUME NEW e \in events', NEW f \in events', e.case = f.case, e.prev = 0, f.prev = 0
        PROVE  e = f
    BY <1>3, <1>6, <1>7, <2>2, <2>5 DEF TrailInv, TrailsRooted
  <2> QED
    BY <2>3, <2>4, <2>5 DEF TrailsRooted, Exists
<1>13. EditsShown'
  <2>1. ASSUME NEW f \in edits PROVE status'[f.case] = status[f.case]
    <3>1. f.case \in Case /\ Exists(f.case)
      BY EditFields DEF TrailInv, EditsShown
    <3> QED
      BY <1>8, <1>9, <3>1
  <2>2. clock <= clock' /\ clock' \in Nat
    BY <1>1
  <2>3. \A t \in Session : /\ job'[t] = job[t] \/ job'[t].pc \notin {"edited", "refreshed"}
                           /\ flushed'[t] \subseteq flushed[t]
    BY <1>1 DEF Idle
  <2> QED
    BY <1>1, <2>1, <2>2, <2>3, EditsKept DEF TrailInv
<1>14. EventTellsLatest'
  <2>1. CASE ~At(s, "refreshed")
    BY <1>1, <2>1, ToldKept DEF CommitTold, TrailInv
  <2>2. CASE At(s, "refreshed")
    <3> DEFINE j == EditOf(job[s], job[s].at)
    <3>1. PICK e \in edits : NotAfter(j, e) /\ e.status = job[s].seen /\ e.at < x.hash
      BY <1>2, <2>2 DEF TrailInv, EditsShown
    <3>2. told' = told \cup {[edit |-> j, seen |-> job[s].seen, hash |-> y.hash] : y \in flushed[s]}
      BY <2>2 DEF CommitTold
    <3> HIDE DEF j
    <3>3. ASSUME NEW t \in told'
          PROVE  \E y \in edits' :
                   /\ y.case = t.edit.case /\ y.status = t.seen
                   /\ y = t.edit \/ (t.edit.at <= y.at /\ y.at < t.hash)
      <4>1. CASE t \in told
        BY <1>1, <4>1 DEF TrailInv, EventTellsLatest
      <4>2. CASE t = [edit |-> j, seen |-> job[s].seen, hash |-> x.hash]
        BY <1>1, <3>1, <4>2 DEF NotAfter
      <4> QED
        BY <1>5, <3>2, <4>1, <4>2
    <3> QED
      BY <3>3 DEF EventTellsLatest
  <2> QED
    BY <2>1, <2>2
<1>15. EditsRecorded'
  <2>1. ASSUME NEW d \in Case, status'[d] # NoCase, \A e \in edits' : e.case # d
        PROVE  status'[d] = "open"
    <3>1. CASE d = c /\ At(s, "creating")
      BY <1>8, <3>1 DEF CommitTold, TrailInv, TrailTypeOK
    <3>2. CASE d # c \/ ~At(s, "creating")
      <4>1. status'[d] = status[d]
        BY <1>9, <3>2
      <4> QED
        BY <1>1, <2>1, <4>1 DEF TrailInv, EditsRecorded, Exists
    <3> QED
      BY <3>1, <3>2
  <2>2. ASSUME NEW t \in told'
        PROVE  /\ t.edit \in edits' /\ t.edit.at < t.hash
               /\ \E e \in events' : e.case = t.edit.case /\ e.hash = t.hash /\ e.about = t.seen
    <3>1. CASE t \in told
      BY <1>1, <1>7, <3>1 DEF TrailInv, EditsRecorded
    <3>2. CASE t \notin told
      <4> DEFINE j == EditOf(job[s], job[s].at)
      <4>1. At(s, "refreshed") /\ t = [edit |-> j, seen |-> job[s].seen, hash |-> x.hash]
        BY <1>5, <3>2 DEF CommitTold
      <4>2. t.edit = j /\ t.seen = job[s].seen /\ t.hash = x.hash /\ j.case = c
        BY <4>1 DEF EditOf
      <4>3. j \in edits /\ x.about = job[s].seen
        BY <1>3, <4>1, TellsAt DEF TrailInv, EditsShown
      <4> HIDE DEF j
      <4>4. PICK e \in edits : NotAfter(j, e) /\ e.at < x.hash
        BY <1>2, <4>1 DEF TrailInv, EditsShown, j
      <4>5. j.at \in Nat /\ e.at \in Nat
        BY <4>3, <4>4, EditFields DEF TrailInv
      <4>6. j.at < x.hash
        BY <1>3, <4>4, <4>5 DEF NotAfter
      <4> QED
        BY <1>1, <1>6, <1>7, <4>2, <4>3, <4>6
    <3> QED
      BY <3>1, <3>2
  <2> QED
    BY <2>1, <2>2 DEF EditsRecorded, Exists
<1> QED
  BY <1>10, <1>11, <1>12, <1>13, <1>14, <1>15 DEF TrailInv

-----------------------------------------------------------------------------
(* The theorems about the handlers *)

\* Every step of the handlers keeps the invariant.
LEMMA TrailStep == EventInv /\ TrailInv /\ [TrailNext]_trailVars => TrailInv'
<1> SUFFICES ASSUME EventInv, TrailInv, [TrailNext]_trailVars PROVE TrailInv'
  OBVIOUS
<1>1. TrailTypeOK'
  BY TrailTypeStep DEF TrailInv
<1>2. CASE UNCHANGED trailVars
  <2>1. /\ UNCHANGED <<status, job, edits, told>>
        /\ events' = events /\ flushed' = flushed /\ pending' = pending
        /\ clock' = clock /\ clock \in Nat
    BY <1>2, EventFields DEF trailVars, vars, EventInv
  <2>2. JobsFitCases'
    BY <2>1 DEF TrailInv, JobsFitCases, At, Exists
  <2>3. FlushedFitsJob'
    BY <2>1 DEF TrailInv, FlushedFitsJob, At, Tells
  <2>4. TrailsRooted'
    BY <2>1, RootsKept DEF TrailInv, Exists
  <2>5. EditsShown'
    BY <2>1, EditsKept DEF TrailInv
  <2>6. EventTellsLatest'
    BY <2>1, ToldKept DEF TrailInv
  <2>7. EditsRecorded'
    BY <2>1, RecordedKept DEF TrailInv, Exists
  <2> QED
    BY <1>1, <2>2, <2>3, <2>4, <2>5, <2>6, <2>7 DEF TrailInv
<1>3. ASSUME NEW s \in Session, NEW c \in Case, CreateCase(s, c) \/ Note(s, c)
      PROVE  TrailInv'
  BY <1>1, <1>3, StartKeeps, StatusAssumption
<1>4. ASSUME NEW s \in Session, NEW c \in Case, NEW st \in Status, ReadCase(s, c, st)
      PROVE  TrailInv'
  BY <1>1, <1>4, StartKeeps
<1>5. ASSUME NEW s \in Session, SealTold(s) \/ RecordTold(s) PROVE TrailInv'
  BY <1>1, <1>5, SealKeepsTrail
<1>6. ASSUME NEW s \in Session, RequestFails(s) \/ RequestDies(s) PROVE TrailInv'
  BY <1>1, <1>6, RollbackKeeps
<1> QED
  BY <1>1, <1>2, <1>3, <1>4, <1>5, <1>6, CommitEditKeeps, RefreshKeeps, TellEventKeeps,
     CommitToldKeeps
  DEF TrailNext

\* The invariants of the events and of the handlers hold in every reachable
\* state of the handlers.
LEMMA BothInvariants == TrailSpec => [](EventInv /\ TrailInv)
<1>1. TrailInit => EventInv
  BY DEF TrailInit, Init, EventInv, TypeOK, Ledger!TypeOK, Ledger!Init, Ledger!NoDraft,
         Ledger!Draft, Ledger!Genesis, EventsNamed, RecordsFollowEvents, Ledger!Sealing,
         EventsSealedOnce, EventsResolve, EventLinksResolve, EventsLinkNewest
<1>2. TrailInit => TrailInv
  <2> SUFFICES ASSUME TrailInit PROVE TrailInv
    OBVIOUS
  <2>1. /\ \A t \in Session : job[t] = Idle /\ flushed[t] = {} /\ pending[t] = {}
        /\ \A c \in Case : status[c] = NoCase
        /\ events = {} /\ edits = {} /\ told = {}
    BY DEF TrailInit, Init, Ledger!Init
  <2>2. \A t \in Session : ~At(t, "creating") /\ ~At(t, "edited") /\ ~At(t, "refreshed") /\ At(t, "idle")
    BY <2>1 DEF At, Idle
  <2>3. TrailTypeOK
    BY TrailTypeInit
  <2>4. JobsFitCases /\ FlushedFitsJob
    BY <2>1, <2>2 DEF JobsFitCases, FlushedFitsJob
  <2>5. TrailsRooted /\ EditsShown /\ EventTellsLatest /\ EditsRecorded
    BY <2>1, <2>2 DEF TrailsRooted, EditsShown, EventTellsLatest, EditsRecorded, Exists
  <2> QED
    BY <2>3, <2>4, <2>5 DEF TrailInv
<1>3. EventInv /\ TrailInv /\ [TrailNext]_trailVars => EventInv'
  BY StepOfEvents, EventStep DEF TrailInv
<1> QED
  BY <1>1, <1>2, <1>3, TrailStep, PTL DEF TrailSpec

\* The inductive invariant of the handlers: requests fit the state of their case,
\* what they have flushed fits them, trails are rooted, edits are shown.
THEOREM TrailInvariant == TrailSpec => []TrailInv
  BY BothInvariants, PTL

\* Every variable of the handlers keeps its type.
THEOREM TrailTypes == TrailSpec => []TrailTypeOK
  BY BothInvariants, PTL DEF TrailInv

\* The handlers' behaviours are ones of CaseEvents, whose theorems apply to them.
LEMMA TrailsUseEvents == TrailSpec => Spec
<1>1. TrailInit => Init
  BY DEF TrailInit
<1> QED
  BY <1>1, StepOfEvents, TrailTypes, PTL DEF TrailSpec, Spec

\* So the events that the handlers write are sealed once, linked within their
\* case, forked by overlapping requests only, and a chain where there are none.
THEOREM TrailsSealedAndLinked ==
  TrailSpec => [](/\ EventsSealedOnce
                  /\ EventLinksResolve
                  /\ EventForkOnlyByOverlap
                  /\ SerialTrailsIntact)
BY TrailsUseEvents, EventsAreSealedOnce, EventLinksAlwaysResolve, EventForksNeedOverlap,
   SerialTrailsAreChains, PTL

\* A case and the root of its trail appear together, and there is one of them:
\* the trail of a case never forks at its root.
THEOREM CreationsRootTrails == TrailSpec => []CreationRootsTrail
<1>1. ASSUME TrailInv, NEW c \in Case
      PROVE  LET roots == {e \in Trail(c) : e.prev = 0} IN
               /\ Cardinality(roots) = IF status[c] = NoCase THEN 0 ELSE 1
               /\ \A e \in roots : e.about = "case_created"
               /\ status[c] = NoCase => Trail(c) = {}
  <2> DEFINE roots == {e \in Trail(c) : e.prev = 0}
  <2>1. \A e \in roots : e.about = "case_created"
    BY <1>1 DEF TrailInv, TrailsRooted, Trail
  <2>2. CASE status[c] = NoCase
    <3>1. Trail(c) = {}
      BY <1>1, <2>2 DEF TrailInv, TrailsRooted, Trail, Exists
    <3>2. roots = {}
      BY <3>1
    <3> QED
      BY <2>1, <2>2, <3>1, <3>2, FS_EmptySet
  <2>3. CASE status[c] # NoCase
    <3>1. PICK e \in events : e.case = c /\ e.prev = 0
      BY <1>1, <2>3 DEF TrailInv, TrailsRooted, Exists
    <3>2. roots = {e}
      BY <1>1, <3>1 DEF TrailInv, TrailsRooted, Trail
    <3> HIDE DEF roots
    <3>3. Cardinality(roots) = 1
      BY <3>2, FS_Singleton
    <3> QED
      BY <2>1, <2>3, <3>3 DEF roots
  <2> QED
    BY <2>2, <2>3
<1>2. TrailInv => CreationRootsTrail
  BY <1>1 DEF CreationRootsTrail
<1> QED
  BY <1>2, TrailInvariant, PTL

\* The event of an edit tells the status that the edit has set, or that of an
\* edit committed after it and before the event, never an older one.
THEOREM EventsTellLatest == TrailSpec => []EventTellsLatest
  BY TrailInvariant, PTL DEF TrailInv

\* Once every edit was told, and as long as edits did not overlap, the newest
\* event of update_case tells the status of its case.
THEOREM TrailsTellStatus == TrailSpec => []TrailTellsStatusUntilOverlap
<1>1. ASSUME TrailInv, EventInv, NEW c \in Case, Exists(c), AllTold(c), EditsInTurn(c)
      PROVE  /\ TellingsOf(c) = {} => status[c] = "open"
             /\ \A t \in TellingsOf(c) : (\A u \in TellingsOf(c) : u.hash <= t.hash) =>
                  \E e \in Trail(c) : e.hash = t.hash /\ e.about = status[c]
  <2> USE DEF TrailInv
  <2>1. \A t \in told : t.edit \in edits /\ t.edit.at \in Nat /\ t.hash \in Nat
    BY <1>1, EditFields DEF EditsRecorded, TrailTypeOK
  <2>2. ASSUME TellingsOf(c) = {} PROVE status[c] = "open"
    <3>1. \A e \in edits : e.case # c
      BY <1>1, <2>2 DEF AllTold, TellingsOf
    <3> QED
      BY <1>1, <3>1 DEF EditsRecorded
  <2>3. ASSUME NEW t \in TellingsOf(c), \A u \in TellingsOf(c) : u.hash <= t.hash
        PROVE  \E e \in Trail(c) : e.hash = t.hash /\ e.about = status[c]
    <3>1. t \in told /\ t.edit \in edits /\ t.edit.case = c /\ t.edit.at < t.hash
      BY <1>1, <2>3 DEF TellingsOf, EditsRecorded
    <3>2. ASSUME NEW e \in edits, e.case = c, t.edit.at <= e.at, e # t.edit
          PROVE  FALSE
      <4>1. PICK u \in told : u.edit = e
        BY <1>1, <3>2 DEF AllTold
      <4>2. u \in TellingsOf(c) /\ u # t /\ e.at < u.hash /\ u.hash <= t.hash
        BY <1>1, <2>3, <3>2, <4>1 DEF TellingsOf, EditsRecorded
      <4>3. t.hash <= e.at \/ u.hash <= t.edit.at
        BY <1>1, <2>3, <4>1, <4>2 DEF EditsInTurn
      <4> QED
        BY <2>1, <3>1, <3>2, <4>1, <4>2, <4>3
    <3>3. PICK e \in edits : NotAfter(t.edit, e) /\ e.status = status[c]
      BY <1>1, <3>1 DEF EditsShown
    <3>4. t.edit.status = status[c]
      BY <3>1, <3>2, <3>3 DEF NotAfter
    <3>5. PICK f \in edits : /\ f.case = c /\ f.status = t.seen
                             /\ f = t.edit \/ t.edit.at <= f.at
      BY <1>1, <3>1 DEF EventTellsLatest
    <3>6. t.seen = status[c]
      BY <3>2, <3>4, <3>5
    <3> QED
      BY <1>1, <3>1, <3>6 DEF EditsRecorded, Trail
  <2> QED
    BY <2>2, <2>3
<1>2. TrailInv /\ EventInv => TrailTellsStatusUntilOverlap
  BY <1>1 DEF TrailTellsStatusUntilOverlap
<1> QED
  BY <1>2, BothInvariants, PTL

-----------------------------------------------------------------------------
(* Edits are told *)

\* s has committed the edit e and not yet told it.
Telling(s, e) ==
  (At(s, "edited") \/ At(s, "refreshed")) /\ EditOf(job[s], job[s].at) = e

\* Every edit is told by an event, or its request is still on the way to it.
EditsTold ==
  \A e \in edits : \/ \E t \in told : t.edit = e
                   \/ \E s \in Session : Telling(s, e)

NoRequestFails == \A s \in Session : ~RequestFails(s) /\ ~RequestDies(s)

\* Who is told stays told, who is telling goes on with it.
LEMMA EditsToldKept ==
  ASSUME EditsTold, edits' = edits, told \subseteq told',
         \A s \in Session : \A e \in edits :
           Telling(s, e) => Telling(s, e)' \/ \E t \in told' : t.edit = e
  PROVE  EditsTold'
BY DEF EditsTold

LEMMA EditsToldStep ==
  ASSUME EventInv, TrailInv, EditsTold, [TrailNext]_trailVars, [NoRequestFails]_trailVars
  PROVE  EditsTold'
<1> USE DEF TrailInv
<1>1. ASSUME NEW s \in Session, job'[s] = job[s], NEW e
      PROVE  Telling(s, e)' <=> Telling(s, e)
  BY <1>1 DEF Telling, At, EditOf
<1>2. CASE UNCHANGED trailVars
  BY <1>2 DEF trailVars, EditsTold, Telling, At, EditOf
<1>3. ASSUME NEW s \in Session, NEW c \in Case, NEW st \in Status,
             CreateCase(s, c) \/ Note(s, c) \/ ReadCase(s, c, st)
      PROVE  EditsTold'
  <2>1. /\ At(s, "idle") /\ UNCHANGED <<edits, told>>
        /\ \A t \in Session : t # s => job'[t] = job[t]
    BY <1>3, StartTyped, StatusAssumption DEF CreateCase, Note, ReadCase, Start
  <2>2. \A e : ~Telling(s, e)
    BY <2>1 DEF Telling, At
  <2> QED
    BY <1>1, <2>1, <2>2, EditsToldKept
<1>4. ASSUME NEW s \in Session, CommitEdit(s) PROVE EditsTold'
  <2>1. clock \in Nat
    BY EventFields DEF EventInv
  <2>2. /\ job'[s].pc = "edited" /\ job'[s].case = job[s].case /\ job'[s].at = clock
        /\ job'[s].status = job[s].status
        /\ \A t \in Session : t # s => job'[t] = job[t]
    BY <1>4, <2>1, CommitEditTyped
  <2>3. edits' = edits \cup {EditOf(job[s], clock)} /\ told' = told /\ At(s, "editing")
    BY <1>4 DEF CommitEdit
  <2>4. \A e : ~Telling(s, e)
    BY <2>3 DEF Telling, At
  <2>5. ASSUME NEW e \in edits'
        PROVE  (\E t \in told' : t.edit = e) \/ (\E t \in Session : Telling(t, e)')
    <3>1. CASE e \in edits
      BY <1>1, <2>2, <2>3, <2>4, <3>1 DEF EditsTold
    <3>2. CASE e = EditOf(job[s], clock)
      <4>1. Telling(s, e)'
        BY <2>2, <3>2 DEF Telling, At, EditOf
      <4> QED
        BY <4>1
    <3> QED
      BY <2>3, <3>1, <3>2
  <2> QED
    BY <2>5 DEF EditsTold
<1>5. ASSUME NEW s \in Session, Refresh(s) PROVE EditsTold'
  <2>1. /\ job'[s].pc = "refreshed" /\ job'[s].case = job[s].case /\ job'[s].at = job[s].at
        /\ job'[s].status = job[s].status
        /\ \A t \in Session : t # s => job'[t] = job[t]
    BY <1>5, RefreshTyped
  <2>2. UNCHANGED <<edits, told>>
    BY <1>5 DEF Refresh
  <2>3. ASSUME NEW e, Telling(s, e) PROVE Telling(s, e)'
    BY <2>1, <2>3 DEF Telling, At, EditOf
  <2> QED
    BY <1>1, <2>1, <2>2, <2>3, EditsToldKept
<1>6. ASSUME NEW s \in Session, TellEvent(s) \/ SealTold(s) \/ RecordTold(s) PROVE EditsTold'
  <2>1. UNCHANGED <<job, edits, told>>
    BY <1>6 DEF TellEvent, SealTold, RecordTold
  <2> QED
    BY <1>1, <2>1, EditsToldKept
<1>7. ASSUME NEW s \in Session, CommitTold(s) PROVE EditsTold'
  <2>1. /\ pending[s] # {} /\ edits' = edits /\ told \subseteq told'
        /\ \A t \in Session : t # s => job'[t] = job[t]
    BY <1>7 DEF CommitTold, Commit, Ledger!Commit
  <2>2. PICK x \in flushed[s] : TRUE
    BY <2>1 DEF FlushedFitsJob
  <2>3. ASSUME NEW e, Telling(s, e) PROVE \E t \in told' : t.edit = e
    <3>1. At(s, "refreshed")
      BY <2>2, <2>3, NothingFlushed DEF Telling
    <3> DEFINE t == [edit |-> EditOf(job[s], job[s].at), seen |-> job[s].seen, hash |-> x.hash]
    <3>2. t \in told'
      BY <1>7, <2>2, <3>1 DEF CommitTold
    <3>3. t.edit = e
      BY <2>3 DEF Telling
    <3> QED
      BY <3>2, <3>3
  <2> QED
    BY <1>1, <2>1, <2>3, EditsToldKept
<1>8. ASSUME NEW s \in Session, RequestFails(s) \/ RequestDies(s), ~UNCHANGED trailVars
      PROVE  EditsTold'
  BY <1>8 DEF NoRequestFails
<1> QED
  BY <1>2, <1>3, <1>4, <1>5, <1>6, <1>7, <1>8, StatusAssumption DEF TrailNext

\* update_case commits the edit before its event is written (api.py:200).  Only a
\* request that fails or dies leaves an edit untold, and no race of requests does:
\* while none fails, every edit is told or its request is on the way to it.
THEOREM EditsAreTold == TrailSpec /\ [][NoRequestFails]_trailVars => []EditsTold
<1>1. TrailInit => EditsTold
  BY DEF TrailInit, EditsTold
<1> QED
  BY <1>1, BothInvariants, EditsToldStep, PTL DEF TrailSpec
=============================================================================
