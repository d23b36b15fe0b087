----------------------------- MODULE CaseEvents -----------------------------
(***************************************************************************)
(* CaseEventService.create (backend/app/services.py): the hash-chained     *)
(* event trail of each case, composed with the audit ledger that seals it. *)
(*                                                                         *)
(* A call reads the newest committed event of its case, chains the new     *)
(* event behind it and flushes it (AppendEvent), seals it in the ledger    *)
(* (Seal, RecordEvent) and commits the whole transaction (Commit), with    *)
(* whatever its caller had flushed before, ledger records of other kinds   *)
(* included (RecordOther).                                                 *)
(*                                                                         *)
(* As in AuditLedger a hash is the tick at which it was computed; the      *)
(* created_at of an event is part of what is hashed, so it is that tick.   *)
(***************************************************************************)
EXTENDS Naturals, FiniteSets

CONSTANTS
  Session,     \* concurrent requests
  Case,        \* cases
  About,       \* what an event tells: its type, action and details
  OtherKind,   \* event types of ledger records written by other services
  OtherRef,    \* what those records are about
  Provider,    \* BLOCKCHAIN_PROVIDER
  MaxClock     \* bound: no event or record is begun after this many ticks

ASSUME ProviderAssumption == Provider \in {"local", "fabric"}
ASSUME MaxClockAssumption == MaxClock \in Nat
ASSUME OtherKindAssumption == "case_event" \notin OtherKind
ASSUME OtherRefAssumption == OtherRef \subseteq 0..MaxClock

VARIABLES
  ledger, pending, draft, clock, gateway,   \* as in AuditLedger
  events,     \* committed rows of case_events
  flushed     \* the event a session has flushed and not committed

eventVars == <<events, flushed>>
ledgerVars == <<ledger, pending, draft, clock, gateway>>
vars == <<ledger, pending, draft, clock, gateway, events, flushed>>

\* A ledger record is about something of a kind: an event, by its hash, or
\* something of another service.
Body == [kind : OtherKind \cup {"case_event"}, ref : 0..MaxClock]

Ledger == INSTANCE AuditLedger

Event == [case : Case, about : About, hash : Nat, prev : Nat]
CommittedEvent == [case : Case, about : About, hash : Nat, prev : Nat, done : Nat]

TypeOK ==
  /\ Ledger!TypeOK
  /\ events \subseteq CommittedEvent
  /\ flushed \in [Session -> SUBSET Event]

-----------------------------------------------------------------------------
Trail(c) == {e \in events : e.case = c}

\* Mutant of IsNewest: the event is read from a replica that lags behind.
IsNewestOnReplica(h, trail) == h = Ledger!Genesis \/ \E e \in trail : h = e.hash

\* h is the event_hash of the newest event of trail.
IsNewest(h, trail) ==
  \/ trail = {} /\ h = Ledger!Genesis
  \/ \E e \in trail : h = e.hash /\ \A f \in trail : f.hash <= e.hash

\* The ledger payload of an event.
Sealed(e) == [kind |-> "case_event", ref |-> e.hash]

\* Has the ledger record of e been flushed by s?
Recorded(s, e) == \E r \in pending[s] : r.body = Sealed(e)

\* The event e once it is committed at tick t.
DurableEvent(e, t) ==
  [case |-> e.case, about |-> e.about, hash |-> e.hash, prev |-> e.prev, done |-> t]

-----------------------------------------------------------------------------
Init ==
  /\ Ledger!Init
  /\ events = {}
  /\ flushed = [s \in Session |-> {}]

\* The previous event is read, the new one is hashed over it and flushed.
AppendEvent(s, c, a) ==
  /\ flushed[s] = {}
  /\ ~Ledger!Sealing(s)
  /\ Ledger!Tick
  /\ \E h \in {Ledger!Genesis} \cup {e.hash : e \in Trail(c)} :
       /\ IsNewest(h, Trail(c))
       /\ flushed' = [flushed EXCEPT ![s] =
            {[case |-> c, about |-> a, hash |-> clock + 1, prev |-> h]}]
  /\ UNCHANGED events

\* A record() call begins, for the event or for the caller.
Seal(s) ==
  /\ \A e \in flushed[s] : ~Recorded(s, e)
  /\ Ledger!Seal(s)
  /\ UNCHANGED eventVars

\* The record() call of create() flushes the ledger row of the event.
RecordEvent(s) ==
  /\ \E e \in flushed[s] : Ledger!Record(s, Sealed(e))
  /\ UNCHANGED eventVars

\* A record() call of the caller, outside create().
RecordOther(s, k, ref) ==
  /\ flushed[s] = {}
  /\ Ledger!Record(s, [kind |-> k, ref |-> ref])
  /\ UNCHANGED eventVars

\* Mutant of Commit: the event is committed before it is sealed.
CommitUnsealed(s) ==
  /\ Ledger!Commit(s)
  /\ events' = events \cup {DurableEvent(e, clock + 1) : e \in flushed[s]}
  /\ flushed' = [flushed EXCEPT ![s] = {}]

\* Everything the session has flushed becomes visible.
Commit(s) ==
  /\ \A e \in flushed[s] : Recorded(s, e)
  /\ Ledger!Commit(s)
  /\ events' = events \cup {DurableEvent(e, clock + 1) : e \in flushed[s]}
  /\ flushed' = [flushed EXCEPT ![s] = {}]

\* Mutant of SubmitFails: the record is written without the gateway.
SubmitFallsBack(s) ==
  /\ Ledger!Sealing(s)
  /\ \E e \in flushed[s] :
       pending' = [pending EXCEPT ![s] = @ \cup {Ledger!FlushedRow(s, Sealed(e), clock)}]
  /\ draft' = [draft EXCEPT ![s] = Ledger!NoDraft]
  /\ UNCHANGED <<ledger, clock, gateway, events, flushed>>

\* LedgerError: the caller rolls back.
SubmitFails(s) ==
  /\ Ledger!SubmitFails(s)
  /\ flushed' = [flushed EXCEPT ![s] = {}]
  /\ UNCHANGED events

\* The caller fails for a reason of its own, or the process dies.
Abort(s) ==
  /\ Ledger!Sealing(s) \/ pending[s] # {} \/ flushed[s] # {}
  /\ Ledger!Discard(s)
  /\ flushed' = [flushed EXCEPT ![s] = {}]
  /\ UNCHANGED <<gateway, events>>

Next ==
  \E s \in Session :
    \/ \E c \in Case, a \in About : AppendEvent(s, c, a)
    \/ Seal(s)
    \/ RecordEvent(s)
    \/ \E k \in OtherKind, ref \in OtherRef : RecordOther(s, k, ref)
    \/ Commit(s)
    \/ SubmitFails(s)
    \/ Abort(s)

Spec == Init /\ [][Next]_vars

-----------------------------------------------------------------------------
(* Properties *)

\* Every behaviour of the composition is one of the audit ledger, so what is
\* proved of AuditLedger holds of the ledger the case events are sealed in.
UsesLedger == Ledger!Spec

\* An event and its ledger record stand or fall together: no event is
\* committed without the record that seals it, no such record without its
\* event, and no event is sealed twice (services.py:274-278).
EventsSealedOnce ==
  /\ \A e \in events : \E r \in ledger : r.body = Sealed(e) /\ r.done = e.done
  /\ \A r \in ledger : r.body.kind = "case_event" =>
       \E e \in events : r.body = Sealed(e)
  /\ \A r, q \in ledger :
       r.body.kind = "case_event" /\ r.body = q.body => r = q

\* previous_event_hash names an older committed event of the same case,
\* never one of another case or one that was rolled back.
EventLinksResolve ==
  \A e \in events :
    \/ e.prev = Ledger!Genesis
    \/ \E p \in events : p.hash = e.prev /\ p.case = e.case /\ p.done < e.hash

\* Two events of a case follow the same event only when the requests that
\* appended them were open at the same time.
EventForkOnlyByOverlap ==
  \A e, f \in events :
    e # f /\ e.case = f.case /\ e.prev = f.prev => e.hash < f.done /\ f.hash < e.done

-----------------------------------------------------------------------------
(* The inductive invariant behind these properties *)

\* An event is hashed, then committed; no two have a hash in common, and a
\* request has one under way.
EventsNamed ==
  /\ \A e \in events : 0 < e.hash /\ e.hash < e.done /\ e.done <= clock
  /\ \A s \in Session : \A e \in flushed[s] :
       0 < e.hash /\ e.hash <= clock /\ e.hash <= MaxClock
  /\ \A e, f \in events : e.hash = f.hash => e = f
  /\ \A s \in Session : \A e \in flushed[s], f \in events :
       e.hash # f.hash /\ e.hash # f.done
  /\ \A e, f \in events : e.hash # f.done
  /\ \A s, t \in Session : \A e \in flushed[s], f \in flushed[t] :
       s = t \/ e.hash = f.hash => s = t /\ e = f

\* The ledger rows about events that a request has flushed are about its own
\* event, one at most, and none while the row is still being sealed.
RecordsFollowEvents ==
  \A s \in Session :
    /\ \A r \in pending[s] : r.body.kind = "case_event" =>
         \E e \in flushed[s] : r.body = Sealed(e)
    /\ \A r, q \in pending[s] : r.body.kind = "case_event" /\ r.body = q.body => r = q
    /\ Ledger!Sealing(s) => \A e \in flushed[s] : ~Recorded(s, e)

\* Events link to older committed events of their case ...
LinksTo(e, p) == p.hash = e.prev /\ p.case = e.case
EventsResolve ==
  /\ EventLinksResolve
  /\ \A s \in Session : \A e \in flushed[s] :
       e.prev = Ledger!Genesis \/ \E p \in events : LinksTo(e, p) /\ p.done < e.hash

\* ... and to none older than one that was committed before they were hashed.
EventReaches(e, f) == \E p \in events : LinksTo(e, p) /\ f.hash <= p.hash
EventsLinkNewest ==
  /\ \A e, f \in events :
       e.case = f.case /\ f.done < e.hash => EventReaches(e, f)
  /\ \A s \in Session : \A e \in flushed[s], f \in events :
       e.case = f.case /\ f.done < e.hash => EventReaches(e, f)

EventInv ==
  /\ TypeOK
  /\ EventsNamed
  /\ RecordsFollowEvents
  /\ EventsSealedOnce
  /\ EventsResolve
  /\ EventsLinkNewest
=============================================================================
