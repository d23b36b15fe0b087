----------------------------- MODULE CaseTrail -----------------------------
(***************************************************************************)
(* The three handlers of backend/app/api.py that write to the trail of a   *)
(* case: create_case, update_case and create_case_event, each a client of  *)
(* CaseEventService.create (CaseEvents) and through it of the ledger.      *)
(* What they do with the session in between is added to the steps of       *)
(* CaseEvents; none of them writes other ledger records.                   *)
(*                                                                         *)
(* create_case flushes the case and its creator's grant and leaves the     *)
(* commit to the service.  update_case commits the edit first, reads the   *)
(* case again and only then calls the service.                             *)
(***************************************************************************)
EXTENDS CaseEvents

CONSTANTS
  Status,     \* states of a case; cases are created "open"
  MaxEdits    \* bound: no more edits are committed than this

NoCase == "no case"

ASSUME StatusAssumption == "open" \in Status /\ NoCase \notin Status

\* create_case tells "case_created", update_case a status under the type
\* "case_updated", create_case_event whatever the officer notes: its event_type
\* is free (schemas.py:135) and may be one that the other handlers use.
ASSUME AboutAssumption ==
  /\ {"case_created"} \cup Status \subseteq About
  /\ "case_created" \notin Status

VARIABLES
  status,   \* committed cases and their status
  job,      \* what each request is doing
  edits,    \* history: committed edits of update_case
  told      \* history: which edits were told, and as which status

trailVars == <<vars, status, job, edits, told>>

Idle == [pc |-> "idle"]
\* status is the one asked for, seen the one that refresh() read, at the tick
\* of the edit's commit.
Job == [pc : {"creating", "noting", "editing", "edited", "refreshed"}, case : Case,
        status : Status, seen : Status, at : Nat]
Edit == [case : Case, status : Status, at : Nat]

TrailTypeOK ==
  /\ status \in [Case -> Status \cup {NoCase}]
  /\ job \in [Session -> Job \cup {Idle}]
  /\ edits \subseteq Edit
  /\ told \subseteq [edit : Edit, seen : Status, hash : Nat]

-----------------------------------------------------------------------------
At(s, pc) == job[s].pc = pc
Start(s, pc, c, st) ==
  /\ At(s, "idle")
  /\ job' = [job EXCEPT ![s] =
       [pc |-> pc, case |-> c, status |-> st, seen |-> st, at |-> 0]]

TrailInit ==
  /\ Init
  /\ status = [c \in Case |-> NoCase]
  /\ job = [s \in Session |-> Idle]
  /\ edits = {}
  /\ told = {}

\* create_case flushes a case with an unused number.
CreateCase(s, c) ==
  /\ status[c] = NoCase
  /\ \A t \in Session : At(t, "creating") => job[t].case # c
  /\ Start(s, "creating", c, "open")
  /\ UNCHANGED <<vars, status, edits, told>>

\* update_case finds a status that differs from the one asked for.
ReadCase(s, c, st) ==
  /\ status[c] \notin {NoCase, st}
  /\ Start(s, "editing", c, st)
  /\ UNCHANGED <<vars, status, edits, told>>

\* The edit that update_case makes at tick t.
EditOf(j, t) == [case |-> j.case, status |-> j.status, at |-> t]

\* Mutant of CommitEdit: the case is read back before the commit.
CommitEditRead(s) ==
  /\ At(s, "editing")
  /\ Cardinality(edits) < MaxEdits
  /\ status' = [status EXCEPT ![job[s].case] = job[s].status]
  /\ edits' = edits \cup {EditOf(job[s], clock)}
  /\ job' = [job EXCEPT ![s].pc = "refreshed", ![s].seen = status[job[s].case],
                        ![s].at = clock]
  /\ UNCHANGED <<vars, told>>

\* ... and commits the new one.
CommitEdit(s) ==
  /\ At(s, "editing")
  /\ Cardinality(edits) < MaxEdits
  /\ status' = [status EXCEPT ![job[s].case] = job[s].status]
  /\ edits' = edits \cup {EditOf(job[s], clock)}
  /\ job' = [job EXCEPT ![s].pc = "edited", ![s].at = clock]
  /\ UNCHANGED <<vars, told>>

\* ... and reads the case again.
Refresh(s) ==
  /\ At(s, "edited")
  /\ job' = [job EXCEPT ![s].pc = "refreshed", ![s].seen = status[job[s].case]]
  /\ UNCHANGED <<vars, status, edits, told>>

\* Mutant of Note: the case is not looked up.
NoteBlind(s, c) ==
  /\ Start(s, "noting", c, "open")
  /\ UNCHANGED <<vars, status, edits, told>>

\* create_case_event finds the case.
Note(s, c) ==
  /\ status[c] # NoCase
  /\ Start(s, "noting", c, "open")
  /\ UNCHANGED <<vars, status, edits, told>>

\* What the request has to tell.
Tells(s) ==
  CASE At(s, "creating") -> {"case_created"}
    [] At(s, "noting") -> About
    [] At(s, "refreshed") -> {job[s].seen}
    [] OTHER -> {}

\* The request calls CaseEventService.create ...
TellEvent(s) ==
  /\ \E a \in Tells(s) : AppendEvent(s, job[s].case, a)
  /\ UNCHANGED <<status, job, edits, told>>

SealTold(s) ==
  /\ flushed[s] # {}
  /\ Seal(s)
  /\ UNCHANGED <<status, job, edits, told>>

RecordTold(s) ==
  /\ RecordEvent(s)
  /\ UNCHANGED <<status, job, edits, told>>

\* ... whose commit takes along the case that was just created.
CommitTold(s) ==
  /\ Commit(s)
  /\ status' = IF At(s, "creating") THEN [status EXCEPT ![job[s].case] = "open"]
                                    ELSE status
  /\ told' = IF At(s, "refreshed")
             THEN told \cup {[edit |-> EditOf(job[s], job[s].at), seen |-> job[s].seen,
                               hash |-> e.hash] : e \in flushed[s]}
             ELSE told
  /\ job' = [job EXCEPT ![s] = Idle]
  /\ UNCHANGED edits

\* LedgerError: the session is rolled back, whether the handler does it
\* (create_case_event) or the end of the request (get_db).
RequestFails(s) ==
  /\ SubmitFails(s)
  /\ job' = [job EXCEPT ![s] = Idle]
  /\ UNCHANGED <<status, edits, told>>

\* The request dies for another reason.
RequestDies(s) ==
  /\ ~At(s, "idle")
  /\ \/ Abort(s)
     \/ flushed[s] = {} /\ UNCHANGED vars
  /\ job' = [job EXCEPT ![s] = Idle]
  /\ UNCHANGED <<status, edits, told>>

TrailNext ==
  \E s \in Session :
    \/ \E c \in Case :
         \/ CreateCase(s, c)
         \/ Note(s, c)
         \/ \E st \in Status : ReadCase(s, c, st)
    \/ CommitEdit(s)
    \/ Refresh(s)
    \/ TellEvent(s)
    \/ SealTold(s)
    \/ RecordTold(s)
    \/ CommitTold(s)
    \/ RequestFails(s)
    \/ RequestDies(s)

TrailSpec == TrailInit /\ [][TrailNext]_trailVars

-----------------------------------------------------------------------------
(* Properties *)

\* A case and the first event of its trail appear together: a trail has one
\* root, which tells the creation, and the trail of no case is empty, so the
\* requests that race for a case can never fork its trail at the root.  (Later
\* events may tell a creation too: an officer may post one of that type.)
CreationRootsTrail ==
  \A c \in Case :
    LET roots == {e \in Trail(c) : e.prev = 0} IN
      /\ Cardinality(roots) = IF status[c] = NoCase THEN 0 ELSE 1
      /\ \A e \in roots : e.about = "case_created"
      /\ status[c] = NoCase => Trail(c) = {}

\* The event of an edit (api.py:202, "Log the edit/status change") tells the
\* status that the edit has set, or that of an edit which another request has
\* committed between it and the event: never an older one.
EventTellsLatest ==
  \A t \in told : \E e \in edits :
    /\ e.case = t.edit.case
    /\ e.status = t.seen
    /\ e = t.edit \/ (t.edit.at <= e.at /\ e.at < t.hash)

Exists(c) == status[c] # NoCase

\* The tellings of the edits of c; all its edits have one, and no request made
\* an edit of c between another's edit and its event.
TellingsOf(c) == {t \in told : t.edit.case = c}
AllTold(c) == \A e \in edits : e.case = c => \E t \in told : t.edit = e
EditsInTurn(c) ==
  \A t, u \in TellingsOf(c) : t # u => t.hash <= u.edit.at \/ u.hash <= t.edit.at

\* The trail can be read for the status of its case: once every edit was told
\* (api.py:200 commits it before its event) and as long as edits did not
\* overlap, the newest event that update_case wrote tells the status that the
\* case has, and a case without such an event is open as it was created.
TrailTellsStatusUntilOverlap ==
  \A c \in Case : Exists(c) /\ AllTold(c) /\ EditsInTurn(c) =>
    /\ TellingsOf(c) = {} => status[c] = "open"
    /\ \A t \in TellingsOf(c) : (\A u \in TellingsOf(c) : u.hash <= t.hash) =>
         \E e \in Trail(c) : e.hash = t.hash /\ e.about = status[c]

-----------------------------------------------------------------------------
(* The inductive invariant behind these properties *)

\* A case that is being created is not there and is created by one request; all
\* others are at work on a case that is there.
JobsFitCases ==
  \A s \in Session :
    /\ At(s, "creating") =>
         /\ ~Exists(job[s].case)
         /\ \A t \in Session : At(t, "creating") /\ job[t].case = job[s].case => t = s
    /\ ~At(s, "idle") /\ ~At(s, "creating") => Exists(job[s].case)

\* What is flushed is the event of its request, sealed or not, and it is a root
\* where the request creates the case.
FlushedFitsJob ==
  \A s \in Session :
    /\ \A e \in flushed[s] :
         e.case = job[s].case /\ e.about \in Tells(s) /\ (e.prev = 0 <=> At(s, "creating"))
    /\ pending[s] # {} => flushed[s] # {}

\* Trails are those of cases, and each has one root.
TrailsRooted ==
  /\ \A e \in events : Exists(e.case) /\ (e.prev = 0 => e.about = "case_created")
  /\ \A c \in Case : Exists(c) => \E e \in events : e.case = c /\ e.prev = 0
  /\ \A e, f \in events : e.case = f.case /\ e.prev = 0 /\ f.prev = 0 => e = f

\* f was made for the same case and not after e.
NotAfter(f, e) == f.case = e.case /\ f.at <= e.at

\* Once a case was edited its status is that of an edit which none is after, and
\* what a request has read back is that of an edit which its own is not after.
EditsShown ==
  /\ \A f \in edits : f.at <= clock /\ Exists(f.case)
  /\ \A f \in edits : \E e \in edits : NotAfter(f, e) /\ e.status = status[f.case]
  /\ \A s \in Session : At(s, "edited") \/ At(s, "refreshed") =>
       EditOf(job[s], job[s].at) \in edits
  /\ \A s \in Session : At(s, "refreshed") =>
       \E e \in edits :
         /\ NotAfter(EditOf(job[s], job[s].at), e)
         /\ e.status = job[s].seen
         /\ \A x \in flushed[s] : e.at < x.hash

\* A case that was not edited is open, and what was told is in the trail.
EditsRecorded ==
  /\ \A c \in Case : Exists(c) /\ (\A e \in edits : e.case # c) => status[c] = "open"
  /\ \A t \in told :
       /\ t.edit \in edits /\ t.edit.at < t.hash
       /\ \E e \in events : e.case = t.edit.case /\ e.hash = t.hash /\ e.about = t.seen

TrailInv ==
  /\ TrailTypeOK
  /\ JobsFitCases
  /\ FlushedFitsJob
  /\ TrailsRooted
  /\ EditsShown
  /\ EventTellsLatest
  /\ EditsRecorded
=============================================================================
