-------------------------------- MODULE Desk --------------------------------
(***************************************************************************)
(* DepartmentRequestService, and the complaint desk of DepartmentService   *)
(* (backend/app/services.py), with their endpoints: requests for the       *)
(* evidence of another department and their review, and the complaints of  *)
(* citizens with their status.                                             *)
(*                                                                         *)
(* A review and a change of status read the row, set its columns and       *)
(* commit; nothing is locked in between and nothing looks at the status    *)
(* that the row has.  The UPDATE that SQLAlchemy emits names only the      *)
(* columns whose value differs from the one that was read.                 *)
(***************************************************************************)
EXTENDS Access

CONSTANTS
  Request,     \* ids of department_requests
  Complaint,   \* ids of complaint_tokens; each has its own token
  MaxDesk      \* bound: no request of this module begins after this many ticks

ASSUME MaxDeskAssumption == MaxDesk \in Nat

VARIABLES
  filings,   \* the rows of both tables, by id
  holder,    \* who filed the latest version of each document
  stamps,    \* what was committed by reviews and changes of status
  visit      \* what each request is doing

desk == <<filings, holder, stamps, visit>>

Item == Request \cup Complaint
Verdict == {"approved", "rejected"}
ComplaintStatus == {"open", "acknowledged", "closed"}
NoFiling == [status |-> "none"]

\* A complaint has no columns for who filed it, where it goes and who worked it.
Filing == [status : {"pending"} \cup Verdict \cup ComplaintStatus, from : Maybe(User),
           home : Maybe(Department), to : Maybe(Department), by : Maybe(User), at : Nat]

\* seen is the row as it was read.
Away == [pc |-> "away"]
Visit == [pc : {"stamping"}, item : Item, seen : Filing, status : Verdict \cup ComplaintStatus,
          user : User, begun : Nat]
StampRow == [item : Item, status : Verdict \cup ComplaintStatus, user : User,
             begun : Nat, done : Nat]

DeskTypeOK ==
  /\ filings \in [Item -> Filing \cup {NoFiling}]
  /\ holder \in [Document -> Maybe(User)]
  /\ stamps \subseteq StampRow
  /\ visit \in [Session -> Visit \cup {Away}]

DeskInit ==
  /\ filings = [i \in Item |-> NoFiling]
  /\ holder = [d \in Document |-> {}]
  /\ stamps = {}
  /\ visit = [s \in Session |-> Away]

Filed(i) == filings[i].status # "none"

-----------------------------------------------------------------------------
(* Requests for evidence *)

\* An upload, of EvidenceUpload, makes its officer the holder.
Upload(u, d) ==
  /\ clock < MaxDesk
  /\ clock' = clock + 1
  /\ holder' = [holder EXCEPT ![d] = {u}]
  /\ UNCHANGED <<filings, stamps, visit>>

\* create(): the department it comes from is the body's or the user's; without a
\* destination it goes to that of the holder, if there is one and it has one.
CreateRequest(u, r, d, home, to) ==
  /\ clock < MaxDesk
  /\ ~Filed(r)
  /\ clock' = clock + 1
  /\ filings' = [filings EXCEPT ![r] =
       [status |-> "pending", from |-> {u}, home |-> IF home # {} THEN home ELSE DepartmentOf[u],
        to |-> IF to # {} THEN to ELSE UNION {DepartmentOf[h] : h \in holder[d]},
        by |-> {}, at |-> 0]]
  /\ UNCHANGED <<holder, stamps, visit>>

\* Mutant of MayReview: a request without a destination is not set apart.
MayReviewAny(u, r) == IsAdmin(u) \/ filings[r].to = DepartmentOf[u]

\* action() does not raise for its user.
MayReview(u, r) ==
  IsAdmin(u) \/ (filings[r].to # {} /\ filings[r].to = DepartmentOf[u])

BeginStamp(s, i, status, u) ==
  /\ visit[s] = Away
  /\ clock < MaxDesk
  /\ clock' = clock + 1
  /\ visit' = [visit EXCEPT ![s] = [pc |-> "stamping", item |-> i, seen |-> filings[i],
                 status |-> status, user |-> u, begun |-> clock + 1]]
  /\ UNCHANGED <<filings, holder, stamps>>

\* action() reads the request; the status that it has is not looked at.
Review(s, u, r, verdict) == Filed(r) /\ MayReview(u, r) /\ BeginStamp(s, r, verdict, u)

(* Complaints *)

\* create_complaint(), by anybody
RaiseComplaint(c) ==
  /\ clock < MaxDesk
  /\ ~Filed(c)
  /\ clock' = clock + 1
  /\ filings' = [filings EXCEPT ![c] =
       [status |-> "open", from |-> {}, home |-> {}, to |-> {}, by |-> {}, at |-> 0]]
  /\ UNCHANGED <<holder, stamps, visit>>

\* set_complaint_status() reads the complaint.
WorkComplaint(s, u, c, status) ==
  Filed(c) /\ HasRole(u, {"admin"}) /\ BeginStamp(s, c, status, u)

\* A column of the UPDATE: left out where the value that is set was read.
Changed(now, seen, set) == IF seen = set THEN now ELSE set

\* Mutant of Stamp: the reviewer who is there stays.
StampFirst(s) ==
  /\ visit[s] # Away
  /\ LET v == visit[s]
         by == IF v.item \in Request THEN {v.user} ELSE {}
     IN /\ filings' = [filings EXCEPT
             ![v.item].status = Changed(@, v.seen.status, v.status),
             ![v.item].by = IF @ = {} THEN by ELSE @,
             ![v.item].at = v.begun]
        /\ stamps' = stamps \cup {[item |-> v.item, status |-> v.status, user |-> v.user,
                                   begun |-> v.begun, done |-> clock + 1]}
  /\ clock' = clock + 1
  /\ visit' = [visit EXCEPT ![s] = Away]
  /\ UNCHANGED holder

\* The UPDATE and the commit; the time of the stamp was taken before.
Stamp(s) ==
  /\ visit[s] # Away
  /\ LET v == visit[s]
         by == IF v.item \in Request THEN {v.user} ELSE {}
     IN /\ filings' = [filings EXCEPT
             ![v.item].status = Changed(@, v.seen.status, v.status),
             ![v.item].by = Changed(@, v.seen.by, by),
             ![v.item].at = v.begun]
        /\ stamps' = stamps \cup {[item |-> v.item, status |-> v.status, user |-> v.user,
                                   begun |-> v.begun, done |-> clock + 1]}
  /\ clock' = clock + 1
  /\ visit' = [visit EXCEPT ![s] = Away]
  /\ UNCHANGED holder

GiveUp(s) ==
  /\ visit[s] # Away
  /\ visit' = [visit EXCEPT ![s] = Away]
  /\ UNCHANGED <<filings, holder, stamps, clock>>

-----------------------------------------------------------------------------
DeskStep ==
  /\ \/ \E u \in User, d \in Document :
          \/ Upload(u, d)
          \/ \E r \in Request, home, to \in Maybe(Department) : CreateRequest(u, r, d, home, to)
     \/ \E c \in Complaint : RaiseComplaint(c)
     \/ \E s \in Session :
          \/ \E u \in User, r \in Request, v \in Verdict : Review(s, u, r, v)
          \/ \E u \in User, c \in Complaint, v \in ComplaintStatus : WorkComplaint(s, u, c, v)
          \/ Stamp(s)
          \/ GiveUp(s)
  /\ UNCHANGED <<roles, grants, job>>

\* Roles are given, and the desk works, at the same time.
DeskNext ==
  \/ DeskStep
  \/ \E a, u \in User, role \in RoleName : AssignRole(a, u, role) /\ UNCHANGED desk

DeskSpec == Init /\ DeskInit /\ [][DeskNext]_<<vars, desk>>

-----------------------------------------------------------------------------
(* Properties *)

StampsOf(i) == {t \in stamps : t.item = i}
Last(i) == CHOOSE t \in StampsOf(i) : \A q \in StampsOf(i) : q.done <= t.done

\* "Requests whose destination could not be resolved ... are admin-only"
\* (services.py:768): who stands as the reviewer of a request, whatever reviews
\* raced on it, is an administrator or of the department it is addressed to,
\* and did review it.
ReviewerEntitled ==
  \A r \in Request : Filed(r) => \A u \in filings[r].by :
    /\ IsAdmin(u) \/ (filings[r].to # {} /\ filings[r].to = DepartmentOf[u])
    /\ \E t \in StampsOf(r) : t.user = u

\* A row shows the last review or change of status as a whole unless another
\* one was committed while it was open; then it may mix the two, and still every
\* column is one that somebody set (services.py:782, 922).
StampWholeUntilOverlap ==
  \A i \in Item : StampsOf(i) # {} =>
    LET last == Last(i) IN
      /\ filings[i].at = last.begun
      /\ \E t \in StampsOf(i) : filings[i].status = t.status
      /\ (\A q \in StampsOf(i) : last.begun < q.done => q = last) =>
           /\ filings[i].status = last.status
           /\ i \in Request => filings[i].by = {last.user}

-----------------------------------------------------------------------------
(* The inductive invariant behind these properties *)

\* Only what is filed is stamped, and a request only by who may review it.
StampsEntitled ==
  /\ \A t \in stamps :
       /\ Filed(t.item) /\ t.begun < t.done /\ t.done <= clock
       /\ t.item \in Request => MayReview(t.user, t.item)
  /\ \A t, q \in stamps : t.done = q.done => t = q
  /\ \A s \in Session : visit[s] # Away =>
       /\ Filed(visit[s].item) /\ visit[s].begun <= clock
       /\ visit[s].item \in Request => MayReview(visit[s].user, visit[s].item)

\* The columns of a row are of its stamps.
ColumnsStamped ==
  \A i \in Item :
    /\ StampsOf(i) # {} => \E t \in StampsOf(i) : filings[i].status = t.status
    /\ i \in Request /\ Filed(i) =>
         \A u \in filings[i].by : \E t \in StampsOf(i) : t.user = u

\* A request that overlapped no other has read the row as it is.
SeenUntilOverlap ==
  \A s \in Session :
    visit[s] # Away /\ (\A q \in StampsOf(visit[s].item) : q.done <= visit[s].begun)
      => filings[visit[s].item] = visit[s].seen

\* StampWholeUntilOverlap, of a stamp that is the last.
Shows(i, t) ==
  /\ filings[i].at = t.begun
  /\ (\A q \in StampsOf(i) : t.begun < q.done => q = t) =>
       /\ filings[i].status = t.status
       /\ i \in Request => filings[i].by = {t.user}
LastStampShown ==
  \A i \in Item : StampsOf(i) # {} => \E t \in StampsOf(i) :
    (\A q \in StampsOf(i) : q.done <= t.done) /\ Shows(i, t)

DeskInv ==
  /\ TypeOK
  /\ DeskTypeOK
  /\ StampsEntitled
  /\ ColumnsStamped
  /\ SeenUntilOverlap
  /\ LastStampShown
=============================================================================
