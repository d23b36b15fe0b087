------------------------------- MODULE Access -------------------------------
(***************************************************************************)
(* AccessService (backend/app/services.py) and the endpoints that change   *)
(* what it looks at: roles, and the rows of authorized_access.             *)
(*                                                                         *)
(* Three pieces of the program decide from the same rows who may see a     *)
(* case: AccessService, the scope of the search (search.py) and the row    *)
(* level security of the database (migrations).  An officer, a user with   *)
(* the role "user", has no row at first: the first request on a case mints *)
(* one, in a transaction of its own.                                       *)
(*                                                                         *)
(* A column that may be NULL is a set with at most one element.  The       *)
(* department of a grant stands for its agency too: both are compared with *)
(* the columns of the user in the same way.                                *)
(***************************************************************************)
EXTENDS Naturals

CONSTANTS
  Session,        \* concurrent requests
  User,
  RoleName,       \* the roles that users have and are given
  Case,
  Document,
  CaseOf,         \* the case of each document
  Sensitivity,
  SensitivityOf,  \* of each document
  Department,
  DepartmentOf,   \* of each user: {} or a singleton
  Offer,          \* bodies of POST /access-grants that clients send
  MaxAccess       \* bound: no request of this module begins after this many ticks

Level == {"other", "read", "write", "admin"}
Required == {"read", "write", "admin"}
Maybe(S) == {{}} \cup {{x} : x \in S}

\* The body names the user, and a case or a document or both; "other" is any
\* level that the program does not know.
Body == [user : User, case : Maybe(Case), document : Maybe(Document),
         department : Maybe(Department), sensitivity : Maybe(Sensitivity),
         level : Level, until : SUBSET Nat]

ASSUME RoleNameAssumption == RoleName \subseteq {"user", "admin", "auditor", "viewer"}
ASSUME CaseOfAssumption == CaseOf \in [Document -> Case]
ASSUME SensitivityOfAssumption == SensitivityOf \in [Document -> Sensitivity]
ASSUME DepartmentOfAssumption == DepartmentOf \in [User -> Maybe(Department)]
ASSUME OfferAssumption == Offer \subseteq {b \in Body : b.case # {} \/ b.document # {}}
ASSUME MaxAccessAssumption == MaxAccess \in Nat

VARIABLES
  roles,    \* user_roles: the names of the roles of each user
  grants,   \* authorized_access
  job,      \* what each request is doing
  clock     \* the time; every begin and every commit of a request ticks

vars == <<roles, grants, job, clock>>

\* need is the level for whose sake a row was minted, "none" for a row that was
\* asked for; begun and done tell when its request began and committed.
Row == [user : User, case : Maybe(Case), document : Maybe(Document),
        department : Maybe(Department), sensitivity : Maybe(Sensitivity),
        level : Level, until : SUBSET Nat, from : Nat,
        need : Required \cup {"none"}, begun : Nat, done : Nat]

\* body is what is left to be granted after minting: {} or a singleton.
Idle == [pc |-> "idle"]
Job == [pc : {"minting", "granting"}, user : User, case : Maybe(Case),
        need : Required, body : SUBSET Body, begun : Nat]

TypeOK ==
  /\ roles \in [User -> SUBSET RoleName]
  /\ grants \subseteq Row
  /\ job \in [Session -> Job \cup {Idle}]
  /\ clock \in Nat

-----------------------------------------------------------------------------
(* What AccessService decides *)

IsAdmin(u) == "admin" \in roles[u]
HasRole(u, names) == roles[u] \cap names # {}

\* Both ends count.
Live(g) == g.from <= clock /\ \A t \in g.until : clock <= t

Rank == [other |-> 0, read |-> 1, write |-> 2, admin |-> 3]

\* Mutant of Counts: the grant must name the very level.
CountsExactly(g, u, level) ==
  g.user = u /\ g.department \subseteq DepartmentOf[u] /\ g.level = level /\ Live(g)

\* The part of _has_grant that does not depend on what is asked for.
Counts(g, u, level) ==
  /\ g.user = u
  /\ g.department \subseteq DepartmentOf[u]
  /\ Rank[g.level] >= Rank[level]
  /\ Live(g)

HasCaseGrant(u, c, level) == \E g \in grants : c \in g.case /\ Counts(g, u, level)

\* A document is asked for with its sensitivity.
HasDocumentGrant(u, d, level) ==
  \E g \in grants :
    /\ d \in g.document \/ CaseOf[d] \in g.case
    /\ g.sensitivity \subseteq {SensitivityOf[d]}
    /\ Counts(g, u, level)

\* require_document_access() does not raise.
MayDocument(u, d, level) ==
  \/ IsAdmin(u)
  \/ level = "read" /\ HasRole(u, {"admin", "auditor", "viewer"})
  \/ HasDocumentGrant(u, d, level)

\* require_case_access() does not raise ...
MayCase(u, c, level) ==
  IsAdmin(u) \/ level = "read" \/ HasRole(u, {"user"}) \/ HasCaseGrant(u, c, level)

\* Mutant of Mints: whether there is a row already is not looked at.
MintsAlways(u, c, level) == ~IsAdmin(u) /\ HasRole(u, {"user"})

\* ... and mints a grant before it returns.
Mints(u, c, level) == ~IsAdmin(u) /\ HasRole(u, {"user"}) /\ ~HasCaseGrant(u, c, level)

(* What the search and the database decide *)

\* _authorized_case_ids() of search.py
Searched(u, c) == IsAdmin(u) \/ \E g \in grants : g.user = u /\ c \in g.case /\ Live(g)

\* anveshan_has_case_access() of the migration
AtLeast(level) ==
  CASE level = "admin" -> {"admin"}
    [] level = "write" -> {"write", "admin"}
    [] level = "read" -> {"read", "write", "admin"}
RowAccess(u, c, level) ==
  IsAdmin(u) \/ \E g \in grants :
    g.user = u /\ c \in g.case /\ Live(g) /\ g.level \in AtLeast(level)

-----------------------------------------------------------------------------
(* Requests *)

At(s, points) == job[s].pc \in points

\* Accounts are made with one role.
Init ==
  /\ roles \in [User -> {{r} : r \in RoleName}]
  /\ grants = {}
  /\ job = [s \in Session |-> Idle]
  /\ clock = 0

Begin(s, pc, u, c, need, body) ==
  /\ At(s, {"idle"})
  /\ clock < MaxAccess
  /\ clock' = clock + 1
  /\ job' = [job EXCEPT ![s] = [pc |-> pc, user |-> u, case |-> c, need |-> need,
                                body |-> body, begun |-> clock + 1]]
  /\ UNCHANGED <<roles, grants>>

\* A request that reads or writes in a case, where require_case_access() has
\* something to add.
Touch(s, u, c, level) ==
  /\ level \in {"read", "write"}
  /\ Mints(u, c, level)
  /\ Begin(s, "minting", u, {c}, level, {})

\* POST /access-grants: a body with a document is checked against the document
\* only, one without against the case; that check may mint.
GrantAccess(s, u, b) ==
  \/ /\ \E d \in b.document : MayDocument(u, d, "admin")
     /\ Begin(s, "granting", u, {}, "admin", {b})
  \/ /\ b.document = {}
     /\ \E c \in b.case :
          /\ MayCase(u, c, "admin")
          /\ Begin(s, IF Mints(u, c, "admin") THEN "minting" ELSE "granting",
                   u, {c}, "admin", {b})

Leave(s) == job' = [job EXCEPT ![s] = Idle]

\* Mutant of Mint: the row is good for reading only.
MintRead(s) ==
  /\ At(s, {"minting"})
  /\ grants' = grants \cup {[user |-> job[s].user, case |-> job[s].case, document |-> {},
       department |-> {}, sensitivity |-> {}, level |-> "read", until |-> {},
       from |-> clock + 1, need |-> job[s].need, begun |-> job[s].begun, done |-> clock + 1]}
  /\ clock' = clock + 1
  /\ Leave(s)
  /\ UNCHANGED roles

\* The minted row is committed; the time of the INSERT is its valid_from.
Mint(s) ==
  /\ At(s, {"minting"})
  /\ grants' = grants \cup {[user |-> job[s].user, case |-> job[s].case, document |-> {},
       department |-> {}, sensitivity |-> {}, level |-> "write", until |-> {},
       from |-> clock + 1, need |-> job[s].need, begun |-> job[s].begun, done |-> clock + 1]}
  /\ clock' = clock + 1
  /\ IF job[s].body = {} THEN Leave(s) ELSE job' = [job EXCEPT ![s].pc = "granting"]
  /\ UNCHANGED roles

\* Mutant of Grant: the row becomes valid later than it is committed.
GrantLater(s) ==
  /\ At(s, {"granting"})
  /\ \E b \in job[s].body :
       grants' = grants \cup {[user |-> b.user, case |-> b.case, document |-> b.document,
         department |-> b.department, sensitivity |-> b.sensitivity, level |-> b.level,
         until |-> b.until, from |-> clock + 2, need |-> "none",
         begun |-> job[s].begun, done |-> clock + 1]}
  /\ clock' = clock + 1
  /\ Leave(s)
  /\ UNCHANGED roles

\* AccessService.grant()
Grant(s) ==
  /\ At(s, {"granting"})
  /\ \E b \in job[s].body :
       grants' = grants \cup {[user |-> b.user, case |-> b.case, document |-> b.document,
         department |-> b.department, sensitivity |-> b.sensitivity, level |-> b.level,
         until |-> b.until, from |-> clock + 1, need |-> "none",
         begun |-> job[s].begun, done |-> clock + 1]}
  /\ clock' = clock + 1
  /\ Leave(s)
  /\ UNCHANGED roles

\* The commit fails: a body that names nobody, or the database is gone.
Fail(s) ==
  /\ ~At(s, {"idle"})
  /\ Leave(s)
  /\ UNCHANGED <<roles, grants, clock>>

\* POST /roles/{user_id}/assign by user a; of two that race the unique key of
\* user_roles refuses one, which changes nothing.
AssignRole(a, u, role) ==
  /\ IsAdmin(a)
  /\ role \notin roles[u]
  /\ clock < MaxAccess
  /\ clock' = clock + 1
  /\ roles' = [roles EXCEPT ![u] = @ \cup {role}]
  /\ UNCHANGED <<grants, job>>

\* Time passes without a request.
Tick ==
  /\ clock < MaxAccess
  /\ clock' = clock + 1
  /\ UNCHANGED <<roles, grants, job>>

Next ==
  \/ \E s \in Session :
       \/ \E u \in User, c \in Case, level \in Required : Touch(s, u, c, level)
       \/ \E u \in User, b \in Offer : GrantAccess(s, u, b)
       \/ Mint(s)
       \/ Grant(s)
       \/ Fail(s)
  \/ \E a, u \in User, role \in RoleName : AssignRole(a, u, role)
  \/ Tick

Spec == Init /\ [][Next]_vars

-----------------------------------------------------------------------------
(* Properties *)

Minted == {g \in grants : g.need # "none"}

\* "the first write-touch mints a durable case grant so every subsequent
\* document-level check (uploads, reads, transfers) passes" (services.py:505):
\* once minted, a row opens every document of its case for reading and writing,
\* to its user, for ever, and the search and the database agree.
OpenedCaseStaysOpen ==
  \A g \in Minted : \A c \in g.case :
    /\ \A d \in Document : CaseOf[d] = c =>
         MayDocument(g.user, d, "read") /\ MayDocument(g.user, d, "write")
    /\ Searched(g.user, c)
    /\ RowAccess(g.user, c, "write")

\* A second row is minted for an officer and a case only by requests that
\* overlap, or for the sake of the level admin, which a minted row never gives
\* (services.py:508).
MintedOnceUntilOverlap ==
  \A g, h \in Minted :
    g # h /\ g.user = h.user /\ g.case = h.case /\ g.need # "admin" => g.begun < h.done

\* Where no grant of a user on a case names a department, a sensitivity or a
\* level that the program does not know, the search and the database open the
\* case at the same moments, the first and the last of a grant included, and the
\* API decides as they do but for what it opens beyond: every case for reading
\* ("a shared register", services.py:488), to officers every case, for whom
\* a row is minted (services.py:508), to auditors and viewers every document
\* for reading (services.py:537), and a document on which there is a grant itself.
Plain(g) == g.department = {} /\ g.sensitivity = {} /\ g.level # "other"
GrantedItself(u, d, level) ==
  \E g \in grants :
    d \in g.document /\ g.sensitivity \subseteq {SensitivityOf[d]} /\ Counts(g, u, level)
ChecksAgree ==
  \A u \in User, c \in Case :
    (\A g \in grants : g.user = u /\ c \in g.case => Plain(g)) =>
      /\ Searched(u, c) <=> RowAccess(u, c, "read")
      /\ \A level \in Required :
           /\ MayCase(u, c, level) <=>
                RowAccess(u, c, level) \/ level = "read" \/ Mints(u, c, level)
           /\ \A d \in Document : CaseOf[d] = c =>
                (MayDocument(u, d, level) <=>
                   \/ RowAccess(u, c, level)
                   \/ level = "read" /\ HasRole(u, {"auditor", "viewer"})
                   \/ GrantedItself(u, d, level))

\* Nobody gains access by the mere passing of time or by a request of which
\* nothing is committed; only a new row or a new role gives it.
AccessBeginsWithRow ==
  [][\A u \in User, d \in Document, level \in Required :
       ~MayDocument(u, d, level) /\ MayDocument(u, d, level)'
         => grants' # grants \/ roles' # roles]_vars

-----------------------------------------------------------------------------
(* The inductive invariant behind these properties *)

RowsInPast == \A g \in grants : g.from = g.done /\ g.begun < g.done /\ g.done <= clock

MintedShape ==
  \A g \in Minted :
    /\ g.level = "write"
    /\ g.department = {} /\ g.sensitivity = {} /\ g.until = {}

JobsConsistent ==
  \A s \in Session : ~At(s, {"idle"}) =>
    /\ job[s].begun <= clock
    /\ At(s, {"minting"}) => job[s].case # {}
    /\ job[s].body \in Maybe(Offer)
    /\ job[s].body # {} => job[s].need = "admin"

\* A request that mints has begun before any row was minted that it would find.
MintsOpen ==
  \A s \in Session : \A g \in Minted :
    /\ At(s, {"minting"}) /\ job[s].need # "admin"
    /\ g.user = job[s].user /\ g.case = job[s].case
    => job[s].begun < g.done

AccessInv ==
  /\ TypeOK
  /\ RowsInPast
  /\ MintedShape
  /\ JobsConsistent
  /\ MintsOpen
  /\ MintedOnceUntilOverlap
=============================================================================
