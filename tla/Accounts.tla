------------------------------ MODULE Accounts ------------------------------
(***************************************************************************)
(* Accounts and the codes that open them: the viewer endpoints of          *)
(* backend/app/auth.py with issue_otp() of email_otp.py, the default roles *)
(* and the accounts that administrators and the prototype login make.      *)
(*                                                                         *)
(* A viewer registers with a password, is sent a code, and the account is  *)
(* made when the code comes back.  An email has one challenge, a row of    *)
(* email_otps that each new code overwrites.  Requests read the row and    *)
(* commit later what they made of it; the UPDATE of SQLAlchemy names only  *)
(* the columns that differ from what was read, and a commit in between     *)
(* (ensure_default_roles) makes it read the row again.                     *)
(*                                                                         *)
(* Only commits and Tick move the clock.  A code is a number, the hash of  *)
(* a password is the password, but a new hash always differs from the old. *)
(* The column verified is written and never read; it is left out.          *)
(***************************************************************************)
EXTENDS Naturals, FiniteSets

CONSTANTS
  Session,      \* concurrent requests
  Email,
  Prototype,    \* DEFAULT_PROTOTYPE_LOGINS: the role by email
  Password,
  MaxAttempts,  \* OTP_MAX_ATTEMPTS
  Ttl,          \* OTP_TTL_MINUTES, in ticks
  MaxClock      \* bound: no request begins after this many ticks

ASSUME PrototypeAssumption == \E S \in SUBSET Email : Prototype \in [S -> {"user", "viewer"}]
ASSUME NumbersAssumption ==
  MaxAttempts \in Nat \ {0} /\ Ttl \in Nat /\ MaxClock \in Nat

VARIABLES
  seeded,   \* are the default roles there?  one transaction makes all of them
  users,    \* users by email, with the names of their roles
  otps,     \* email_otps by email
  issued,   \* how many codes there are
  marks,    \* what was committed to challenges
  job,      \* what each request is doing
  clock

vars == <<seeded, users, otps, issued, marks, job, clock>>

\* A column that may be NULL is a set with at most one element.
Maybe(S) == {{}} \cup {{x} : x \in S}

\* "user" stands for every role but the viewer's; reset tells whether the password
\* was ever set anew.
NoUser == [roles |-> {"none"}]
Account == [password : Maybe(Password), roles : SUBSET {"user", "viewer"}, reset : BOOLEAN]
NoRow == [code |-> 0]
Row == [code : Nat \ {0}, password : Maybe(Password), attempts : 0 .. MaxAttempts, expires : Nat]

\* begun is when the request read the challenge, or compared the code with it;
\* password is what an issue left in the row and what an account was made with.
Mark == [email : Email, kind : {"issue", "guess", "enter"}, code : Nat \ {0},
         password : Maybe(Password), begun : Nat, done : Nat]

\* password is what the request brings, row what it read, then where it goes
\* on once the roles are there.
Idle == [pc |-> "idle"]
Point == {"seeding", "looking", "issuing", "storing", "counting", "admitting",
          "entering", "founding", "welcoming"}
Job == [pc : Point, then : Point, email : Email, password : Maybe(Password),
        row : Row \cup {NoRow}, begun : Nat]

TypeOK ==
  /\ seeded \in BOOLEAN
  /\ users \in [Email -> Account \cup {NoUser}]
  /\ otps \in [Email -> Row \cup {NoRow}]
  /\ issued \in Nat
  /\ marks \subseteq Mark
  /\ job \in [Session -> Job \cup {Idle}]
  /\ clock \in Nat

Init ==
  /\ seeded = FALSE
  /\ users = [e \in Email |-> NoUser]
  /\ otps = [e \in Email |-> NoRow]
  /\ issued = 0
  /\ marks = {}
  /\ job = [s \in Session |-> Idle]
  /\ clock = 0

-----------------------------------------------------------------------------
At(s, points) == job[s].pc \in points
HasAccount(e) == users[e] # NoUser
HasRow(e) == otps[e] # NoRow

\* A request begins; with roles it first calls ensure_default_roles().
Begin(s, pc, roles, e, password, row) ==
  /\ At(s, {"idle"})
  /\ clock < MaxClock
  /\ job' = [job EXCEPT ![s] = [pc |-> IF roles /\ ~seeded THEN "seeding" ELSE pc,
               then |-> pc, email |-> e, password |-> password, row |-> row,
               begun |-> clock]]
  /\ UNCHANGED <<seeded, users, otps, issued, marks, clock>>

Leave(s) == job' = [job EXCEPT ![s] = Idle]

Refuse(s) ==
  /\ Leave(s)
  /\ UNCHANGED <<seeded, users, otps, issued, marks, clock>>

\* What a request has to commit, and the mark that it leaves.
CommitMark(s, kind, code, password) ==
  /\ marks' = marks \cup {[email |-> job[s].email, kind |-> kind, code |-> code,
                           password |-> password, begun |-> job[s].begun, done |-> clock + 1]}
  /\ clock' = clock + 1
  /\ Leave(s)

\* ensure_default_roles() found no roles and commits them; if others have been
\* quicker, the unique names refuse it and the request dies.
Seed(s) ==
  /\ At(s, {"seeding"})
  /\ IF seeded THEN Refuse(s)
     ELSE /\ seeded' = TRUE
          /\ job' = [job EXCEPT ![s].pc = job[s].then]
          /\ clock' = clock + 1
          /\ UNCHANGED <<users, otps, issued, marks>>

(* A code is asked for *)

Register(s, e, p) == Begin(s, "looking", TRUE, e, {p}, NoRow)

\* viewer_register() looks for the account: one that is there has to have the
\* password, and then the challenge gets none.
Look(s) ==
  /\ At(s, {"looking"})
  /\ LET e == job[s].email IN
       IF ~HasAccount(e) THEN job' = [job EXCEPT ![s].pc = "issuing"]
       ELSE IF users[e].password = job[s].password
            THEN job' = [job EXCEPT ![s].pc = "issuing", ![s].password = {}]
            ELSE Leave(s)
  /\ UNCHANGED <<seeded, users, otps, issued, marks, clock>>

\* viewer_login() compares the password with the account's, or where it has none
\* with the challenge's; issue_otp() then works with the row as it was read here.
Login(s, e, p) ==
  \/ /\ HasAccount(e)
     /\ users[e].password = {p}
     /\ "viewer" \in users[e].roles \/ users[e].roles = {}
     /\ Begin(s, "issuing", FALSE, e, {}, NoRow)
  \/ /\ HasAccount(e) => users[e].password = {} /\ "viewer" \in users[e].roles
     /\ HasRow(e) /\ otps[e].password = {p}
     /\ Begin(s, "storing", FALSE, e, {}, otps[e])

\* issue_otp() reads the challenge ...
Issue(s) ==
  /\ At(s, {"issuing"})
  /\ job' = [job EXCEPT ![s].pc = "storing", ![s].row = otps[job[s].email], ![s].begun = clock]
  /\ UNCHANGED <<seeded, users, otps, issued, marks, clock>>

\* Mutant of Fresh: the attempts are not set back.
FreshKept(row, seen, code, password, expires) ==
  [code |-> code, password |-> IF password # {} \/ seen = NoRow THEN password ELSE row.password,
   attempts |-> IF seen = NoRow THEN 0 ELSE row.attempts, expires |-> expires]

\* The challenge with a new code; seen is the row that was read.
Fresh(row, seen, code, password, expires) ==
  [code |-> code,
   password |-> IF password # {} \/ seen = NoRow THEN password ELSE row.password,
   attempts |-> IF seen = NoRow \/ seen.attempts # 0 THEN 0 ELSE row.attempts,
   expires |-> expires]

\* ... and commits it with the new code, which is then sent.  Of two that found
\* no challenge the second is refused by the unique email.
Store(s) ==
  /\ At(s, {"storing"})
  /\ LET e == job[s].email
         row == Fresh(otps[e], job[s].row, issued + 1, job[s].password, job[s].begun + Ttl)
     IN IF job[s].row = NoRow /\ HasRow(e) THEN Refuse(s)
        ELSE /\ otps' = [otps EXCEPT ![e] = row]
             /\ issued' = issued + 1
             /\ CommitMark(s, "issue", issued + 1, row.password)
             /\ UNCHANGED <<seeded, users>>

(* A code comes back *)

\* Mutant of Verify: only the attempts are looked at, not the time.
VerifyLate(s, e, k) ==
  /\ HasRow(e)
  /\ otps[e].attempts < MaxAttempts
  /\ \/ k # otps[e].code /\ Begin(s, "counting", FALSE, e, {}, otps[e])
     \/ k = otps[e].code /\ Begin(s, "admitting", TRUE, e, {}, otps[e])

\* viewer_verify() up to the comparison; k may be no code at all.
Verify(s, e, k) ==
  /\ HasRow(e)
  /\ otps[e].attempts < MaxAttempts
  /\ clock <= otps[e].expires
  /\ \/ k # otps[e].code /\ Begin(s, "counting", FALSE, e, {}, otps[e])
     \/ k = otps[e].code /\ Begin(s, "admitting", TRUE, e, {}, otps[e])

\* A wrong code is counted, from the number that was read.
Count(s) ==
  /\ At(s, {"counting"})
  /\ otps' = [otps EXCEPT ![job[s].email].attempts = job[s].row.attempts + 1]
  /\ CommitMark(s, "guess", job[s].row.code, {})
  /\ UNCHANGED <<seeded, users, issued>>

\* The code was right, and the roles are there: the account is looked for.  If
\* there is none the challenge is read again, and has to have a password.
Admit(s) ==
  /\ At(s, {"admitting"})
  /\ LET e == job[s].email IN
       IF HasAccount(e) THEN job' = [job EXCEPT ![s].pc = "entering"]
       ELSE IF otps[e].password = {} THEN Leave(s)
       ELSE job' = [job EXCEPT ![s].pc = "founding",
                      ![s].password = otps[e].password, ![s].row.attempts = otps[e].attempts]
  /\ UNCHANGED <<seeded, users, otps, issued, marks, clock>>

\* An account that was there: the attempts are set back whatever they are.
Enter(s) ==
  /\ At(s, {"entering"})
  /\ otps' = [otps EXCEPT ![job[s].email].attempts = 0]
  /\ CommitMark(s, "enter", job[s].row.code, {})
  /\ UNCHANGED <<seeded, users, issued>>

\* Mutant of Found: the account is made with what the email has, not with what
\* the registration brought.
FoundBare(s) ==
  /\ At(s, {"founding"})
  /\ LET e == job[s].email IN
       IF HasAccount(e) THEN Refuse(s)
       ELSE /\ users' = [users EXCEPT
                 ![e] = [password |-> {}, roles |-> {"viewer"}, reset |-> FALSE]]
            /\ otps' = [otps EXCEPT ![e].attempts = IF job[s].row.attempts = 0 THEN @ ELSE 0]
            /\ CommitMark(s, "enter", job[s].row.code, job[s].password)
            /\ UNCHANGED <<seeded, issued>>

\* The account is made, with its role, in one transaction with the challenge.
Found(s) ==
  /\ At(s, {"founding"})
  /\ LET e == job[s].email IN
       IF HasAccount(e) THEN Refuse(s)
       ELSE /\ users' = [users EXCEPT
                 ![e] = [password |-> job[s].password, roles |-> {"viewer"}, reset |-> FALSE]]
            /\ otps' = [otps EXCEPT ![e].attempts = IF job[s].row.attempts = 0 THEN @ ELSE 0]
            /\ CommitMark(s, "enter", job[s].row.code, job[s].password)
            /\ UNCHANGED <<seeded, issued>>

(* Other accounts *)

\* UserService.create(), by an administrator, who has the default roles.
CreateUser(e, p) ==
  /\ seeded /\ ~HasAccount(e)
  /\ clock < MaxClock
  /\ users' = [users EXCEPT ![e] = [password |-> {p}, roles |-> {"user"}, reset |-> FALSE]]
  /\ clock' = clock + 1
  /\ UNCHANGED <<seeded, otps, issued, marks, job>>

\* confirm_password_reset(): the token, which is not stored and may be used again,
\* went to any account that asked for it.
ResetPassword(e, p) ==
  /\ HasAccount(e)
  /\ clock < MaxClock
  /\ users' = [users EXCEPT ![e].password = {p}, ![e].reset = TRUE]
  /\ clock' = clock + 1
  /\ UNCHANGED <<seeded, otps, issued, marks, job>>

PrototypeLogin(s, e) == e \in DOMAIN Prototype /\ Begin(s, "welcoming", TRUE, e, {}, NoRow)

\* ensure_default_users(): the accounts of the prototype, without a password;
\* one that is there gets the role.  Of two that race one fails.
EnsureUsers(s) ==
  /\ At(s, {"welcoming"})
  /\ users' = [e \in Email |->
       IF e \notin DOMAIN Prototype THEN users[e]
       ELSE IF HasAccount(e) THEN [users[e] EXCEPT !.roles = @ \cup {Prototype[e]}]
       ELSE [password |-> {}, roles |-> {Prototype[e]}, reset |-> FALSE]]
  /\ clock' = clock + 1
  /\ Leave(s)
  /\ UNCHANGED <<seeded, otps, issued, marks>>

\* A request fails before it commits.
Fail(s) == ~At(s, {"idle"}) /\ Refuse(s)

Tick ==
  /\ clock < MaxClock
  /\ clock' = clock + 1
  /\ UNCHANGED <<seeded, users, otps, issued, marks, job>>

Next ==
  \/ \E s \in Session :
       \/ \E e \in Email, p \in Password : Register(s, e, p) \/ Login(s, e, p)
       \/ \E e \in Email, k \in 0 .. issued : Verify(s, e, k)
       \/ Seed(s) \/ Look(s) \/ Issue(s) \/ Store(s)
       \/ Count(s) \/ Admit(s) \/ Enter(s) \/ Found(s)
       \/ \E e \in Email : PrototypeLogin(s, e)
       \/ EnsureUsers(s)
       \/ Fail(s)
  \/ \E e \in Email, p \in Password : CreateUser(e, p) \/ ResetPassword(e, p)
  \/ Tick

Spec == Init /\ [][Next]_vars

-----------------------------------------------------------------------------
(* Properties *)

Marks(e, kind) == {m \in marks : m.email = e /\ m.kind = kind}

\* "One row per email; a new code overwrites the previous one" (models.py:80):
\* a request was let in only by a code that was issued for its email, that was
\* the newest when it was compared, and whose time had not passed.
AcceptedCodes ==
  \A e \in Email : \A m \in Marks(e, "enter") : \E i \in Marks(e, "issue") :
    /\ i.code = m.code
    /\ i.done <= m.begun /\ m.begun <= i.begun + Ttl
    /\ \A j \in Marks(e, "issue") : j.done <= i.done \/ m.begun < j.done

\* Was something committed to the challenge between the read and the commit of
\* another request?
Overlapped(e) ==
  \E a, b \in marks : a.email = e /\ b.email = e /\ a.begun < b.done /\ b.done < a.done

\* Until requests on its challenge overlap, an email's attempts are the wrong
\* codes since the last code was issued or accepted (auth.py:147).
CountedUntilOverlap ==
  \A e \in Email : HasRow(e) /\ ~Overlapped(e) =>
    otps[e].attempts = Cardinality({m \in Marks(e, "guess") :
      \A n \in Marks(e, "issue") \cup Marks(e, "enter") : n.done < m.done})

\* An account that a code made keeps, until it is set anew, the password that was
\* registered when the code was issued, unless a new code was issued between the
\* comparison and the second reading of the challenge (auth.py:149).
AccountOfProvenCode ==
  \A e \in Email : \A m \in Marks(e, "enter") : m.password # {} =>
    /\ HasAccount(e) /\ (users[e].reset \/ users[e].password = m.password)
    /\ "viewer" \in users[e].roles
    /\ \/ \E i \in Marks(e, "issue") : i.code = m.code /\ i.password = m.password
       \/ \E j \in Marks(e, "issue") : m.begun < j.done /\ j.done < m.done

-----------------------------------------------------------------------------
(* The inductive invariant behind these properties *)

\* The challenge holds the newest code, which is the last that was issued.
RowsNewest ==
  \A e \in Email :
    /\ HasRow(e) => \E i \in Marks(e, "issue") :
         /\ i.code = otps[e].code /\ otps[e].expires = i.begun + Ttl
         /\ i.password = otps[e].password
         /\ \A j \in Marks(e, "issue") : j.done <= i.done
    /\ ~HasRow(e) => Marks(e, "issue") = {}

MarksInPast ==
  /\ IsFiniteSet(marks)
  /\ \A m \in marks : m.begun < m.done /\ m.done <= clock
  /\ \A m, n \in marks : m.done = n.done => m = n

\* Requests whose code was right, also while the roles are made.
Inside(s) ==
  \/ At(s, {"admitting", "entering", "founding"})
  \/ At(s, {"seeding"}) /\ job[s].then = "admitting"

Consistent(s) ==
  ~At(s, {"idle"}) =>
    /\ job[s].begun <= clock
    /\ At(s, {"seeding"}) => job[s].then \in {"looking", "admitting", "welcoming"}
    /\ At(s, {"counting"}) \/ Inside(s) => job[s].row # NoRow
    /\ At(s, {"counting"}) => job[s].row.attempts < MaxAttempts
    /\ (At(s, {"counting", "storing"}) \/ Inside(s)) /\ job[s].row # NoRow => HasRow(job[s].email)

\* What a request was let in with.
Proven(s) ==
  Inside(s) => \E i \in Marks(job[s].email, "issue") :
    /\ i.code = job[s].row.code
    /\ i.done <= job[s].begun /\ job[s].begun <= i.begun + Ttl
    /\ \A j \in Marks(job[s].email, "issue") : j.done <= i.done \/ job[s].begun < j.done
    /\ At(s, {"founding"}) /\ i.password # job[s].password =>
         \E j \in Marks(job[s].email, "issue") : job[s].begun < j.done

\* Until something is committed to its challenge, a request has read it as it is.
SeenUntilOverlap(s) ==
  /\ At(s, {"counting", "storing"}) \/ Inside(s)
  /\ \A m \in marks : m.email = job[s].email => m.done <= job[s].begun
  => job[s].row = otps[job[s].email]

JobsSound == \A s \in Session : Consistent(s) /\ Proven(s) /\ SeenUntilOverlap(s)

AccountInv ==
  /\ TypeOK
  /\ RowsNewest
  /\ MarksInPast
  /\ JobsSound
  /\ AcceptedCodes
  /\ AccountOfProvenCode
  /\ CountedUntilOverlap
=============================================================================
