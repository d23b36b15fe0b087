---------------------------- MODULE AccountsProofs ----------------------------
(***************************************************************************)
(* Theorems about Accounts, for any sets of sessions, emails and passwords *)
(* and any bounds.                                                         *)
(***************************************************************************)
EXTENDS Accounts, FiniteSetTheorems, TLAPS

\* A busy request has the fields of a job.
LEMMA JobFields ==
  ASSUME TypeOK, NEW s \in Session, ~At(s, {"idle"})
  PROVE  /\ job[s] \in Job
         /\ job[s].pc \in Point /\ job[s].then \in Point /\ job[s].email \in Email
         /\ job[s].password \in Maybe(Password) /\ job[s].row \in Row \cup {NoRow}
         /\ job[s].begun \in Nat
<1>1. job[s] \in Job
  BY DEF TypeOK, At, Idle
<1> QED
  BY <1>1 DEF Job

LEMMA RowFields ==
  ASSUME TypeOK, NEW e \in Email, HasRow(e)
  PROVE  /\ otps[e] \in Row
         /\ otps[e].code \in Nat \ {0} /\ otps[e].password \in Maybe(Password)
         /\ otps[e].attempts \in 0 .. MaxAttempts /\ otps[e].expires \in Nat
BY DEF TypeOK, HasRow, Row

LEMMA AccountFields ==
  ASSUME TypeOK, NEW e \in Email, HasAccount(e)
  PROVE  /\ users[e] \in Account
         /\ users[e].password \in Maybe(Password)
         /\ users[e].roles \in SUBSET {"user", "viewer"} /\ users[e].reset \in BOOLEAN
BY DEF TypeOK, HasAccount, Account

\* A challenge that is there is told from none by its code.
LEMMA RowsDiffer ==
  ASSUME NEW r \in Row
  PROVE  r # NoRow /\ r.code # 0
BY DEF Row, NoRow

\* What a request does to its job, seen from the point it begins at.
LEMMA BeginJob ==
  ASSUME TypeOK, NEW s \in Session, NEW pc \in Point, NEW roles \in BOOLEAN, NEW e \in Email,
         NEW p \in Maybe(Password), NEW r \in Row \cup {NoRow}, Begin(s, pc, roles, e, p, r)
  PROVE  /\ job'[s] \in Job /\ job' \in [Session -> Job \cup {Idle}]
         /\ \A t \in Session \ {s} : job'[t] = job[t]
         /\ job'[s].pc = (IF roles /\ ~seeded THEN "seeding" ELSE pc)
         /\ job'[s].then = pc /\ job'[s].email = e /\ job'[s].password = p
         /\ job'[s].row = r /\ job'[s].begun = clock
         /\ UNCHANGED <<seeded, users, otps, issued, marks, clock>>
<1> DEFINE j == [pc |-> IF roles /\ ~seeded THEN "seeding" ELSE pc,
                 then |-> pc, email |-> e, password |-> p, row |-> r, begun |-> clock]
<1>1. job' = [job EXCEPT ![s] = j] /\ UNCHANGED <<seeded, users, otps, issued, marks, clock>>
  BY DEF Begin
<1>2. j \in Job
  BY DEF Job, Point, TypeOK
<1> QED
  BY <1>1, <1>2 DEF TypeOK

LEMMA LeaveJob ==
  ASSUME TypeOK, NEW s \in Session, Leave(s)
  PROVE  /\ job' \in [Session -> Job \cup {Idle}]
         /\ job'[s] = Idle /\ \A t \in Session \ {s} : job'[t] = job[t]
BY DEF TypeOK, Leave

-----------------------------------------------------------------------------
(* Types *)

LEMMA TypeInit == Init => TypeOK
<1> SUFFICES ASSUME Init PROVE TypeOK
  OBVIOUS
<1>1. seeded \in BOOLEAN /\ issued \in Nat /\ clock \in Nat /\ marks \subseteq Mark
  BY DEF Init
<1>2. users \in [Email -> Account \cup {NoUser}] /\ otps \in [Email -> Row \cup {NoRow}]
  BY DEF Init
<1>3. job \in [Session -> Job \cup {Idle}]
  BY DEF Init
<1> QED
  BY <1>1, <1>2, <1>3 DEF TypeOK

\* The mark that a commit leaves.
LEMMA MarkTyped ==
  ASSUME TypeOK, NEW s \in Session, ~At(s, {"idle"}), NEW kind \in {"issue", "guess", "enter"},
         NEW code \in Nat \ {0}, NEW p \in Maybe(Password), CommitMark(s, kind, code, p)
  PROVE  /\ marks' \subseteq Mark /\ clock' \in Nat
         /\ job' \in [Session -> Job \cup {Idle}]
<1>1. job[s].email \in Email /\ job[s].begun \in Nat /\ clock \in Nat
  BY JobFields DEF TypeOK
<1>2. [email |-> job[s].email, kind |-> kind, code |-> code, password |-> p,
       begun |-> job[s].begun, done |-> clock + 1] \in Mark
  BY <1>1 DEF Mark
<1>3. Leave(s)
  BY DEF CommitMark
<1> QED
  BY <1>1, <1>2, <1>3, LeaveJob DEF TypeOK, CommitMark

\* The challenge that an issue makes or overwrites.
LEMMA FreshTyped ==
  ASSUME NEW row \in Row \cup {NoRow}, NEW seen \in Row \cup {NoRow}, seen # NoRow => row # NoRow,
         NEW code \in Nat \ {0}, NEW p \in Maybe(Password), NEW expires \in Nat
  PROVE  Fresh(row, seen, code, p, expires) \in Row
<1>1. 0 \in 0 .. MaxAttempts
  BY NumbersAssumption
<1>2. CASE seen = NoRow
  BY <1>1, <1>2 DEF Fresh, Row
<1>3. CASE seen # NoRow
  <2>1. row \in Row /\ row.password \in Maybe(Password) /\ row.attempts \in 0 .. MaxAttempts
    BY <1>3 DEF Row
  <2> QED
    BY <1>1, <1>3, <2>1 DEF Fresh, Row
<1> QED
  BY <1>2, <1>3

LEMMA TypeNext == ASSUME TypeOK, JobsSound, [Next]_vars PROVE TypeOK'
<1>1. CASE UNCHANGED vars
  BY <1>1 DEF vars, TypeOK
<1>2. ASSUME NEW s \in Session, NEW e \in Email, NEW p \in Password, Register(s, e, p)
      PROVE  TypeOK'
  <2>1. "looking" \in Point /\ {p} \in Maybe(Password)
    BY DEF Point, Maybe
  <2>2. job' \in [Session -> Job \cup {Idle}] /\ UNCHANGED <<seeded, users, otps, issued, marks, clock>>
    BY <1>2, <2>1, BeginJob DEF Register
  <2> QED
    BY <2>2 DEF TypeOK
<1>3. ASSUME NEW s \in Session, NEW e \in Email, NEW p \in Password, Login(s, e, p)
      PROVE  TypeOK'
  <2>1. /\ "issuing" \in Point /\ "storing" \in Point /\ {} \in Maybe(Password)
        /\ otps[e] \in Row \cup {NoRow}
    BY DEF Point, Maybe, TypeOK
  <2>2. job' \in [Session -> Job \cup {Idle}] /\ UNCHANGED <<seeded, users, otps, issued, marks, clock>>
    BY <1>3, <2>1, BeginJob DEF Login
  <2> QED
    BY <2>2 DEF TypeOK
<1>4. ASSUME NEW s \in Session, NEW e \in Email, NEW k \in 0 .. issued, Verify(s, e, k)
      PROVE  TypeOK'
  <2>1. /\ "counting" \in Point /\ "admitting" \in Point /\ {} \in Maybe(Password)
        /\ otps[e] \in Row \cup {NoRow}
    BY DEF Point, Maybe, TypeOK
  <2>2. job' \in [Session -> Job \cup {Idle}] /\ UNCHANGED <<seeded, users, otps, issued, marks, clock>>
    BY <1>4, <2>1, BeginJob DEF Verify
  <2> QED
    BY <2>2 DEF TypeOK
<1>5. ASSUME NEW s \in Session, NEW e \in Email, PrototypeLogin(s, e) PROVE TypeOK'
  <2>1. "welcoming" \in Point /\ {} \in Maybe(Password)
    BY DEF Point, Maybe
  <2>2. job' \in [Session -> Job \cup {Idle}] /\ UNCHANGED <<seeded, users, otps, issued, marks, clock>>
    BY <1>5, <2>1, BeginJob DEF PrototypeLogin
  <2> QED
    BY <2>2 DEF TypeOK
<1>6. ASSUME NEW s \in Session, Refuse(s) PROVE TypeOK'
  BY <1>6, LeaveJob DEF TypeOK, Refuse
<1>7. ASSUME NEW s \in Session, Seed(s) PROVE TypeOK'
  <2>1. CASE seeded
    BY <1>6, <1>7, <2>1 DEF Seed
  <2>2. CASE ~seeded
    <3>1. job[s] \in Job /\ job[s].then \in Point
      BY <1>7, JobFields DEF Seed, At
    <3>2. job' = [job EXCEPT ![s] = [job[s] EXCEPT !.pc = job[s].then]]
      BY <1>7, <2>2 DEF Seed
    <3>3. [job[s] EXCEPT !.pc = job[s].then] \in Job
      BY <3>1 DEF Job
    <3> QED
      BY <1>7, <2>2, <3>2, <3>3 DEF TypeOK, Seed
  <2> QED
    BY <2>1, <2>2
<1>8. ASSUME NEW s \in Session, Look(s) PROVE TypeOK'
  <2>1. job[s] \in Job
    BY <1>8, JobFields DEF Look, At
  <2>2. /\ [job[s] EXCEPT !.pc = "issuing"] \in Job
        /\ [job[s] EXCEPT !.pc = "issuing", !.password = {}] \in Job
    BY <2>1 DEF Job, Point, Maybe
  <2>3. \/ job' = [job EXCEPT ![s] = [job[s] EXCEPT !.pc = "issuing"]]
        \/ job' = [job EXCEPT ![s] = [job[s] EXCEPT !.pc = "issuing", !.password = {}]]
        \/ Leave(s)
    BY <1>8 DEF Look, TypeOK
  <2> QED
    BY <1>8, <2>2, <2>3, LeaveJob DEF TypeOK, Look
<1>9. ASSUME NEW s \in Session, Issue(s) PROVE TypeOK'
  <2>1. job[s] \in Job /\ job[s].email \in Email
    BY <1>9, JobFields DEF Issue, At
  <2>2. [job[s] EXCEPT !.pc = "storing", !.row = otps[job[s].email], !.begun = clock] \in Job
    BY <2>1 DEF Job, Point, TypeOK
  <2>3. job' = [job EXCEPT ![s] =
                 [job[s] EXCEPT !.pc = "storing", !.row = otps[job[s].email], !.begun = clock]]
    BY <1>9 DEF Issue, TypeOK
  <2> QED
    BY <1>9, <2>2, <2>3 DEF TypeOK, Issue
<1>10. ASSUME NEW s \in Session, Store(s) PROVE TypeOK'
  <2> DEFINE e == job[s].email
             row == Fresh(otps[e], job[s].row, issued + 1, job[s].password, job[s].begun + Ttl)
  <2>1. CASE job[s].row = NoRow /\ HasRow(e)
    BY <1>6, <1>10, <2>1 DEF Store
  <2>2. CASE ~(job[s].row = NoRow /\ HasRow(e))
    <3>1. ~At(s, {"idle"}) /\ At(s, {"storing"})
      BY <1>10 DEF Store, At
    <3>2. e \in Email /\ job[s].row \in Row \cup {NoRow} /\ job[s].password \in Maybe(Password)
          /\ job[s].begun + Ttl \in Nat /\ issued + 1 \in Nat \ {0}
      BY <3>1, JobFields, NumbersAssumption DEF TypeOK
    <3>3. job[s].row # NoRow => HasRow(e)
      BY <3>1 DEF JobsSound, Consistent, At
    <3>4. row \in Row
      BY <3>2, <3>3, FreshTyped DEF TypeOK, HasRow
    <3>5. row.password \in Maybe(Password)
      BY <3>4 DEF Row
    <3>6. /\ otps' = [otps EXCEPT ![e] = row] /\ issued' = issued + 1
          /\ CommitMark(s, "issue", issued + 1, row.password) /\ UNCHANGED <<seeded, users>>
      BY <1>10, <2>2 DEF Store
    <3>7. marks' \subseteq Mark /\ clock' \in Nat /\ job' \in [Session -> Job \cup {Idle}]
      BY <3>1, <3>2, <3>5, <3>6, MarkTyped
    <3> QED
      BY <3>2, <3>4, <3>6, <3>7 DEF TypeOK
  <2> QED
    BY <2>1, <2>2
\* Entering a challenge that is there: only the attempts change.
<1>11. ASSUME NEW e \in Email, HasRow(e), NEW n \in 0 .. MaxAttempts
       PROVE  [otps EXCEPT ![e].attempts = n] \in [Email -> Row \cup {NoRow}]
  <2>1. otps[e] \in Row
    BY <1>11, RowFields
  <2>2. [otps[e] EXCEPT !.attempts = n] \in Row
    BY <2>1 DEF Row
  <2> QED
    BY <2>2 DEF TypeOK
<1>12. 0 \in 0 .. MaxAttempts
  BY NumbersAssumption
<1>13. ASSUME NEW s \in Session, At(s, {"counting", "entering", "founding"})
       PROVE  /\ ~At(s, {"idle"}) /\ job[s].email \in Email /\ HasRow(job[s].email)
              /\ job[s].row \in Row /\ job[s].row.code \in Nat \ {0}
  <2>1. ~At(s, {"idle"})
    BY <1>13 DEF At
  <2>2. job[s].email \in Email /\ job[s].row \in Row \cup {NoRow}
    BY <2>1, JobFields
  <2>3. job[s].row # NoRow /\ HasRow(job[s].email)
    BY <1>13, <2>1 DEF JobsSound, Consistent, Inside, At
  <2> QED
    BY <2>1, <2>2, <2>3 DEF Row
<1>14. ASSUME NEW s \in Session, Count(s) PROVE TypeOK'
  <2>1. /\ ~At(s, {"idle"}) /\ job[s].email \in Email /\ HasRow(job[s].email)
        /\ job[s].row \in Row /\ job[s].row.code \in Nat \ {0}
    BY <1>13, <1>14 DEF Count, At
  <2>2. job[s].row.attempts + 1 \in 0 .. MaxAttempts
    BY <1>14, <2>1, NumbersAssumption DEF Count, JobsSound, Consistent, Row
  <2>3. otps' \in [Email -> Row \cup {NoRow}]
    BY <1>11, <1>14, <2>1, <2>2 DEF Count
  <2>4. marks' \subseteq Mark /\ clock' \in Nat /\ job' \in [Session -> Job \cup {Idle}]
    BY <1>14, <2>1, MarkTyped DEF Count, Maybe
  <2> QED
    BY <1>14, <2>3, <2>4 DEF TypeOK, Count
<1>15. ASSUME NEW s \in Session, Admit(s) PROVE TypeOK'
  <2> DEFINE e == job[s].email
             j == [job[s] EXCEPT !.pc = "founding", !.password = otps[e].password,
                                 !.row = [job[s].row EXCEPT !.attempts = otps[e].attempts]]
  <2>1. ~At(s, {"idle"}) /\ Inside(s)
    BY <1>15 DEF Admit, At, Inside
  <2>2. job[s] \in Job /\ e \in Email /\ HasRow(e) /\ job[s].row \in Row
    BY <2>1, JobFields DEF JobsSound, Consistent
  <2>3. otps[e].password \in Maybe(Password) /\ otps[e].attempts \in 0 .. MaxAttempts
    BY <2>2, RowFields
  <2>4. [job[s].row EXCEPT !.attempts = otps[e].attempts] \in Row
    BY <2>2, <2>3 DEF Row
  <2>5. j \in Job /\ [job[s] EXCEPT !.pc = "entering"] \in Job
    BY <2>2, <2>3, <2>4 DEF Job, Point
  <2>6. \/ job' = [job EXCEPT ![s] = [job[s] EXCEPT !.pc = "entering"]]
        \/ Leave(s)
        \/ job' = [job EXCEPT ![s] = j]
    <3>1. CASE HasAccount(e)
      BY <1>15, <3>1 DEF Admit, TypeOK
    <3>2. CASE ~HasAccount(e) /\ otps[e].password = {}
      BY <1>15, <3>2 DEF Admit
    <3>3. CASE ~HasAccount(e) /\ otps[e].password # {}
      <4>1. job' = [job EXCEPT ![s].pc = "founding", ![s].password = otps[e].password,
                               ![s].row.attempts = otps[e].attempts]
        BY <1>15, <3>3 DEF Admit
      <4> QED
        BY <2>2, <4>1 DEF TypeOK, Job
    <3> QED
      BY <3>1, <3>2, <3>3
  <2> QED
    BY <1>15, <2>5, <2>6, LeaveJob DEF TypeOK, Admit
<1>16. ASSUME NEW s \in Session, Enter(s) PROVE TypeOK'
  <2>1. /\ ~At(s, {"idle"}) /\ job[s].email \in Email /\ HasRow(job[s].email)
        /\ job[s].row \in Row /\ job[s].row.code \in Nat \ {0}
    BY <1>13, <1>16 DEF Enter, At
  <2>2. otps' \in [Email -> Row \cup {NoRow}]
    BY <1>11, <1>12, <1>16, <2>1 DEF Enter
  <2>3. marks' \subseteq Mark /\ clock' \in Nat /\ job' \in [Session -> Job \cup {Idle}]
    BY <1>16, <2>1, MarkTyped DEF Enter, Maybe
  <2> QED
    BY <1>16, <2>2, <2>3 DEF TypeOK, Enter
<1>17. ASSUME NEW s \in Session, Found(s) PROVE TypeOK'
  <2> DEFINE e == job[s].email
  <2>1. CASE HasAccount(e)
    BY <1>6, <1>17, <2>1 DEF Found
  <2>2. CASE ~HasAccount(e)
    <3>1. /\ ~At(s, {"idle"}) /\ e \in Email /\ HasRow(e)
          /\ job[s].row \in Row /\ job[s].row.code \in Nat \ {0}
      BY <1>13, <1>17 DEF Found, At
    <3>2. job[s].password \in Maybe(Password) /\ otps[e].attempts \in 0 .. MaxAttempts
      BY <3>1, JobFields, RowFields
    <3>3. otps' \in [Email -> Row \cup {NoRow}]
      BY <1>11, <1>12, <1>17, <2>2, <3>1, <3>2 DEF Found
    <3>4. marks' \subseteq Mark /\ clock' \in Nat /\ job' \in [Session -> Job \cup {Idle}]
      BY <1>17, <2>2, <3>1, <3>2, MarkTyped DEF Found
    <3>5. users' \in [Email -> Account \cup {NoUser}]
      <4>1. [password |-> job[s].password, roles |-> {"viewer"}, reset |-> FALSE] \in Account
        BY <3>2 DEF Account
      <4> QED
        BY <1>17, <2>2, <4>1 DEF Found, TypeOK
    <3> QED
      BY <1>17, <2>2, <3>3, <3>4, <3>5 DEF TypeOK, Found
  <2> QED
    BY <2>1, <2>2
<1>18. ASSUME NEW e \in Email, NEW p \in Password, CreateUser(e, p) PROVE TypeOK'
  BY <1>18 DEF TypeOK, CreateUser, Account, Maybe
<1>18a. ASSUME NEW e \in Email, NEW p \in Password, ResetPassword(e, p) PROVE TypeOK'
  <2>1. users[e] \in Account /\ users' = [users EXCEPT ![e] = [users[e] EXCEPT
          !.password = {p}, !.reset = TRUE]]
    BY <1>18a, AccountFields DEF ResetPassword
  <2>2. [users[e] EXCEPT !.password = {p}, !.reset = TRUE] \in Account
    <3>1. {p} \in Maybe(Password)
      BY DEF Maybe
    <3> QED
      BY <2>1, <3>1 DEF Account
  <2>3. users' \in [Email -> Account \cup {NoUser}]
    BY <2>1, <2>2 DEF TypeOK
  <2>4. clock' = clock + 1 /\ UNCHANGED <<seeded, otps, issued, marks, job>>
    BY <1>18a DEF ResetPassword
  <2> QED
    BY <2>3, <2>4 DEF TypeOK
<1>19. ASSUME NEW s \in Session, EnsureUsers(s) PROVE TypeOK'
  <2>1. ASSUME NEW e \in Email, e \in DOMAIN Prototype PROVE Prototype[e] \in {"user", "viewer"}
    BY <2>1, PrototypeAssumption
  <2>2. users' \in [Email -> Account \cup {NoUser}]
    <3> SUFFICES ASSUME NEW e \in Email PROVE users'[e] \in Account \cup {NoUser}
      BY <1>19 DEF EnsureUsers
    <3>1. CASE e \notin DOMAIN Prototype
      BY <1>19, <3>1 DEF EnsureUsers, TypeOK
    <3>2. CASE e \in DOMAIN Prototype /\ HasAccount(e)
      BY <1>19, <2>1, <3>2, AccountFields DEF EnsureUsers, Account
    <3>3. CASE e \in DOMAIN Prototype /\ ~HasAccount(e)
      BY <1>19, <2>1, <3>3 DEF EnsureUsers, Account, Maybe
    <3> QED
      BY <3>1, <3>2, <3>3
  <2>3. Leave(s)
    BY <1>19 DEF EnsureUsers
  <2> QED
    BY <1>19, <2>2, <2>3, LeaveJob DEF TypeOK, EnsureUsers
<1>20. CASE Tick
  BY <1>20 DEF TypeOK, Tick
<1> QED
  BY <1>1, <1>2, <1>3, <1>4, <1>5, <1>6, <1>7, <1>8, <1>9, <1>10, <1>14, <1>15, <1>16, <1>17,
     <1>18, <1>18a, <1>19, <1>20 DEF Next, Fail

-----------------------------------------------------------------------------
(* Steps that commit nothing to a challenge *)

Sound(s) == Consistent(s) /\ Proven(s) /\ SeenUntilOverlap(s)

LEMMA JobsSoundAll == JobsSound <=> \A s \in Session : Sound(s)
BY DEF JobsSound, Sound

Quiet == UNCHANGED <<otps, marks>> /\ clock' \in Nat /\ clock <= clock'

\* Accounts are never taken away, and their passwords change only where that is told.
UsersKept ==
  \A e \in Email : HasAccount(e) =>
    /\ HasAccount(e)'
    /\ users'[e].reset \/ (~users[e].reset /\ users'[e].password = users[e].password)
    /\ users[e].roles \subseteq users'[e].roles

LEMMA QuietKeeps ==
  ASSUME AccountInv, Quiet, UsersKept
  PROVE  RowsNewest' /\ MarksInPast' /\ AcceptedCodes' /\ AccountOfProvenCode'
           /\ CountedUntilOverlap'
<1> USE DEF AccountInv
<1>2. RowsNewest'
  BY DEF Quiet, RowsNewest, HasRow, Marks
<1>3. MarksInPast'
  BY DEF Quiet, MarksInPast, TypeOK, Mark
<1>4. AcceptedCodes'
  BY DEF Quiet, AcceptedCodes, Marks
<1>5. AccountOfProvenCode'
  BY DEF Quiet, AccountOfProvenCode, UsersKept, Marks
<1>6. CountedUntilOverlap'
  BY DEF Quiet, CountedUntilOverlap, Overlapped, HasRow, Marks
<1> QED
  BY <1>2, <1>3, <1>4, <1>5, <1>6

LEMMA QuietOthers ==
  ASSUME AccountInv, Quiet, NEW t \in Session, job'[t] = job[t]
  PROVE  Sound(t)'
<1>1. Sound(t)
  BY JobsSoundAll DEF AccountInv
<1>2. Consistent(t)'
  <2>1. job[t].begun <= clock => job[t].begun <= clock' \/ At(t, {"idle"})
    <3>1. CASE ~At(t, {"idle"})
      BY <3>1, JobFields DEF Quiet, AccountInv, TypeOK
    <3> QED
      BY <3>1
  <2> QED
    BY <1>1, <2>1 DEF Sound, Consistent, Quiet, At, Inside, HasRow
<1>3. Proven(t)'
  BY <1>1 DEF Sound, Proven, Quiet, At, Inside, Marks
<1>4. SeenUntilOverlap(t)'
  BY <1>1 DEF Sound, SeenUntilOverlap, Quiet, At, Inside
<1> QED
  BY <1>2, <1>3, <1>4 DEF Sound

LEMMA IdleSound ==
  ASSUME NEW s \in Session, job'[s] = Idle
  PROVE  Sound(s)'
BY DEF Sound, Consistent, Proven, SeenUntilOverlap, Inside, At, Idle

\* A step of s that commits nothing to a challenge keeps the invariant if it
\* leaves s sound.
LEMMA QuietStep ==
  ASSUME AccountInv, TypeOK', Quiet, UsersKept, NEW s \in Session, Sound(s)',
         \A t \in Session \ {s} : job'[t] = job[t]
  PROVE  AccountInv'
<1>1. JobsSound'
  <2>1. \A t \in Session : Sound(t)'
    BY QuietOthers
  <2> QED
    BY <2>1 DEF JobsSound, Sound
<1> QED
  BY <1>1, QuietKeeps DEF AccountInv

LEMMA UsersUnchanged ==
  ASSUME AccountInv, users' = users PROVE UsersKept
BY AccountFields DEF UsersKept, HasAccount, AccountInv

LEMMA RefuseSound ==
  ASSUME AccountInv, TypeOK', NEW s \in Session, Refuse(s)
  PROVE  AccountInv'
<1>1. job'[s] = Idle /\ \A t \in Session \ {s} : job'[t] = job[t]
  BY LeaveJob DEF Refuse, AccountInv
<1>2. Quiet /\ UsersKept
  BY UsersUnchanged DEF Refuse, Quiet, AccountInv, TypeOK
<1> QED
  BY <1>1, <1>2, IdleSound, QuietStep

\* A request that has begun, with what it read of the challenge.
LEMMA BeginSound ==
  ASSUME AccountInv, TypeOK', NEW s \in Session, NEW pc \in Point, NEW roles \in BOOLEAN,
         NEW e \in Email, NEW p \in Maybe(Password), NEW r \in Row \cup {NoRow},
         Begin(s, pc, roles, e, p, r),
         \/ pc \in {"looking", "issuing", "welcoming"}
         \/ pc = "storing" /\ ~roles /\ r = otps[e]
         \/ pc = "counting" /\ ~roles /\ HasRow(e) /\ r = otps[e] /\ r.attempts < MaxAttempts
         \/ pc = "admitting" /\ HasRow(e) /\ r = otps[e] /\ clock <= r.expires,
         pc = "issuing" => ~roles
  PROVE  AccountInv'
<1>1. /\ \A t \in Session \ {s} : job'[t] = job[t]
      /\ job'[s].pc = (IF roles /\ ~seeded THEN "seeding" ELSE pc)
      /\ job'[s].then = pc /\ job'[s].email = e /\ job'[s].row = r /\ job'[s].begun = clock
      /\ UNCHANGED <<seeded, users, otps, issued, marks, clock>>
  BY BeginJob DEF AccountInv
<1>2. Quiet /\ UsersKept
  BY <1>1, UsersUnchanged DEF Quiet, AccountInv, TypeOK
<1>3. Consistent(s)'
  BY <1>1 DEF Consistent, At, Inside, HasRow, AccountInv, TypeOK
<1>4. SeenUntilOverlap(s)'
  BY <1>1 DEF SeenUntilOverlap, At, Inside
<1>5. Proven(s)'
  <2> SUFFICES ASSUME Inside(s)'
               PROVE  \E i \in Marks(e, "issue") :
                 /\ i.code = r.code /\ i.done <= clock /\ clock <= i.begun + Ttl
                 /\ \A j \in Marks(e, "issue") : j.done <= i.done \/ clock < j.done
                 /\ ~At(s, {"founding"})'
    BY <1>1 DEF Proven, Marks
  <2>1. pc = "admitting" /\ HasRow(e) /\ r = otps[e] /\ clock <= r.expires /\ ~At(s, {"founding"})'
    BY <1>1 DEF Inside, At
  <2>2. PICK i \in Marks(e, "issue") :
          /\ i.code = r.code /\ r.expires = i.begun + Ttl
          /\ \A j \in Marks(e, "issue") : j.done <= i.done
    BY <2>1 DEF AccountInv, RowsNewest
  <2>3. i.done <= clock
    BY DEF Marks, AccountInv, MarksInPast
  <2> QED
    BY <2>1, <2>2, <2>3
<1> QED
  BY <1>1, <1>2, <1>3, <1>4, <1>5, QuietStep DEF Sound

\* The requests begin.
LEMMA RequestsBegin ==
  ASSUME AccountInv, TypeOK', NEW s \in Session, NEW e \in Email,
         \/ \E p \in Password : Register(s, e, p) \/ Login(s, e, p)
         \/ \E k \in 0 .. issued : Verify(s, e, k)
         \/ PrototypeLogin(s, e)
  PROVE  AccountInv'
<1>1. /\ {"looking", "issuing", "storing", "counting", "admitting", "welcoming"} \subseteq Point
      /\ {} \in Maybe(Password) /\ (\A p \in Password : {p} \in Maybe(Password))
      /\ NoRow \in Row \cup {NoRow} /\ otps[e] \in Row \cup {NoRow}
  BY DEF Point, Maybe, AccountInv, TypeOK
<1>2. ASSUME NEW p \in Password, Register(s, e, p) PROVE AccountInv'
  BY <1>1, <1>2, BeginSound DEF Register
<1>3. ASSUME NEW p \in Password, Login(s, e, p) PROVE AccountInv'
  <2>1. CASE Begin(s, "issuing", FALSE, e, {}, NoRow)
    BY <1>1, <2>1, BeginSound
  <2>2. CASE Begin(s, "storing", FALSE, e, {}, otps[e])
    BY <1>1, <2>2, BeginSound
  <2> QED
    BY <1>3, <2>1, <2>2 DEF Login
<1>4. ASSUME NEW k \in 0 .. issued, Verify(s, e, k) PROVE AccountInv'
  <2>1. HasRow(e) /\ otps[e].attempts < MaxAttempts /\ clock <= otps[e].expires
    BY <1>4 DEF Verify
  <2>2. CASE Begin(s, "counting", FALSE, e, {}, otps[e])
    BY <1>1, <2>1, <2>2, BeginSound
  <2>3. CASE Begin(s, "admitting", TRUE, e, {}, otps[e])
    BY <1>1, <2>1, <2>3, BeginSound
  <2> QED
    BY <1>4, <2>2, <2>3 DEF Verify
<1>5. CASE PrototypeLogin(s, e)
  BY <1>1, <1>5, BeginSound DEF PrototypeLogin
<1> QED
  BY <1>2, <1>3, <1>4, <1>5

\* ensure_default_roles() and the points at which a request only looks.
LEMMA SeedSound ==
  ASSUME AccountInv, TypeOK', NEW s \in Session, Seed(s)
  PROVE  AccountInv'
<1>1. CASE seeded
  BY <1>1, RefuseSound DEF Seed
<1>2. CASE ~seeded
  <2>1. ~At(s, {"idle"}) /\ At(s, {"seeding"})
    BY DEF Seed, At
  <2>2. job[s] \in Job /\ job[s].begun \in Nat
    BY <2>1, JobFields DEF AccountInv
  <2>3. /\ job'[s].pc = job[s].then /\ job'[s].then = job[s].then
        /\ job'[s].email = job[s].email /\ job'[s].row = job[s].row
        /\ job'[s].begun = job[s].begun /\ job'[s].password = job[s].password
        /\ \A t \in Session \ {s} : job'[t] = job[t]
    BY <1>2, <2>2 DEF Seed, AccountInv, TypeOK, Job
  <2>4. clock' = clock + 1 /\ UNCHANGED <<users, otps, issued, marks>>
    BY <1>2 DEF Seed
  <2>5. Quiet /\ UsersKept
    BY <2>4, UsersUnchanged DEF Quiet, AccountInv, TypeOK
  <2>6. Sound(s) /\ job[s].then \in {"looking", "admitting", "welcoming"}
    BY <2>1, JobsSoundAll DEF AccountInv, Sound, Consistent
  <2>7. Consistent(s)'
    BY <2>1, <2>2, <2>3, <2>4, <2>6 DEF Sound, Consistent, At, Inside, HasRow, AccountInv, TypeOK
  <2>8. Proven(s)'
    BY <2>1, <2>3, <2>4, <2>6 DEF Sound, Proven, At, Inside, Marks
  <2>9. SeenUntilOverlap(s)'
    BY <2>1, <2>3, <2>4, <2>6 DEF Sound, SeenUntilOverlap, At, Inside
  <2> QED
    BY <2>3, <2>5, <2>7, <2>8, <2>9, QuietStep DEF Sound
<1> QED
  BY <1>1, <1>2

LEMMA LookSound ==
  ASSUME AccountInv, TypeOK', NEW s \in Session, Look(s) \/ Issue(s)
  PROVE  AccountInv'
<1>1. ~At(s, {"idle"}) /\ ~Inside(s)
  BY DEF Look, Issue, At, Inside
<1>2. job[s] \in Job /\ job[s].email \in Email /\ job[s].begun \in Nat
  BY <1>1, JobFields DEF AccountInv
<1>3. UNCHANGED <<seeded, users, otps, issued, marks, clock>>
  BY DEF Look, Issue
<1>4. /\ \A t \in Session \ {s} : job'[t] = job[t]
      /\ \/ job'[s] = Idle
         \/ job'[s].pc = "issuing" /\ job'[s].begun = job[s].begun
         \/ /\ job'[s].pc = "storing" /\ job'[s].email = job[s].email
            /\ job'[s].row = otps[job[s].email] /\ job'[s].begun = clock
  <2>1. CASE Look(s)
    <3>1. \/ job' = [job EXCEPT ![s] = [job[s] EXCEPT !.pc = "issuing"]]
          \/ job' = [job EXCEPT ![s] = [job[s] EXCEPT !.pc = "issuing", !.password = {}]]
          \/ Leave(s)
      BY <2>1 DEF Look, AccountInv, TypeOK
    <3> QED
      BY <1>2, <3>1, LeaveJob DEF AccountInv, TypeOK, Job
  <2>2. CASE Issue(s)
    BY <1>2, <2>2 DEF Issue, AccountInv, TypeOK, Job
  <2> QED
    BY <2>1, <2>2
<1>5. Quiet /\ UsersKept
  BY <1>3, UsersUnchanged DEF Quiet, AccountInv, TypeOK
<1>6. Consistent(s)
  BY DEF AccountInv, JobsSound
<1>7. Sound(s)'
  <2>1. CASE job'[s] = Idle
    BY <2>1, IdleSound
  <2>2. CASE job'[s].pc = "issuing" /\ job'[s].begun = job[s].begun
    BY <1>1, <1>3, <1>6, <2>2 DEF Sound, Consistent, Proven, SeenUntilOverlap, Inside, At
  <2>3. CASE /\ job'[s].pc = "storing" /\ job'[s].email = job[s].email
             /\ job'[s].row = otps[job[s].email] /\ job'[s].begun = clock
    BY <1>3, <2>3
    DEF Sound, Consistent, Proven, SeenUntilOverlap, Inside, At, HasRow, AccountInv, TypeOK
  <2> QED
    BY <1>4, <2>1, <2>2, <2>3
<1> QED
  BY <1>4, <1>5, <1>7, QuietStep

\* The challenge is read again where an account is to be made: its password is
\* that of the code, or another code was issued since.
LEMMA AdmitSound ==
  ASSUME AccountInv, TypeOK', NEW s \in Session, Admit(s)
  PROVE  AccountInv'
<1> DEFINE e == job[s].email
<1>1. ~At(s, {"idle"}) /\ Inside(s) /\ job[s].pc = "admitting"
  BY DEF Admit, At, Inside
<1>2. /\ Consistent(s) /\ Proven(s) /\ SeenUntilOverlap(s)
      /\ job[s] \in Job /\ e \in Email /\ HasRow(e) /\ job[s].row \in Row /\ job[s].begun \in Nat
  BY <1>1, JobFields DEF AccountInv, JobsSound, Consistent
<1>3. UNCHANGED <<seeded, users, otps, issued, marks, clock>>
  BY DEF Admit
<1>4. otps[e] \in Row
  BY <1>2, RowFields DEF AccountInv
<1>5. \/ Leave(s)
      \/ job' = [job EXCEPT ![s] = [job[s] EXCEPT !.pc = "entering"]]
      \/ job' = [job EXCEPT ![s] = [job[s] EXCEPT !.pc = "founding", !.password = otps[e].password,
                                    !.row = [job[s].row EXCEPT !.attempts = otps[e].attempts]]]
  <2>1. CASE HasAccount(e)
    BY <2>1 DEF Admit, AccountInv, TypeOK
  <2>2. CASE ~HasAccount(e) /\ otps[e].password = {}
    BY <2>2 DEF Admit
  <2>3. CASE ~HasAccount(e) /\ otps[e].password # {}
    <3>1. job' = [job EXCEPT ![s].pc = "founding", ![s].password = otps[e].password,
                             ![s].row.attempts = otps[e].attempts]
      BY <2>3 DEF Admit
    <3> QED
      BY <1>2, <3>1 DEF AccountInv, TypeOK, Job
  <2> QED
    BY <2>1, <2>2, <2>3
<1>6. \A t \in Session \ {s} : job'[t] = job[t]
  BY <1>5, LeaveJob DEF AccountInv, TypeOK
<1>7. Quiet /\ UsersKept
  BY <1>3, UsersUnchanged DEF Quiet, AccountInv, TypeOK
<1>8. PICK i \in Marks(e, "issue") :
        /\ i.code = job[s].row.code
        /\ i.done <= job[s].begun /\ job[s].begun <= i.begun + Ttl
        /\ \A j \in Marks(e, "issue") : j.done <= i.done \/ job[s].begun < j.done
  BY <1>1, <1>2 DEF Proven
<1>9. CASE Leave(s)
  BY <1>6, <1>7, <1>9, LeaveJob, IdleSound, QuietStep DEF AccountInv
<1>10. CASE job' = [job EXCEPT ![s] = [job[s] EXCEPT !.pc = "entering"]]
  <2>1. /\ job'[s].pc = "entering" /\ job'[s].email = e /\ job'[s].row = job[s].row
        /\ job'[s].begun = job[s].begun
    BY <1>2, <1>10 DEF AccountInv, TypeOK, Job
  <2>2. Consistent(s)'
    BY <1>1, <1>2, <1>3, <2>1 DEF Consistent, At, Inside, HasRow
  <2>3. Proven(s)'
    BY <1>3, <1>8, <2>1 DEF Proven, At, Inside, Marks
  <2>4. SeenUntilOverlap(s)'
    BY <1>1, <1>2, <1>3, <2>1 DEF SeenUntilOverlap, At, Inside
  <2> QED
    BY <1>6, <1>7, <2>2, <2>3, <2>4, QuietStep DEF Sound
<1>11. CASE job' = [job EXCEPT ![s] =
              [job[s] EXCEPT !.pc = "founding", !.password = otps[e].password,
                             !.row = [job[s].row EXCEPT !.attempts = otps[e].attempts]]]
  <2>1. /\ job'[s].pc = "founding" /\ job'[s].email = e /\ job'[s].password = otps[e].password
        /\ job'[s].row = [job[s].row EXCEPT !.attempts = otps[e].attempts]
        /\ job'[s].begun = job[s].begun
    BY <1>2, <1>11 DEF AccountInv, TypeOK, Job
  <2>2. job'[s].row.code = job[s].row.code /\ job'[s].row # NoRow
    BY <1>2, <2>1 DEF Row, NoRow
  <2>3. Consistent(s)'
    BY <1>1, <1>2, <1>3, <2>1, <2>2 DEF Consistent, At, Inside, HasRow
  <2>4. i.password # otps[e].password => \E j \in Marks(e, "issue") : job[s].begun < j.done
    <3>1. PICK n \in Marks(e, "issue") :
            n.password = otps[e].password /\ \A j \in Marks(e, "issue") : j.done <= n.done
      BY <1>2 DEF AccountInv, RowsNewest
    <3>2. i.done \in Nat /\ n.done \in Nat /\ i \in marks /\ n \in marks
      BY DEF Marks, AccountInv, TypeOK, Mark
    <3>3. i.done = n.done => i = n
      BY <3>2 DEF AccountInv, MarksInPast
    <3> QED
      BY <1>8, <3>1, <3>2, <3>3
  <2>5. Proven(s)'
    BY <1>3, <1>8, <2>1, <2>2, <2>4 DEF Proven, At, Inside, Marks
  <2>6. SeenUntilOverlap(s)'
    <3>1. job[s].row = otps[e] => job'[s].row = otps[e]
      BY <1>4, <2>1 DEF Row
    <3> QED
      BY <1>1, <1>2, <1>3, <2>1, <3>1 DEF SeenUntilOverlap, At, Inside
  <2> QED
    BY <1>6, <1>7, <2>3, <2>5, <2>6, QuietStep DEF Sound
<1> QED
  BY <1>5, <1>9, <1>10, <1>11

\* Accounts that codes have nothing to do with, and time.
LEMMA OtherAccountsSound ==
  ASSUME AccountInv, TypeOK',
         \/ \E e \in Email, p \in Password : CreateUser(e, p) \/ ResetPassword(e, p)
         \/ \E s \in Session : EnsureUsers(s)
         \/ Tick
  PROVE  AccountInv'
<1>1. Quiet
  <2>1. ASSUME clock' = clock + 1, UNCHANGED <<otps, marks>> PROVE Quiet
    BY <2>1 DEF Quiet, AccountInv, TypeOK
  <2>2. ASSUME NEW e \in Email, NEW p \in Password, ResetPassword(e, p) PROVE Quiet
    BY <2>1, <2>2 DEF ResetPassword
  <2> QED
    BY <2>1, <2>2 DEF CreateUser, EnsureUsers, Tick
<1>2. UsersKept
  <2>1. ASSUME NEW e \in Email, NEW p \in Password, CreateUser(e, p) PROVE UsersKept
    <3>1. ~HasAccount(e) /\ \A f \in Email \ {e} : users'[f] = users[f]
      BY <2>1 DEF CreateUser, AccountInv, TypeOK
    <3>2. \A f \in Email : HasAccount(f) => users'[f] = users[f] /\ users[f].reset \in BOOLEAN
      BY <3>1, AccountFields DEF AccountInv
    <3> QED
      BY <3>2 DEF UsersKept, HasAccount
  <2>2. ASSUME NEW s \in Session, EnsureUsers(s) PROVE UsersKept
    <3> SUFFICES ASSUME NEW e \in Email, HasAccount(e)
                 PROVE  /\ HasAccount(e)'
                        /\ \/ users'[e].reset
                           \/ ~users[e].reset /\ users'[e].password = users[e].password
                        /\ users[e].roles \subseteq users'[e].roles
      BY DEF UsersKept
    <3>1. users[e] \in Account /\ users'[e] \in Account \cup {NoUser}
      BY AccountFields DEF AccountInv, TypeOK
    <3>2. users'[e] = users[e] \/ users'[e] = [users[e] EXCEPT !.roles = @ \cup {Prototype[e]}]
      BY <2>2 DEF EnsureUsers
    <3>3. /\ users'[e].password = users[e].password /\ users'[e].reset = users[e].reset
          /\ users[e].reset \in BOOLEAN /\ users[e].roles \subseteq users'[e].roles
      BY <3>1, <3>2 DEF Account
    <3>4. users'[e] # NoUser
      <4>1. CASE users'[e] = users[e]
        BY <4>1 DEF HasAccount
      <4>2. CASE users'[e] = [users[e] EXCEPT !.roles = @ \cup {Prototype[e]}]
        <5>1. "password" \in DOMAIN users'[e]
          BY <3>1, <4>2 DEF Account
        <5>2. "password" \notin DOMAIN NoUser
          BY DEF NoUser
        <5> QED
          BY <5>1, <5>2
      <4> QED
        BY <3>2, <4>1, <4>2
    <3> QED
      BY <3>3, <3>4 DEF HasAccount
  <2>3. ASSUME NEW e \in Email, NEW p \in Password, ResetPassword(e, p) PROVE UsersKept
    <3>1. users[e] \in Account /\ users' = [users EXCEPT ![e] = [users[e] EXCEPT
            !.password = {p}, !.reset = TRUE]]
      BY <2>3, AccountFields DEF ResetPassword, AccountInv
    <3> DEFINE a == [users[e] EXCEPT !.password = {p}, !.reset = TRUE]
    <3>2. a.reset /\ a.roles = users[e].roles /\ "password" \in DOMAIN a
      BY <3>1 DEF Account
    <3>3. a # NoUser
      <4>1. "password" \notin DOMAIN NoUser
        BY DEF NoUser
      <4> QED
        BY <3>2, <4>1
    <3> HIDE DEF a
    <3>4. users'[e] = a /\ \A f \in Email \ {e} : users'[f] = users[f]
      BY <3>1 DEF a, AccountInv, TypeOK
    <3> SUFFICES ASSUME NEW f \in Email, HasAccount(f)
                 PROVE  /\ HasAccount(f)'
                        /\ \/ users'[f].reset
                           \/ ~users[f].reset /\ users'[f].password = users[f].password
                        /\ users[f].roles \subseteq users'[f].roles
      BY DEF UsersKept
    <3>5. users[f].reset \in BOOLEAN
      BY AccountFields DEF AccountInv
    <3> QED
      BY <3>2, <3>3, <3>4, <3>5 DEF HasAccount
  <2> QED
    BY <2>1, <2>2, <2>3, UsersUnchanged DEF Tick
<1>3. \A t \in Session : Sound(t)'
  <2> SUFFICES ASSUME NEW t \in Session PROVE Sound(t)'
    OBVIOUS
  <2>1. job'[t] = job[t] \/ job'[t] = Idle
    BY LeaveJob DEF CreateUser, ResetPassword, EnsureUsers, Tick, AccountInv
  <2> QED
    BY <1>1, <2>1, QuietOthers, IdleSound
<1> QED
  BY <1>1, <1>2, <1>3, QuietKeeps DEF AccountInv, JobsSound, Sound

-----------------------------------------------------------------------------
(* Steps that commit to a challenge *)

\* Request s commits what mark m tells, and is done.
Commits(s, m) ==
  /\ ~At(s, {"idle"}) /\ m \in Mark
  /\ m.email = job[s].email /\ m.begun = job[s].begun /\ m.done = clock + 1
  /\ marks' = marks \cup {m} /\ clock' = clock + 1
  /\ job'[s] = Idle /\ \A t \in Session \ {s} : job'[t] = job[t]
  /\ \A e \in Email \ {m.email} : otps'[e] = otps[e]
  /\ otps'[m.email] # NoRow

LEMMA CommitMarkCommits ==
  ASSUME AccountInv, NEW s \in Session, ~At(s, {"idle"}),
         NEW kind \in {"issue", "guess", "enter"}, NEW code \in Nat \ {0},
         NEW p \in Maybe(Password), CommitMark(s, kind, code, p),
         NEW r \in Row, otps'[job[s].email] = r,
         \A e \in Email \ {job[s].email} : otps'[e] = otps[e]
  PROVE  \E m \in Mark : /\ Commits(s, m) /\ m.kind = kind /\ m.code = code /\ m.password = p
                         /\ otps'[m.email] = r
<1> DEFINE m == [email |-> job[s].email, kind |-> kind, code |-> code, password |-> p,
                 begun |-> job[s].begun, done |-> clock + 1]
<1>1. job[s].email \in Email /\ job[s].begun \in Nat /\ clock \in Nat
  BY JobFields DEF AccountInv, TypeOK
<1>2. m \in Mark
  BY <1>1 DEF Mark
<1>4. job'[s] = Idle /\ \A t \in Session \ {s} : job'[t] = job[t]
  BY LeaveJob DEF CommitMark, AccountInv
<1>5. marks' = marks \cup {m} /\ clock' = clock + 1
  BY DEF CommitMark
<1>6. /\ m.email = job[s].email /\ m.begun = job[s].begun /\ m.done = clock + 1
      /\ m.kind = kind /\ m.code = code /\ m.password = p
  OBVIOUS
<1> HIDE DEF m
<1>7. otps'[m.email] # NoRow
  BY <1>6, RowsDiffer
<1>8. Commits(s, m)
  BY <1>2, <1>4, <1>5, <1>6, <1>7 DEF Commits
<1> QED
  BY <1>2, <1>6, <1>8

\* Every mark is older than one that is being made.
LEMMA MarksOlder ==
  ASSUME AccountInv, NEW s \in Session, NEW m, Commits(s, m)
  PROVE  /\ clock \in Nat /\ m.begun \in Nat /\ m.begun <= clock
         /\ \A n \in marks : n \in Mark /\ n.done \in Nat /\ n.begun \in Nat /\ n.done <= clock
         /\ m \notin marks
<1>1. m.begun \in Nat /\ m.begun <= clock /\ clock \in Nat
  BY JobFields DEF Commits, AccountInv, TypeOK, JobsSound, Consistent
<1>2. \A n \in marks : n \in Mark /\ n.done \in Nat /\ n.begun \in Nat /\ n.done <= clock
  BY DEF AccountInv, TypeOK, MarksInPast, Mark
<1> QED
  BY <1>1, <1>2 DEF Commits

LEMMA CommitMarksInPast ==
  ASSUME AccountInv, NEW s \in Session, NEW m, Commits(s, m)
  PROVE  MarksInPast'
<1>1. IsFiniteSet(marks')
  BY FS_AddElement DEF Commits, AccountInv, MarksInPast
<1>2. \A n \in marks' : n.begun < n.done /\ n.done <= clock'
  BY MarksOlder DEF Commits, AccountInv, MarksInPast
<1>3. \A n, q \in marks' : n.done = q.done => n = q
  BY MarksOlder DEF Commits, AccountInv, MarksInPast
<1> QED
  BY <1>1, <1>2, <1>3 DEF MarksInPast

\* The other requests stay sound.
LEMMA CommitJobs ==
  ASSUME AccountInv, NEW s \in Session, NEW m, Commits(s, m)
  PROVE  JobsSound'
<1> SUFFICES ASSUME NEW t \in Session PROVE Sound(t)'
  BY DEF JobsSound, Sound
<1>1. CASE t = s
  BY <1>1, IdleSound DEF Commits
<1>2. CASE t # s
  <2>1. job'[t] = job[t]
    BY <1>2 DEF Commits
  <2>2. Consistent(t) /\ Proven(t) /\ SeenUntilOverlap(t)
    BY DEF AccountInv, JobsSound
  <2>3. CASE At(t, {"idle"})
    BY <2>1, <2>3 DEF Sound, Consistent, Proven, SeenUntilOverlap, Inside, At
  <2>4. CASE ~At(t, {"idle"})
    <3>1. job[t].email \in Email /\ job[t].begun \in Nat /\ job[t].begun <= clock
      BY <2>2, <2>4, JobFields DEF AccountInv, Consistent
    <3>2. HasRow(job[t].email) => HasRow(job[t].email)'
      BY <2>1, <3>1 DEF Commits, HasRow
    <3>3. Consistent(t)'
      BY <2>1, <2>2, <3>1, <3>2, MarksOlder DEF Consistent, Commits, At, Inside
    <3>4. Proven(t)'
      BY <2>1, <2>2, <3>1, MarksOlder DEF Proven, Commits, At, Inside, Marks
    <3>5. SeenUntilOverlap(t)'
      BY <2>1, <2>2, <3>1, MarksOlder DEF SeenUntilOverlap, Commits, At, Inside
    <3> QED
      BY <3>3, <3>4, <3>5 DEF Sound
  <2> QED
    BY <2>3, <2>4
<1> QED
  BY <1>1, <1>2

\* A new code is the newest; other marks leave the code as it is.
LEMMA CommitRows ==
  ASSUME AccountInv, NEW s \in Session, NEW m, Commits(s, m),
         \/ /\ m.kind = "issue" /\ m.code = otps'[m.email].code
            /\ otps'[m.email].expires = m.begun + Ttl /\ m.password = otps'[m.email].password
         \/ /\ m.kind # "issue" /\ HasRow(m.email) /\ otps'[m.email].code = otps[m.email].code
            /\ otps'[m.email].expires = otps[m.email].expires
            /\ otps'[m.email].password = otps[m.email].password
  PROVE  RowsNewest'
<1> SUFFICES ASSUME NEW e \in Email
             PROVE  /\ HasRow(e)' => \E i \in Marks(e, "issue")' :
                         /\ i.code = otps'[e].code /\ otps'[e].expires = i.begun + Ttl
                         /\ i.password = otps'[e].password
                         /\ \A j \in Marks(e, "issue")' : j.done <= i.done
                    /\ ~HasRow(e)' => Marks(e, "issue")' = {}
  BY DEF RowsNewest
<1> USE DEF HasRow
<1>1. CASE e # m.email
  <2>1. Marks(e, "issue")' = Marks(e, "issue") /\ otps'[e] = otps[e]
    BY <1>1 DEF Marks, Commits
  <2> QED
    BY <2>1 DEF HasRow, AccountInv, RowsNewest
<1>2. CASE e = m.email /\ m.kind # "issue"
  <2>1. Marks(e, "issue")' = Marks(e, "issue")
    BY <1>2 DEF Marks, Commits
  <2> QED
    BY <1>2, <2>1 DEF AccountInv, RowsNewest, Commits
<1>3. CASE e = m.email /\ m.kind = "issue"
  <2>1. m \in Marks(e, "issue")'
    BY <1>3 DEF Marks, Commits
  <2>2. \A j \in Marks(e, "issue")' : j.done <= m.done
    BY MarksOlder DEF Marks, Commits
  <2> QED
    BY <1>3, <2>1, <2>2 DEF Commits
<1> QED
  BY <1>1, <1>2, <1>3

\* A code that was let in with is one that was issued in time.
LEMMA CommitAccepted ==
  ASSUME AccountInv, NEW s \in Session, NEW m, Commits(s, m),
         m.kind = "enter" => Inside(s) /\ m.code = job[s].row.code
  PROVE  AcceptedCodes'
<1> SUFFICES ASSUME NEW e \in Email, NEW n \in Marks(e, "enter")'
             PROVE  \E i \in Marks(e, "issue")' :
                      /\ i.code = n.code
                      /\ i.done <= n.begun /\ n.begun <= i.begun + Ttl
                      /\ \A j \in Marks(e, "issue")' : j.done <= i.done \/ n.begun < j.done
  BY DEF AcceptedCodes
<1>1. PICK i \in Marks(e, "issue") :
        /\ i.code = n.code
        /\ i.done <= n.begun /\ n.begun <= i.begun + Ttl
        /\ \A j \in Marks(e, "issue") : j.done <= i.done \/ n.begun < j.done
  <2>1. CASE n \in marks
    <3>1. n \in Marks(e, "enter")
      BY <2>1 DEF Marks
    <3> QED
      BY <3>1 DEF AccountInv, AcceptedCodes
  <2>2. CASE n = m
    BY <2>2 DEF Marks, Commits, AccountInv, JobsSound, Proven
  <2> QED
    BY <2>1, <2>2 DEF Marks, Commits
<1>2. i \in Marks(e, "issue")'
  BY DEF Marks, Commits
<1>3. n.begun <= clock /\ n.begun \in Nat
  <2>1. CASE n \in marks
    BY <2>1, MarksOlder DEF AccountInv, MarksInPast
  <2>2. CASE n = m
    BY <2>2, MarksOlder
  <2> QED
    BY <2>1, <2>2 DEF Marks, Commits
<1>4. \A j \in Marks(e, "issue")' : j \in Marks(e, "issue") \/ n.begun < j.done
  BY <1>3, MarksOlder DEF Marks, Commits
<1> QED
  BY <1>1, <1>2, <1>4

\* The password that an account was made with.
LEMMA CommitAccounts ==
  ASSUME AccountInv, UsersKept, NEW s \in Session, NEW m, Commits(s, m),
         m.kind = "enter" /\ m.password # {} =>
           /\ At(s, {"founding"}) /\ m.code = job[s].row.code /\ m.password = job[s].password
           /\ HasAccount(m.email)' /\ users'[m.email].password = m.password
           /\ "viewer" \in users'[m.email].roles
  PROVE  AccountOfProvenCode'
<1> SUFFICES ASSUME NEW e \in Email, NEW n \in Marks(e, "enter")', n.password # {}
             PROVE  /\ HasAccount(e)' /\ (users'[e].reset \/ users'[e].password = n.password)
                    /\ "viewer" \in users'[e].roles
                    /\ \/ \E i \in Marks(e, "issue")' : i.code = n.code /\ i.password = n.password
                       \/ \E j \in Marks(e, "issue")' : n.begun < j.done /\ j.done < n.done
  BY DEF AccountOfProvenCode
<1>1. Marks(e, "issue") \subseteq Marks(e, "issue")'
  BY DEF Marks, Commits
<1>2. CASE n \in marks
  <2>1. n \in Marks(e, "enter")
    BY <1>2 DEF Marks
  <2> QED
    BY <1>1, <2>1 DEF AccountInv, AccountOfProvenCode, UsersKept
<1>3. CASE n = m
  <2>1. e = m.email /\ m.kind = "enter" /\ m.email = job[s].email
    BY <1>3 DEF Marks, Commits
  <2>2. PICK i \in Marks(e, "issue") :
          /\ i.code = m.code
          /\ i.password # m.password => \E j \in Marks(e, "issue") : job[s].begun < j.done
    BY <1>3, <2>1 DEF AccountInv, JobsSound, Proven, Inside, At
  <2>3. \A j \in Marks(e, "issue") : j.done < m.done
    BY MarksOlder DEF Marks, Commits
  <2> QED
    BY <1>1, <1>3, <2>1, <2>2, <2>3 DEF Commits
<1> QED
  BY <1>2, <1>3 DEF Marks, Commits

\* The wrong codes that count.
Counted(e) == {m \in Marks(e, "guess") :
                 \A n \in Marks(e, "issue") \cup Marks(e, "enter") : n.done < m.done}

\* Whatever was committed to the challenge since the request read it overlaps.
LEMMA OverlapSeen ==
  ASSUME AccountInv, NEW s \in Session, NEW m, Commits(s, m), ~Overlapped(m.email)'
  PROVE  /\ ~Overlapped(m.email)
         /\ \A n \in marks : n.email = job[s].email => n.done <= job[s].begun
<1>1. ~Overlapped(m.email)
  BY DEF Overlapped, Commits
<1>2. ASSUME NEW n \in marks, n.email = job[s].email, ~(n.done <= job[s].begun)
      PROVE  FALSE
  <2>1. n \in marks' /\ m \in marks'
    BY DEF Commits
  <2>2. m.begun < n.done /\ n.done < m.done
    BY <1>2, MarksOlder DEF Commits
  <2> QED
    BY <1>2, <2>1, <2>2 DEF Overlapped, Commits
<1> QED
  BY <1>1, <1>2

\* A wrong code counts one more; a new code and one that is let in count none.
LEMMA CommitCounted ==
  ASSUME AccountInv, NEW s \in Session, NEW m, Commits(s, m), TypeOK',
         ~Overlapped(m.email)' =>
           \/ /\ m.kind = "guess" /\ HasRow(m.email)
              /\ otps'[m.email].attempts = otps[m.email].attempts + 1
           \/ m.kind \in {"issue", "enter"} /\ otps'[m.email].attempts = 0
  PROVE  CountedUntilOverlap'
<1> SUFFICES ASSUME NEW e \in Email, HasRow(e)', ~Overlapped(e)'
             PROVE  otps'[e].attempts = Cardinality(Counted(e)')
  BY DEF CountedUntilOverlap, Counted
<1>1. ~Overlapped(e)
  BY DEF Overlapped, Commits
<1>2. HasRow(e) => otps[e].attempts = Cardinality(Counted(e))
  BY <1>1 DEF AccountInv, CountedUntilOverlap, Counted
<1>3. CASE e # m.email
  <2>1. Counted(e)' = Counted(e) /\ otps'[e] = otps[e]
    BY <1>3 DEF Counted, Marks, Commits
  <2> QED
    BY <1>2, <2>1 DEF HasRow
<1>4. CASE e = m.email /\ m.kind = "guess"
  <2>1. Counted(e)' = Counted(e) \cup {m}
    <3>1. Marks(e, "guess")' = Marks(e, "guess") \cup {m}
      BY <1>4 DEF Marks, Commits
    <3>2. /\ Marks(e, "issue")' = Marks(e, "issue")
          /\ Marks(e, "enter")' = Marks(e, "enter")
      BY <1>4 DEF Marks, Commits
    <3>3. \A n \in Marks(e, "issue") \cup Marks(e, "enter") : n.done < m.done
      BY MarksOlder DEF Marks, Commits
    <3> QED
      BY <3>1, <3>2, <3>3 DEF Counted
  <2>2. Counted(e) \subseteq marks /\ m \notin Counted(e)
    BY MarksOlder DEF Counted, Marks
  <2>3. IsFiniteSet(Counted(e))
    BY <2>2, FS_Subset DEF AccountInv, MarksInPast
  <2>4. Cardinality(Counted(e)') = Cardinality(Counted(e)) + 1
    BY <2>1, <2>2, <2>3, FS_AddElement
  <2> QED
    BY <1>2, <1>4, <2>4
<1>5. CASE e = m.email /\ m.kind \in {"issue", "enter"}
  <2>1. m \in Marks(e, "issue")' \cup Marks(e, "enter")'
    BY <1>5 DEF Marks, Commits
  <2>2. \A g \in marks' : ~(m.done < g.done) /\ g.done \in Nat /\ m.done \in Nat
    BY MarksOlder DEF Commits
  <2>3. Counted(e)' = {}
    BY <2>1, <2>2 DEF Counted, Marks
  <2> QED
    BY <1>5, <2>3, FS_EmptySet
<1>6. m.kind \in {"issue", "guess", "enter"}
  BY DEF Commits, Mark
<1> QED
  BY <1>3, <1>4, <1>5, <1>6

\* What is left to show of a commit: the row it leaves.
LEMMA CommitSound ==
  ASSUME AccountInv, TypeOK', UsersKept, NEW s \in Session, NEW m, Commits(s, m),
         RowsNewest', AcceptedCodes', AccountOfProvenCode', CountedUntilOverlap'
  PROVE  AccountInv'
BY CommitMarksInPast, CommitJobs DEF AccountInv

\* issue_otp() commits the new code.
LEMMA StoreSound ==
  ASSUME AccountInv, TypeOK', NEW s \in Session, Store(s)
  PROVE  AccountInv'
<1> DEFINE e == job[s].email
           row == Fresh(otps[e], job[s].row, issued + 1, job[s].password, job[s].begun + Ttl)
<1>1. CASE job[s].row = NoRow /\ HasRow(e)
  BY <1>1, RefuseSound DEF Store
<1>2. CASE ~(job[s].row = NoRow /\ HasRow(e))
  <2>1. ~At(s, {"idle"}) /\ At(s, {"storing"}) /\ ~Inside(s)
    BY DEF Store, At, Inside
  <2>2. e \in Email /\ job[s].row \in Row \cup {NoRow} /\ job[s].password \in Maybe(Password)
        /\ job[s].begun + Ttl \in Nat /\ issued + 1 \in Nat \ {0}
    BY <2>1, JobFields, NumbersAssumption DEF AccountInv, TypeOK
  <2>3. Consistent(s) /\ SeenUntilOverlap(s)
    BY DEF AccountInv, JobsSound
  <2>4. job[s].row # NoRow => HasRow(e)
    BY <2>1, <2>3 DEF Consistent, At
  <2>5. row \in Row
    BY <2>2, <2>4, FreshTyped DEF AccountInv, TypeOK, HasRow
  <2>6. row.password \in Maybe(Password)
    BY <2>5 DEF Row
  <2>7. row.code = issued + 1 /\ row.expires = job[s].begun + Ttl
    BY DEF Fresh
  <2>8. /\ otps' = [otps EXCEPT ![e] = row]
        /\ CommitMark(s, "issue", issued + 1, row.password) /\ UNCHANGED <<seeded, users>>
    BY <1>2 DEF Store
  <2>9. job[s].row = otps[e] => row.attempts = 0
    BY DEF Fresh
  <2> HIDE DEF row
  <2>10. PICK m \in Mark : /\ Commits(s, m) /\ m.kind = "issue" /\ m.code = issued + 1
                           /\ m.password = row.password /\ otps'[m.email] = row
    <3>1. otps'[e] = row /\ \A f \in Email \ {e} : otps'[f] = otps[f]
      BY <2>2, <2>8 DEF AccountInv, TypeOK
    <3> QED
      BY <2>1, <2>2, <2>5, <2>6, <2>8, <3>1, CommitMarkCommits
  <2>11. UsersKept
    BY <2>8, UsersUnchanged
  <2>12. RowsNewest'
    BY <2>7, <2>10, CommitRows DEF Commits
  <2>13. AcceptedCodes'
    BY <2>10, CommitAccepted
  <2>14. AccountOfProvenCode'
    BY <2>10, <2>11, CommitAccounts
  <2>15. CountedUntilOverlap'
    <3>1. ~Overlapped(m.email)' => row.attempts = 0
      BY <2>1, <2>3, <2>9, <2>10, OverlapSeen DEF SeenUntilOverlap, At
    <3> QED
      BY <2>10, <3>1, CommitCounted
  <2> QED
    BY <2>10, <2>11, <2>12, <2>13, <2>14, <2>15, CommitSound
<1> QED
  BY <1>1, <1>2

\* The other commits find a challenge and change its attempts only.
LEMMA KnownChallenge ==
  ASSUME AccountInv, NEW s \in Session, At(s, {"counting", "entering", "founding"})
  PROVE  /\ ~At(s, {"idle"}) /\ job[s].email \in Email /\ HasRow(job[s].email)
         /\ otps[job[s].email] \in Row
         /\ job[s].row \in Row /\ job[s].row.code \in Nat \ {0}
         /\ job[s].row.attempts \in 0 .. MaxAttempts /\ job[s].password \in Maybe(Password)
<1>1. ~At(s, {"idle"})
  BY DEF At
<1>2. job[s].email \in Email /\ job[s].row \in Row \cup {NoRow} /\ job[s].password \in Maybe(Password)
  BY <1>1, JobFields DEF AccountInv
<1>3. job[s].row # NoRow /\ HasRow(job[s].email)
  BY <1>1 DEF AccountInv, JobsSound, Consistent, Inside, At
<1> QED
  BY <1>1, <1>2, <1>3, RowFields DEF AccountInv, Row

LEMMA AttemptsSound ==
  ASSUME AccountInv, TypeOK', UsersKept,
         NEW s \in Session, At(s, {"counting", "entering", "founding"}),
         NEW kind \in {"guess", "enter"}, NEW p \in Maybe(Password), NEW n \in 0 .. MaxAttempts,
         CommitMark(s, kind, job[s].row.code, p),
         otps' = [otps EXCEPT ![job[s].email].attempts = n],
         kind = "enter" => At(s, {"entering", "founding"}),
         kind = "enter" /\ p # {} =>
           /\ At(s, {"founding"}) /\ p = job[s].password
           /\ users'[job[s].email] = [password |-> p, roles |-> {"viewer"}, reset |-> FALSE],
         job[s].row = otps[job[s].email] =>
           n = IF kind = "guess" THEN otps[job[s].email].attempts + 1 ELSE 0
  PROVE  AccountInv'
<1> DEFINE e == job[s].email
           r == [otps[e] EXCEPT !.attempts = n]
<1>1. /\ ~At(s, {"idle"}) /\ e \in Email /\ HasRow(e) /\ otps[e] \in Row
      /\ job[s].row \in Row /\ job[s].row.code \in Nat \ {0}
  BY KnownChallenge
<1>2. /\ r \in Row /\ r.attempts = n /\ r.code = otps[e].code
      /\ r.expires = otps[e].expires /\ r.password = otps[e].password
  BY <1>1 DEF Row
<1>3. otps'[e] = r /\ \A f \in Email \ {e} : otps'[f] = otps[f]
  BY <1>1 DEF AccountInv, TypeOK
<1> HIDE DEF r
<1>4. PICK m \in Mark : /\ Commits(s, m) /\ m.kind = kind /\ m.code = job[s].row.code
                        /\ m.password = p /\ otps'[m.email] = r
  BY <1>1, <1>2, <1>3, CommitMarkCommits
<1>5. m.email = e
  BY <1>4 DEF Commits
<1>6. RowsNewest'
  BY <1>1, <1>2, <1>4, <1>5, CommitRows
<1>7. AcceptedCodes'
  <2>1. kind = "enter" => Inside(s)
    BY DEF Inside, At
  <2> QED
    BY <1>4, <2>1, CommitAccepted
<1>8. AccountOfProvenCode'
  <2>1. users'[e] = [password |-> p, roles |-> {"viewer"}, reset |-> FALSE] => users'[e] # NoUser
    <3>1. "password" \in DOMAIN [password |-> p, roles |-> {"viewer"}, reset |-> FALSE]
          /\ "password" \notin DOMAIN NoUser
      BY DEF NoUser
    <3> QED
      BY <3>1
  <2>2. kind = "enter" /\ p # {} =>
          users'[m.email] # NoUser /\ users'[m.email].password = m.password
            /\ "viewer" \in users'[m.email].roles
    BY <1>4, <1>5, <2>1
  <2> QED
    BY <1>4, <2>2, CommitAccounts DEF HasAccount
<1>9. CountedUntilOverlap'
  <2>1. ~Overlapped(m.email)' => job[s].row = otps[e]
    <3>1. SeenUntilOverlap(s) /\ (At(s, {"counting", "storing"}) \/ Inside(s))
      BY DEF AccountInv, JobsSound, Inside, At
    <3> QED
      BY <1>4, <3>1, OverlapSeen DEF SeenUntilOverlap
  <2> QED
    BY <1>1, <1>2, <1>4, <1>5, <2>1, CommitCounted
<1> QED
  BY <1>4, <1>6, <1>7, <1>8, <1>9, CommitSound

LEMMA CountSound ==
  ASSUME AccountInv, TypeOK', NEW s \in Session, Count(s)
  PROVE  AccountInv'
<1>1. At(s, {"counting"}) /\ ~At(s, {"idle"}) /\ At(s, {"counting", "entering", "founding"})
  BY DEF Count, At
<1>2. job[s].row.attempts \in 0 .. MaxAttempts
  BY <1>1, KnownChallenge
<1>3. job[s].row.attempts < MaxAttempts
  BY <1>1 DEF AccountInv, JobsSound, Consistent
<1>4. job[s].row.attempts + 1 \in 0 .. MaxAttempts
  BY <1>2, <1>3, NumbersAssumption
<1>5. UsersKept /\ {} \in Maybe(Password)
  BY UsersUnchanged DEF Count, Maybe
<1>6. /\ otps' = [otps EXCEPT ![job[s].email].attempts = job[s].row.attempts + 1]
      /\ CommitMark(s, "guess", job[s].row.code, {})
  BY DEF Count
<1>7. job[s].row = otps[job[s].email] =>
        job[s].row.attempts + 1 = IF "guess" = "guess" THEN otps[job[s].email].attempts + 1 ELSE 0
  OBVIOUS
<1> QED
  BY <1>1, <1>4, <1>5, <1>6, <1>7, AttemptsSound

LEMMA EnterSound ==
  ASSUME AccountInv, TypeOK', NEW s \in Session, Enter(s)
  PROVE  AccountInv'
<1>1. At(s, {"counting", "entering", "founding"}) /\ At(s, {"entering", "founding"})
  BY DEF Enter, At
<1>2. 0 \in 0 .. MaxAttempts
  BY NumbersAssumption
<1>3. UsersKept /\ {} \in Maybe(Password)
  BY UsersUnchanged DEF Enter, Maybe
<1>4. /\ otps' = [otps EXCEPT ![job[s].email].attempts = 0]
      /\ CommitMark(s, "enter", job[s].row.code, {})
  BY DEF Enter
<1> QED
  BY <1>1, <1>2, <1>3, <1>4, AttemptsSound

LEMMA FoundSound ==
  ASSUME AccountInv, TypeOK', NEW s \in Session, Found(s)
  PROVE  AccountInv'
<1> DEFINE e == job[s].email
           n == IF job[s].row.attempts = 0 THEN otps[e].attempts ELSE 0
<1>1. CASE HasAccount(e)
  BY <1>1, RefuseSound DEF Found
<1>2. CASE ~HasAccount(e)
  <2>1. At(s, {"counting", "entering", "founding"}) /\ At(s, {"entering", "founding"})
        /\ At(s, {"founding"})
    BY DEF Found, At
  <2>2. e \in Email /\ otps[e] \in Row /\ HasRow(e) /\ job[s].password \in Maybe(Password)
        /\ job[s].row \in Row
    BY <2>1, KnownChallenge
  <2>3. n \in 0 .. MaxAttempts
    BY <2>2, NumbersAssumption DEF Row
  <2>4. /\ otps' = [otps EXCEPT ![e].attempts = n]
        /\ CommitMark(s, "enter", job[s].row.code, job[s].password)
        /\ users' = [users EXCEPT ![e] = [password |-> job[s].password,
                                          roles |-> {"viewer"}, reset |-> FALSE]]
    BY <1>2 DEF Found
  <2>5. users'[e] = [password |-> job[s].password, roles |-> {"viewer"}, reset |-> FALSE]
    BY <2>2, <2>4 DEF AccountInv, TypeOK
  <2>6. UsersKept
    BY <1>2, <2>2, <2>4 DEF UsersKept, HasAccount, AccountInv, TypeOK
  <2>7. job[s].row = otps[e] => n = 0
    OBVIOUS
  <2> HIDE DEF n
  <2> QED
    BY <2>1, <2>2, <2>3, <2>4, <2>5, <2>6, <2>7, AttemptsSound
<1> QED
  BY <1>1, <1>2

-----------------------------------------------------------------------------
(* The theorems *)

\* The inductive invariant of the accounts: a challenge holds its newest code,
\* and a request that was let in, or that has read a challenge, holds what the
\* challenge was until something else is committed to it.
THEOREM AccountInvariant == Spec => []AccountInv
<1>1. Init => AccountInv
  <2> SUFFICES ASSUME Init PROVE AccountInv
    OBVIOUS
  <2>1. marks = {} /\ \A e \in Email : ~HasRow(e)
    BY DEF Init, HasRow
  <2>2. RowsNewest /\ AcceptedCodes /\ AccountOfProvenCode /\ CountedUntilOverlap
    BY <2>1 DEF RowsNewest, AcceptedCodes, AccountOfProvenCode, CountedUntilOverlap, Marks
  <2>3. MarksInPast
    BY <2>1, FS_EmptySet DEF MarksInPast
  <2>4. JobsSound
    BY DEF Init, JobsSound, Consistent, Proven, SeenUntilOverlap, Inside, At, Idle
  <2> QED
    BY <2>2, <2>3, <2>4, TypeInit DEF AccountInv
<1>2. AccountInv /\ [Next]_vars => AccountInv'
  <2> SUFFICES ASSUME AccountInv, [Next]_vars PROVE AccountInv'
    OBVIOUS
  <2>1. TypeOK'
    BY TypeNext DEF AccountInv
  <2>2. CASE UNCHANGED vars
    <3>1. Quiet /\ UsersKept /\ job' = job
      BY <2>2, UsersUnchanged DEF vars, Quiet, AccountInv, TypeOK
    <3> QED
      BY <2>1, <3>1, QuietKeeps, QuietOthers DEF AccountInv, JobsSound, Sound
  <2>3. ASSUME NEW s \in Session, Fail(s) PROVE AccountInv'
    BY <2>1, <2>3, RefuseSound DEF Fail
  <2> QED
    BY <2>1, <2>2, <2>3, RequestsBegin, SeedSound, LookSound, StoreSound, CountSound, AdmitSound,
       EnterSound, FoundSound, OtherAccountsSound DEF Next
<1> QED
  BY <1>1, <1>2, PTL DEF Spec

\* viewer_verify() lets a request in only with the newest code of its email, in
\* time.
THEOREM CodesAccepted == Spec => []AcceptedCodes
<1>1. AccountInv => AcceptedCodes
  BY DEF AccountInv
<1> QED
  BY <1>1, AccountInvariant, PTL

\* The attempts of a challenge are right until requests on it overlap.
THEOREM AttemptsCounted == Spec => []CountedUntilOverlap
<1>1. AccountInv => CountedUntilOverlap
  BY DEF AccountInv
<1> QED
  BY <1>1, AccountInvariant, PTL

\* An account that viewer_verify() made has the password of the code it was
\* made with, unless another code was issued meanwhile.
THEOREM AccountsProven == Spec => []AccountOfProvenCode
<1>1. AccountInv => AccountOfProvenCode
  BY DEF AccountInv
<1> QED
  BY <1>1, AccountInvariant, PTL
=============================================================================
