------------------------------ MODULE DeskProofs ------------------------------
(***************************************************************************)
(* Theorems about Access and about Desk, which extends it, for any sets of *)
(* sessions, users, cases, documents, requests and complaints.             *)
(***************************************************************************)
EXTENDS Desk, TLAPS

-----------------------------------------------------------------------------
(* Access: types *)

LEMMA GrantFields ==
  ASSUME TypeOK, NEW g \in grants
  PROVE  /\ g \in Row /\ g.user \in User /\ g.level \in Level
         /\ g.case \in Maybe(Case) /\ g.until \in SUBSET Nat
         /\ g.from \in Nat /\ g.begun \in Nat /\ g.done \in Nat
         /\ g.need \in Required \cup {"none"}
BY DEF TypeOK, Row

LEMMA JobFields ==
  ASSUME TypeOK, NEW s \in Session, ~At(s, {"idle"})
  PROVE  /\ job[s] \in Job
         /\ job[s].user \in User /\ job[s].case \in Maybe(Case) /\ job[s].need \in Required
         /\ job[s].body \in SUBSET Body /\ job[s].begun \in Nat
<1>1. job[s] \in Job
  BY DEF TypeOK, At, Idle
<1> QED
  BY <1>1 DEF Job

LEMMA BodyFields ==
  ASSUME NEW b \in Body
  PROVE  /\ b.user \in User /\ b.case \in Maybe(Case) /\ b.document \in Maybe(Document)
         /\ b.department \in Maybe(Department) /\ b.sensitivity \in Maybe(Sensitivity)
         /\ b.level \in Level /\ b.until \in SUBSET Nat
BY DEF Body

\* A request that has begun.
LEMMA BeginJob ==
  ASSUME TypeOK, NEW s \in Session, NEW pc \in {"minting", "granting"}, NEW u \in User,
         NEW c \in Maybe(Case), NEW need \in Required, NEW body \in SUBSET Body,
         Begin(s, pc, u, c, need, body)
  PROVE  /\ TypeOK' /\ clock' = clock + 1 /\ UNCHANGED <<roles, grants>>
         /\ job'[s] = [pc |-> pc, user |-> u, case |-> c, need |-> need, body |-> body,
                       begun |-> clock + 1]
         /\ \A t \in Session \ {s} : job'[t] = job[t]
<1> DEFINE j == [pc |-> pc, user |-> u, case |-> c, need |-> need, body |-> body,
                 begun |-> clock + 1]
<1>1. clock \in Nat /\ j \in Job
  BY DEF TypeOK, Job
<1>2. clock' = clock + 1 /\ job' = [job EXCEPT ![s] = j] /\ UNCHANGED <<roles, grants>>
  BY DEF Begin
<1> QED
  BY <1>1, <1>2 DEF TypeOK

LEMMA LeaveJob ==
  ASSUME TypeOK, NEW s \in Session, Leave(s)
  PROVE  /\ job' \in [Session -> Job \cup {Idle}]
         /\ job'[s] = Idle /\ \A t \in Session \ {s} : job'[t] = job[t]
BY DEF TypeOK, Leave

\* Begun requests, one by one: those that mint, and those that grant at once.
LEMMA TouchBegins ==
  ASSUME NEW s \in Session, NEW u \in User, NEW c \in Case, NEW level \in Required,
         Touch(s, u, c, level)
  PROVE  /\ level \in {"read", "write"} /\ Mints(u, c, level)
         /\ {c} \in Maybe(Case) /\ {} \in SUBSET Body
         /\ Begin(s, "minting", u, {c}, level, {})
BY DEF Touch, Maybe

LEMMA GrantAccessBegins ==
  ASSUME NEW s \in Session, NEW u \in User, NEW b \in Offer, GrantAccess(s, u, b)
  PROVE  \E pc \in {"minting", "granting"}, c \in Maybe(Case) :
           /\ pc = "minting" => c # {}
           /\ {b} \in SUBSET Body /\ "admin" \in Required
           /\ Begin(s, pc, u, c, "admin", {b})
<1>1. b \in Body /\ "admin" \in Required
  BY OfferAssumption DEF Required
<1>2. CASE Begin(s, "granting", u, {}, "admin", {b})
  BY <1>1, <1>2 DEF Maybe
<1>3. ASSUME NEW c \in b.case,
             Begin(s, IF Mints(u, c, "admin") THEN "minting" ELSE "granting", u, {c}, "admin", {b})
      PROVE  \E pc \in {"minting", "granting"}, d \in Maybe(Case) :
               /\ pc = "minting" => d # {}
               /\ {b} \in SUBSET Body /\ "admin" \in Required
               /\ Begin(s, pc, u, d, "admin", {b})
  <2>1. {c} \in Maybe(Case)
    BY <1>1, BodyFields DEF Maybe
  <2>2. \E pc \in {"minting", "granting"} : Begin(s, pc, u, {c}, "admin", {b})
    BY <1>3
  <2> QED
    BY <1>1, <2>1, <2>2
<1> QED
  BY <1>2, <1>3 DEF GrantAccess

\* Rows, and what is left of the request that makes one.
LEMMA MintRow ==
  ASSUME TypeOK, JobsConsistent, NEW s \in Session, Mint(s)
  PROVE  \E g \in Row :
           /\ grants' = grants \cup {g} /\ clock' = clock + 1 /\ roles' = roles
           /\ g.user = job[s].user /\ g.case = job[s].case /\ g.need = job[s].need
           /\ g.level = "write" /\ g.department = {} /\ g.sensitivity = {} /\ g.until = {}
           /\ g.begun = job[s].begun /\ g.from = clock + 1 /\ g.done = clock + 1
           /\ job' \in [Session -> Job \cup {Idle}]
           /\ \A t \in Session \ {s} : job'[t] = job[t]
           /\ \/ job'[s] = Idle
              \/ /\ job'[s] = [job[s] EXCEPT !.pc = "granting"]
                 /\ job[s].body # {}
<1> DEFINE g == [user |-> job[s].user, case |-> job[s].case, document |-> {},
       department |-> {}, sensitivity |-> {}, level |-> "write", until |-> {},
       from |-> clock + 1, need |-> job[s].need, begun |-> job[s].begun, done |-> clock + 1]
<1>1. ~At(s, {"idle"}) /\ clock \in Nat
  BY DEF Mint, At, TypeOK
<1>2. /\ job[s] \in Job /\ job[s].user \in User /\ job[s].case \in Maybe(Case)
      /\ job[s].need \in Required /\ job[s].begun \in Nat
  BY <1>1, JobFields
<1>3. g \in Row
  BY <1>1, <1>2 DEF Row, Maybe, Level
<1>4. \/ Leave(s)
      \/ job' = [job EXCEPT ![s] = [job[s] EXCEPT !.pc = "granting"]] /\ job[s].body # {}
  BY DEF Mint, TypeOK
<1>5. [job[s] EXCEPT !.pc = "granting"] \in Job
  BY <1>2 DEF Job
<1>6. /\ job' \in [Session -> Job \cup {Idle}]
      /\ \A t \in Session \ {s} : job'[t] = job[t]
      /\ \/ job'[s] = Idle
         \/ job'[s] = [job[s] EXCEPT !.pc = "granting"] /\ job[s].body # {}
  BY <1>4, <1>5, LeaveJob DEF TypeOK
<1>7. grants' = grants \cup {g} /\ clock' = clock + 1 /\ roles' = roles
  BY DEF Mint
<1> QED
  BY <1>3, <1>6, <1>7

LEMMA GrantRow ==
  ASSUME TypeOK, JobsConsistent, NEW s \in Session, Grant(s)
  PROVE  \E g \in Row :
           /\ grants' = grants \cup {g} /\ clock' = clock + 1 /\ roles' = roles
           /\ g.need = "none"
           /\ g.begun = job[s].begun /\ g.from = clock + 1 /\ g.done = clock + 1
           /\ job' \in [Session -> Job \cup {Idle}]
           /\ job'[s] = Idle /\ \A t \in Session \ {s} : job'[t] = job[t]
<1>1. ~At(s, {"idle"}) /\ clock \in Nat
  BY DEF Grant, At, TypeOK
<1>2. job[s].begun \in Nat /\ job[s].body \in SUBSET Body
  BY <1>1, JobFields
<1>3. PICK b \in job[s].body :
        grants' = grants \cup {[user |-> b.user, case |-> b.case, document |-> b.document,
         department |-> b.department, sensitivity |-> b.sensitivity, level |-> b.level,
         until |-> b.until, from |-> clock + 1, need |-> "none",
         begun |-> job[s].begun, done |-> clock + 1]}
  BY DEF Grant
<1> DEFINE g == [user |-> b.user, case |-> b.case, document |-> b.document,
         department |-> b.department, sensitivity |-> b.sensitivity, level |-> b.level,
         until |-> b.until, from |-> clock + 1, need |-> "none",
         begun |-> job[s].begun, done |-> clock + 1]
<1>4. g \in Row
  BY <1>1, <1>2, BodyFields DEF Row
<1>5. /\ job' \in [Session -> Job \cup {Idle}]
      /\ job'[s] = Idle /\ \A t \in Session \ {s} : job'[t] = job[t]
  BY LeaveJob DEF Grant
<1>6. clock' = clock + 1 /\ roles' = roles
  BY DEF Grant
<1> QED
  BY <1>3, <1>4, <1>5, <1>6

-----------------------------------------------------------------------------
(* Access: the inductive invariant *)

\* What a step with a new row has to show of it.
LEMMA NewRow ==
  ASSUME AccessInv, NEW s \in Session, ~At(s, {"idle"}), NEW g \in Row,
         grants' = grants \cup {g}, clock' = clock + 1, roles' = roles,
         g.begun = job[s].begun, g.from = clock + 1, g.done = clock + 1,
         job' \in [Session -> Job \cup {Idle}],
         \A t \in Session \ {s} : job'[t] = job[t],
         \/ job'[s] = Idle
         \/ job'[s] = [job[s] EXCEPT !.pc = "granting"] /\ job[s].body # {},
         g.need # "none" =>
           /\ At(s, {"minting"}) /\ g.need = job[s].need
           /\ g.user = job[s].user /\ g.case = job[s].case
           /\ g.level = "write" /\ g.department = {} /\ g.sensitivity = {} /\ g.until = {}
  PROVE  AccessInv'
<1> USE DEF AccessInv
<1>1. /\ clock \in Nat /\ job[s] \in Job /\ job[s].begun \in Nat /\ job[s].begun <= clock
      /\ job[s].body \in Maybe(Offer) /\ (job[s].body # {} => job[s].need = "admin")
  BY JobFields DEF TypeOK, JobsConsistent
<1>2. \A h \in grants : h.done \in Nat /\ h.begun \in Nat /\ h.done <= clock /\ h.begun < h.done
                          /\ h.from = h.done
  BY GrantFields DEF RowsInPast
<1>3. TypeOK'
  BY <1>1 DEF TypeOK
<1>4. RowsInPast'
  BY <1>1, <1>2 DEF RowsInPast
<1>5. MintedShape'
  BY DEF MintedShape, Minted
<1>6. \A t \in Session \ {s} : At(t, {"idle"}) \/ (job[t].begun \in Nat /\ job[t].begun <= clock)
  BY JobFields DEF JobsConsistent
<1>7. ~At(s, {"idle"})' => /\ job'[s].pc = "granting" /\ job'[s].begun = job[s].begun
                           /\ job'[s].body = job[s].body /\ job'[s].need = job[s].need
  BY <1>1 DEF At, Idle, Job
<1>8. JobsConsistent'
  <2> SUFFICES ASSUME NEW t \in Session, ~At(t, {"idle"})'
               PROVE  /\ job'[t].begun <= clock'
                      /\ At(t, {"minting"})' => job'[t].case # {}
                      /\ job'[t].body \in Maybe(Offer)
                      /\ job'[t].body # {} => job'[t].need = "admin"
    BY DEF JobsConsistent
  <2>1. CASE t = s
    BY <1>1, <1>7, <2>1 DEF At
  <2>2. CASE t # s
    BY <1>1, <1>6, <2>2 DEF JobsConsistent, At
  <2> QED
    BY <2>1, <2>2
<1>9. MintsOpen'
  <2> SUFFICES ASSUME NEW t \in Session, NEW h \in Minted', At(t, {"minting"})',
                      job'[t].need # "admin", h.user = job'[t].user, h.case = job'[t].case
               PROVE  job'[t].begun < h.done
    BY DEF MintsOpen
  <2>1. t # s /\ job'[t] = job[t] /\ At(t, {"minting"})
    BY <1>7 DEF At, Idle
  <2>2. CASE h \in grants
    BY <2>1, <2>2 DEF MintsOpen, Minted
  <2>3. CASE h = g
    BY <1>1, <1>6, <2>1, <2>3 DEF At
  <2> QED
    BY <2>2, <2>3 DEF Minted
<1>10. MintedOnceUntilOverlap'
  <2> SUFFICES ASSUME NEW f \in Minted', NEW h \in Minted', f # h, f.user = h.user,
                      f.case = h.case, f.need # "admin"
               PROVE  f.begun < h.done
    BY DEF MintedOnceUntilOverlap
  <2>1. CASE f \in grants /\ h \in grants
    BY <2>1 DEF MintedOnceUntilOverlap, Minted
  <2>2. CASE f = g /\ h \in grants
    BY <2>2 DEF MintsOpen, Minted
  <2>3. CASE f \in grants /\ h = g
    BY <1>1, <1>2, <2>3
  <2> QED
    BY <2>1, <2>2, <2>3 DEF Minted
<1> QED
  BY <1>3, <1>4, <1>5, <1>8, <1>9, <1>10

\* A step that adds no row and that leaves the requests as they are, but for
\* one that begins or ends.
LEMMA NoRow ==
  ASSUME AccessInv, TypeOK', grants' = grants, clock <= clock', NEW s \in Session,
         \A t \in Session \ {s} : job'[t] = job[t],
         \/ job'[s] \in {Idle, job[s]}
         \/ /\ job'[s].begun <= clock'
            /\ At(s, {"minting"})' => job'[s].case # {}
            /\ job'[s].body \in Maybe(Offer)
            /\ job'[s].body # {} => job'[s].need = "admin"
            /\ At(s, {"minting"})' /\ job'[s].need # "admin" =>
                 \A g \in Minted : ~(g.user = job'[s].user /\ g.case = job'[s].case)
  PROVE  AccessInv'
<1> USE DEF AccessInv
<1>1. clock \in Nat /\ clock' \in Nat
  BY DEF TypeOK
<1>2. Minted' = Minted
  BY DEF Minted
<1>3. RowsInPast' /\ MintedShape' /\ MintedOnceUntilOverlap'
  <2>1. \A g \in grants : g.done \in Nat
    BY GrantFields
  <2> QED
    BY <1>1, <1>2, <2>1 DEF RowsInPast, MintedShape, MintedOnceUntilOverlap
<1>4. \A t \in Session : At(t, {"idle"}) \/ (job[t].begun \in Nat /\ job[t].begun <= clock)
  BY JobFields DEF JobsConsistent
<1>5. JobsConsistent'
  <2> SUFFICES ASSUME NEW t \in Session, ~At(t, {"idle"})'
               PROVE  /\ job'[t].begun <= clock'
                      /\ At(t, {"minting"})' => job'[t].case # {}
                      /\ job'[t].body \in Maybe(Offer)
                      /\ job'[t].body # {} => job'[t].need = "admin"
    BY DEF JobsConsistent
  <2>1. CASE job'[t] = job[t]
    BY <1>1, <1>4, <2>1 DEF JobsConsistent, At
  <2>2. CASE job'[t] = Idle
    BY <2>2 DEF At, Idle
  <2> QED
    BY <2>1, <2>2
<1>6. MintsOpen'
  <2> SUFFICES ASSUME NEW t \in Session, NEW h \in Minted, At(t, {"minting"})',
                      job'[t].need # "admin", h.user = job'[t].user, h.case = job'[t].case
               PROVE  job'[t].begun < h.done
    BY <1>2 DEF MintsOpen
  <2>1. CASE job'[t] = job[t]
    BY <2>1 DEF MintsOpen, At
  <2>2. CASE job'[t] = Idle
    BY <2>2 DEF At, Idle
  <2> QED
    BY <2>1, <2>2
<1> QED
  BY <1>3, <1>5, <1>6

\* A minted row is found by its user's next request.
LEMMA MintedFound ==
  ASSUME AccessInv, NEW g \in Minted, NEW c \in g.case, NEW level \in {"read", "write"}
  PROVE  HasCaseGrant(g.user, c, level)
<1>1. g \in grants /\ g.need # "none"
  BY DEF Minted
<1>2. g.level = "write" /\ g.department = {} /\ g.until = {}
  BY DEF AccessInv, MintedShape
<1>3. g.from <= clock
  BY <1>1 DEF AccessInv, RowsInPast
<1>4. Live(g)
  BY <1>2, <1>3 DEF Live
<1>5. Rank[g.level] >= Rank[level]
  BY <1>2 DEF Rank
<1> QED
  BY <1>1, <1>2, <1>4, <1>5 DEF HasCaseGrant, Counts

\* Time may pass, and roles may be given, without harm.
LEMMA OnlyTime ==
  ASSUME AccessInv, UNCHANGED <<grants, job>>, clock <= clock', TypeOK'
  PROVE  AccessInv'
<1> USE DEF AccessInv
<1>1. CASE Session = {}
  BY <1>1, GrantFields
  DEF TypeOK, RowsInPast, MintedShape, Minted, JobsConsistent, MintsOpen, MintedOnceUntilOverlap
<1>2. ASSUME NEW s \in Session PROVE AccessInv'
  BY NoRow
<1> QED
  BY <1>1, <1>2

LEMMA AccessInductive == ASSUME AccessInv, [Next]_vars PROVE AccessInv'
<1> USE DEF AccessInv
<1>1. ASSUME NEW s \in Session, NEW u \in User, NEW c \in Case, NEW level \in Required,
             Touch(s, u, c, level)
      PROVE  AccessInv'
  <2>1. /\ level \in {"read", "write"} /\ Mints(u, c, level)
        /\ {c} \in Maybe(Case) /\ {} \in SUBSET Body
        /\ Begin(s, "minting", u, {c}, level, {})
    BY <1>1, TouchBegins
  <2>2. /\ TypeOK' /\ clock' = clock + 1 /\ UNCHANGED <<roles, grants>>
        /\ job'[s] = [pc |-> "minting", user |-> u, case |-> {c}, need |-> level, body |-> {},
                      begun |-> clock + 1]
        /\ \A t \in Session \ {s} : job'[t] = job[t]
    BY <2>1, BeginJob
  <2>3. \A g \in Minted : ~(g.user = u /\ g.case = {c})
    BY <2>1, MintedFound DEF Mints
  <2>4. clock \in Nat /\ {} \in Maybe(Offer)
    BY DEF TypeOK, Maybe
  <2>5. /\ job'[s].begun <= clock' /\ job'[s].case # {} /\ job'[s].body = {}
        /\ job'[s].user = u /\ job'[s].case = {c}
    BY <2>2, <2>4
  <2>6. /\ job'[s].begun <= clock' /\ job'[s].case # {}
        /\ job'[s].body \in Maybe(Offer) /\ (job'[s].body # {} => job'[s].need = "admin")
        /\ \A g \in Minted : ~(g.user = job'[s].user /\ g.case = job'[s].case)
    BY <2>3, <2>4, <2>5
  <2>7. clock <= clock'
    BY <2>2, <2>4
  <2> QED
    BY <2>2, <2>6, <2>7, NoRow
<1>2. ASSUME NEW s \in Session, NEW u \in User, NEW b \in Offer, GrantAccess(s, u, b)
      PROVE  AccessInv'
  <2>1. PICK pc \in {"minting", "granting"}, c \in Maybe(Case) :
          /\ pc = "minting" => c # {}
          /\ {b} \in SUBSET Body /\ "admin" \in Required
          /\ Begin(s, pc, u, c, "admin", {b})
    BY <1>2, GrantAccessBegins
  <2>2. /\ TypeOK' /\ clock' = clock + 1 /\ UNCHANGED <<roles, grants>>
        /\ job'[s] = [pc |-> pc, user |-> u, case |-> c, need |-> "admin", body |-> {b},
                      begun |-> clock + 1]
        /\ \A t \in Session \ {s} : job'[t] = job[t]
    BY <2>1, BeginJob
  <2>3. clock \in Nat /\ {b} \in Maybe(Offer)
    BY DEF TypeOK, Maybe
  <2>4. /\ job'[s].begun <= clock' /\ job'[s].need = "admin" /\ job'[s].body = {b}
        /\ At(s, {"minting"})' => job'[s].case # {}
    BY <2>1, <2>2, <2>3 DEF At
  <2> QED
    BY <2>2, <2>3, <2>4, NoRow
<1>3. ASSUME NEW s \in Session, Mint(s) PROVE AccessInv'
  <2>1. At(s, {"minting"}) /\ ~At(s, {"idle"})
    BY <1>3 DEF Mint, At
  <2> QED
    BY <1>3, <2>1, MintRow, NewRow
<1>4. ASSUME NEW s \in Session, Grant(s) PROVE AccessInv'
  <2>1. ~At(s, {"idle"})
    BY <1>4 DEF Grant, At
  <2> QED
    BY <1>4, <2>1, GrantRow, NewRow
<1>5. ASSUME NEW s \in Session, Fail(s) PROVE AccessInv'
  <2>1. /\ UNCHANGED <<roles, grants, clock>>
        /\ job' \in [Session -> Job \cup {Idle}]
        /\ job'[s] = Idle /\ \A t \in Session \ {s} : job'[t] = job[t]
    BY <1>5, LeaveJob DEF Fail
  <2>2. TypeOK' /\ clock <= clock'
    BY <2>1 DEF TypeOK
  <2> QED
    BY <2>1, <2>2, NoRow
<1>6. ASSUME NEW a \in User, NEW u \in User, NEW role \in RoleName, AssignRole(a, u, role)
      PROVE  AccessInv'
  BY OnlyTime, <1>6 DEF AssignRole, TypeOK
<1>7. CASE Tick
  BY OnlyTime, <1>7 DEF Tick, TypeOK
<1>8. CASE UNCHANGED vars
  BY OnlyTime, <1>8 DEF vars, TypeOK
<1> QED
  BY <1>1, <1>2, <1>3, <1>4, <1>5, <1>6, <1>7, <1>8 DEF Next

\* Nothing is granted and nobody is at work at the start.
LEMMA AccessInit == Init => AccessInv
<1> SUFFICES ASSUME Init PROVE AccessInv
  OBVIOUS
<1>1. TypeOK
  BY DEF Init, TypeOK
<1> QED
  BY <1>1 DEF Init, AccessInv, RowsInPast, MintedShape, Minted, JobsConsistent, MintsOpen,
              MintedOnceUntilOverlap, At, Idle

\* Rows become valid when they are committed, minted rows have no end and no
\* conditions, and a request mints only what it did not find.
THEOREM AccessInvariant == Spec => []AccessInv
  BY AccessInit, AccessInductive, PTL DEF Spec

\* What the invariant says of minted rows makes every check pass.
LEMMA InvOpens == AccessInv => OpenedCaseStaysOpen
<1> SUFFICES ASSUME AccessInv, NEW g \in Minted, NEW c \in g.case
             PROVE  /\ \A d \in Document : CaseOf[d] = c =>
                         MayDocument(g.user, d, "read") /\ MayDocument(g.user, d, "write")
                    /\ Searched(g.user, c)
                    /\ RowAccess(g.user, c, "write")
  BY DEF OpenedCaseStaysOpen
<1>1. g \in grants
  BY DEF Minted
<1>2. g.level = "write" /\ g.department = {} /\ g.sensitivity = {} /\ g.until = {}
  BY DEF AccessInv, MintedShape
<1>3. Live(g)
  BY <1>1, <1>2 DEF Live, AccessInv, RowsInPast
<1>4. Counts(g, g.user, "read") /\ Counts(g, g.user, "write")
  BY <1>2, <1>3 DEF Counts, Rank
<1>5. ASSUME NEW d \in Document, CaseOf[d] = c, NEW level \in {"read", "write"}
      PROVE  MayDocument(g.user, d, level)
  BY <1>1, <1>2, <1>4, <1>5 DEF MayDocument, HasDocumentGrant
<1>6. Searched(g.user, c) /\ RowAccess(g.user, c, "write")
  BY <1>1, <1>2, <1>3 DEF Searched, RowAccess, AtLeast
<1> QED
  BY <1>5, <1>6

\* The first write-touch of require_case_access() opens a case to an officer for
\* good, for every check of the program.
THEOREM OpenedStaysOpen == Spec => []OpenedCaseStaysOpen
  BY InvOpens, AccessInvariant, PTL

\* require_case_access() mints a second row for an officer and a case only in
\* requests that overlap, or for the level admin.
THEOREM MintedOnce == Spec => []MintedOnceUntilOverlap
<1>1. AccessInv => MintedOnceUntilOverlap
  BY DEF AccessInv
<1> QED
  BY <1>1, AccessInvariant, PTL

\* A level is at least another in the table of _has_grant() exactly when the
\* list of the migration has it.
LEMMA RankAgrees ==
  ASSUME NEW l \in Level \ {"other"}, NEW level \in Required
  PROVE  Rank[l] >= Rank[level] <=> l \in AtLeast(level)
BY DEF Rank, AtLeast, Level, Required

\* A plain grant counts for a level in the table exactly when it does in the list.
LEMMA PlainCounts ==
  ASSUME AccessInv, NEW g \in grants, Plain(g), NEW level \in Required
  PROVE  /\ Counts(g, g.user, level) <=> Live(g) /\ g.level \in AtLeast(level)
         /\ g.level \in AtLeast("read") /\ g.sensitivity = {}
<1>1. g.department = {} /\ g.sensitivity = {} /\ g.level \in Level \ {"other"}
  BY GrantFields DEF Plain, AccessInv
<1>2. Rank[g.level] >= Rank[level] <=> g.level \in AtLeast(level)
  BY <1>1, RankAgrees
<1>3. g.level \in AtLeast("read")
  BY <1>1 DEF AtLeast, Level
<1> QED
  BY <1>1, <1>2, <1>3 DEF Counts

\* On plain grants the three checks look at the same rows, and the API at more.
LEMMA InvAgrees == AccessInv => ChecksAgree
<1> SUFFICES ASSUME AccessInv, NEW u \in User, NEW c \in Case,
                    \A g \in grants : g.user = u /\ c \in g.case => Plain(g)
             PROVE  /\ Searched(u, c) <=> RowAccess(u, c, "read")
                    /\ \A level \in Required :
                         /\ MayCase(u, c, level) <=>
                              RowAccess(u, c, level) \/ level = "read" \/ Mints(u, c, level)
                         /\ \A d \in Document : CaseOf[d] = c =>
                              (MayDocument(u, d, level) <=>
                                 \/ RowAccess(u, c, level)
                                 \/ level = "read" /\ HasRole(u, {"auditor", "viewer"})
                                 \/ GrantedItself(u, d, level))
  BY DEF ChecksAgree
<1>1. ASSUME NEW g \in grants, g.user = u, c \in g.case, NEW level \in Required
      PROVE  /\ Counts(g, u, level) <=> Live(g) /\ g.level \in AtLeast(level)
             /\ g.level \in AtLeast("read") /\ g.sensitivity = {}
  BY <1>1, PlainCounts
<1>2. Searched(u, c) <=> RowAccess(u, c, "read")
  BY <1>1 DEF Searched, RowAccess, Required
<1>3. ASSUME NEW level \in Required
      PROVE  RowAccess(u, c, level) <=> IsAdmin(u) \/ HasCaseGrant(u, c, level)
  BY <1>1 DEF RowAccess, HasCaseGrant, Counts
<1>4. ASSUME NEW level \in Required
      PROVE  MayCase(u, c, level) <=>
               RowAccess(u, c, level) \/ level = "read" \/ Mints(u, c, level)
  BY <1>3 DEF MayCase, Mints
<1>5. ASSUME NEW level \in Required, NEW d \in Document, CaseOf[d] = c
      PROVE  HasDocumentGrant(u, d, level) <=>
               HasCaseGrant(u, c, level) \/ GrantedItself(u, d, level)
  BY <1>1, <1>5 DEF HasDocumentGrant, HasCaseGrant, GrantedItself, Counts
<1>6. ASSUME NEW level \in Required, NEW d \in Document, CaseOf[d] = c
      PROVE  MayDocument(u, d, level) <=>
               \/ RowAccess(u, c, level)
               \/ level = "read" /\ HasRole(u, {"auditor", "viewer"})
               \/ GrantedItself(u, d, level)
  BY <1>3, <1>5, <1>6 DEF MayDocument, HasRole, IsAdmin
<1> QED
  BY <1>2, <1>4, <1>6

\* On a case on which a user has plain grants only, the search and the row level
\* security open the same, and the API opens that and what it says it opens more.
THEOREM ChecksAlwaysAgree == Spec => []ChecksAgree
  BY InvAgrees, AccessInvariant, PTL

\* Who has no access does not get it from the clock.
LEMMA TimeGivesNothing ==
  ASSUME AccessInv, clock' \in Nat, clock <= clock', grants' = grants, roles' = roles,
         NEW u \in User, NEW d \in Document, NEW level \in Required, MayDocument(u, d, level)'
  PROVE  MayDocument(u, d, level)
<1>1. clock \in Nat
  BY DEF AccessInv, TypeOK
<1>2. ASSUME NEW g \in grants, Live(g)' PROVE Live(g)
  <2>1. g.from <= clock /\ g.until \in SUBSET Nat
    BY GrantFields DEF AccessInv, RowsInPast
  <2>2. \A t \in g.until : clock' <= t
    BY <1>2 DEF Live
  <2> QED
    BY <1>1, <2>1, <2>2 DEF Live
<1>3. ASSUME NEW g \in grants, Counts(g, u, level)' PROVE Counts(g, u, level)
  BY <1>2, <1>3 DEF Counts
<1> QED
  BY <1>3 DEF MayDocument, HasDocumentGrant, IsAdmin, HasRole

\* Requests on grants and roles take time, and take no role away.
LEMMA RolesStay ==
  ASSUME TypeOK, [Next]_vars
  PROVE  clock <= clock' /\ \A u \in User : roles[u] \subseteq roles'[u]
BY DEF TypeOK, Next, Touch, GrantAccess, Begin, Mint, Grant, Fail, AssignRole, Tick, vars

\* Access begins with a committed row or a role, never with the clock.
THEOREM AccessBegins == Spec => AccessBeginsWithRow
<1>1. AccessInv /\ [Next]_vars =>
        [\A u \in User, d \in Document, level \in Required :
           ~MayDocument(u, d, level) /\ MayDocument(u, d, level)'
             => grants' # grants \/ roles' # roles]_vars
  <2> SUFFICES ASSUME AccessInv, [Next]_vars, NEW u \in User, NEW d \in Document,
                      NEW level \in Required, MayDocument(u, d, level)',
                      grants' = grants, roles' = roles
               PROVE  MayDocument(u, d, level)
    OBVIOUS
  <2>1. clock' \in Nat /\ clock <= clock'
    BY AccessInductive, RolesStay DEF AccessInv, TypeOK
  <2> QED
    BY <2>1, TimeGivesNothing
<1> QED
  BY <1>1, AccessInvariant, PTL DEF Spec, AccessBeginsWithRow

-----------------------------------------------------------------------------
(* Desk: types *)

LEMMA FilingFields ==
  ASSUME DeskTypeOK, NEW i \in Item, Filed(i)
  PROVE  /\ filings[i] \in Filing
         /\ filings[i].from \in Maybe(User) /\ filings[i].home \in Maybe(Department)
         /\ filings[i].to \in Maybe(Department) /\ filings[i].by \in Maybe(User)
         /\ filings[i].status \in {"pending"} \cup Verdict \cup ComplaintStatus
<1>1. filings[i] \in Filing
  BY DEF DeskTypeOK, Filed, NoFiling
<1> QED
  BY <1>1 DEF Filing

LEMMA VisitFields ==
  ASSUME DeskTypeOK, NEW s \in Session, visit[s] # Away
  PROVE  /\ visit[s] \in Visit /\ visit[s].item \in Item /\ visit[s].user \in User
         /\ visit[s].status \in Verdict \cup ComplaintStatus /\ visit[s].begun \in Nat
<1>1. visit[s] \in Visit
  BY DEF DeskTypeOK
<1> QED
  BY <1>1 DEF Visit

LEMMA StampFields ==
  ASSUME DeskTypeOK, NEW t \in stamps
  PROVE  t.item \in Item /\ t.user \in User /\ t.begun \in Nat /\ t.done \in Nat
BY DEF DeskTypeOK, StampRow

\* The columns of NULL or one value.
LEMMA MaybeNothing == ASSUME NEW S PROVE {} \in Maybe(S) /\ \A x \in S : {x} \in Maybe(S)
BY DEF Maybe

LEMMA HolderDepartment ==
  ASSUME NEW S \in Maybe(User)
  PROVE  UNION {DepartmentOf[h] : h \in S} \in Maybe(Department)
<1>1. CASE S = {}
  BY <1>1 DEF Maybe
<1>2. ASSUME NEW h \in User, S = {h} PROVE UNION {DepartmentOf[x] : x \in S} \in Maybe(Department)
  <2>1. UNION {DepartmentOf[x] : x \in S} = DepartmentOf[h]
    BY <1>2
  <2> QED
    BY <2>1, DepartmentOfAssumption
<1> QED
  BY <1>1, <1>2 DEF Maybe

\* What Stamp does, column by column.
LEMMA StampColumns ==
  ASSUME DeskInv, NEW s \in Session, Stamp(s)
  PROVE  \E t \in StampRow :
           /\ t.item = visit[s].item /\ t.status = visit[s].status /\ t.user = visit[s].user
           /\ t.begun = visit[s].begun /\ t.done = clock + 1
           /\ stamps' = stamps \cup {t}
           /\ filings' \in [Item -> Filing \cup {NoFiling}]
           /\ \A i \in Item \ {t.item} : filings'[i] = filings[i]
           /\ Filed(t.item) /\ filings'[t.item].status # "none"
           /\ filings'[t.item].at = t.begun
           /\ filings'[t.item].to = filings[t.item].to
           /\ filings'[t.item].status =
                Changed(filings[t.item].status, visit[s].seen.status, t.status)
           /\ t.item \in Request =>
                filings'[t.item].by = Changed(filings[t.item].by, visit[s].seen.by, {t.user})
           /\ clock' = clock + 1 /\ visit' = [visit EXCEPT ![s] = Away]
           /\ UNCHANGED holder
<1> DEFINE v == visit[s]
           i == v.item
           by == IF i \in Request THEN {v.user} ELSE {}
           status == Changed(filings[i].status, v.seen.status, v.status)
           who == Changed(filings[i].by, v.seen.by, by)
           t == [item |-> i, status |-> v.status, user |-> v.user, begun |-> v.begun,
                 done |-> clock + 1]
           row == [filings[i] EXCEPT !.status = status, !.by = who, !.at = v.begun]
<1>1. v # Away /\ clock \in Nat
  BY DEF Stamp, DeskInv, TypeOK
<1>2. /\ i \in Item /\ v.user \in User /\ v.status \in Verdict \cup ComplaintStatus
      /\ v.begun \in Nat /\ Filed(i)
  BY <1>1, VisitFields DEF DeskInv, StampsEntitled
<1>3. t \in StampRow
  BY <1>1, <1>2 DEF StampRow
<1>4. filings[i] \in Filing /\ filings[i].by \in Maybe(User)
      /\ filings[i].status \in {"pending"} \cup Verdict \cup ComplaintStatus
  BY <1>2, FilingFields DEF DeskInv
<1>5. status \in {"pending"} \cup Verdict \cup ComplaintStatus
  BY <1>2, <1>4 DEF Changed
<1>6. who \in Maybe(User)
  BY <1>2, <1>4, MaybeNothing DEF Changed
<1> HIDE DEF status, who
<1>7. /\ row \in Filing /\ row.status = status /\ row.by = who /\ row.at = v.begun
      /\ row.to = filings[i].to
  BY <1>2, <1>4, <1>5, <1>6 DEF Filing
<1>8. filings' = [filings EXCEPT ![i] = row]
  <2>1. filings' = [filings EXCEPT ![i].status = status, ![i].by = who, ![i].at = v.begun]
    BY DEF Stamp, status, who
  <2> QED
    BY <1>2, <1>4, <2>1 DEF DeskInv, DeskTypeOK, Filing
<1>9. status # "none"
  BY <1>5 DEF Verdict, ComplaintStatus
<1>10. /\ stamps' = stamps \cup {t} /\ clock' = clock + 1
       /\ visit' = [visit EXCEPT ![s] = Away] /\ UNCHANGED holder
  BY DEF Stamp
<1> HIDE DEF row
<1>11. /\ filings' \in [Item -> Filing \cup {NoFiling}]
       /\ \A j \in Item \ {i} : filings'[j] = filings[j]
       /\ filings'[i] = row
  BY <1>2, <1>7, <1>8 DEF DeskInv, DeskTypeOK
<1>12. i \in Request => who = Changed(filings[i].by, v.seen.by, {v.user})
  BY DEF who
<1>13. status = Changed(filings[i].status, v.seen.status, v.status)
  BY DEF status
<1> QED
  BY <1>2, <1>3, <1>7, <1>9, <1>10, <1>11, <1>12, <1>13

-----------------------------------------------------------------------------
(* Desk: the inductive invariant *)

\* Rows that are filed stay as they are, and roles are only given.
Settled ==
  /\ \A i \in Item : Filed(i) => filings'[i] = filings[i]
  /\ \A u \in User : roles[u] \subseteq roles'[u]
  /\ clock <= clock'

LEMMA ReviewerStays ==
  ASSUME \A u \in User : roles[u] \subseteq roles'[u], NEW u \in User, NEW r,
         filings'[r].to = filings[r].to, MayReview(u, r)
  PROVE  MayReview(u, r)'
BY DEF MayReview, IsAdmin

\* A step that commits no stamp.
LEMMA NoStamp ==
  ASSUME DeskInv, TypeOK', DeskTypeOK', Settled, stamps' = stamps,
         \A i \in Item : ~Filed(i) /\ Filed(i)' => filings'[i].by = {},
         \A s \in Session :
           \/ visit'[s] \in {visit[s], Away}
           \/ /\ visit'[s] \in Visit /\ Filed(visit'[s].item)
              /\ visit'[s].begun <= clock' /\ visit'[s].seen = filings[visit'[s].item]
              /\ visit'[s].item \in Request => MayReview(visit'[s].user, visit'[s].item)
  PROVE  DeskInv'
<1> USE DEF DeskInv
<1>1. \A i \in Item : StampsOf(i)' = StampsOf(i)
  BY DEF StampsOf
<1>2. clock \in Nat /\ clock' \in Nat
  BY DEF TypeOK
<1>3. \A i \in Item : Filed(i) => Filed(i)' /\ filings'[i] = filings[i]
  BY DEF Settled, Filed
<1>4. \A u \in User, r \in Item : Filed(r) /\ MayReview(u, r) => MayReview(u, r)'
  BY <1>3, ReviewerStays DEF Settled
<1>5. \A s \in Session : visit'[s] # Away =>
        /\ visit'[s] \in Visit /\ visit'[s].item \in Item /\ visit'[s].user \in User
        /\ Filed(visit'[s].item) /\ visit'[s].begun <= clock'
        /\ visit'[s].item \in Request => MayReview(visit'[s].user, visit'[s].item)
  BY <1>2, VisitFields DEF StampsEntitled, Settled, Visit
<1>6. StampsEntitled'
  <2>1. \A t \in stamps :
          /\ Filed(t.item)' /\ t.begun < t.done /\ t.done <= clock'
          /\ t.item \in Request => MayReview(t.user, t.item)'
    BY <1>2, <1>3, <1>4, StampFields DEF StampsEntitled, Settled
  <2>2. \A s \in Session : visit'[s] # Away =>
          /\ Filed(visit[s].item)' /\ visit'[s].begun <= clock'
          /\ visit'[s].item \in Request => MayReview(visit[s].user, visit[s].item)'
    <3> SUFFICES ASSUME NEW s \in Session, visit'[s] # Away
                 PROVE  /\ Filed(visit[s].item)' /\ visit'[s].begun <= clock'
                        /\ visit'[s].item \in Request =>
                             MayReview(visit[s].user, visit[s].item)'
      OBVIOUS
    <3>1. PICK i \in Item, u \in User : visit'[s].item = i /\ visit'[s].user = u
      BY <1>5
    <3> QED
      BY <1>3, <1>4, <1>5, <3>1
  <2> QED
    BY <2>1, <2>2 DEF StampsEntitled
<1>7. ColumnsStamped'
  <2> SUFFICES ASSUME NEW i \in Item
               PROVE  /\ StampsOf(i) # {} => \E t \in StampsOf(i) : filings'[i].status = t.status
                      /\ i \in Request /\ Filed(i)' =>
                           \A u \in filings'[i].by : \E t \in StampsOf(i) : t.user = u
    BY <1>1 DEF ColumnsStamped
  <2>1. StampsOf(i) # {} => Filed(i)
    BY DEF StampsOf, StampsEntitled
  <2>2. CASE Filed(i)
    BY <1>3, <2>2 DEF ColumnsStamped
  <2>3. CASE ~Filed(i)
    BY <2>1, <2>3
  <2> QED
    BY <2>2, <2>3
<1>8. SeenUntilOverlap'
  <2> SUFFICES ASSUME NEW s \in Session, visit'[s] # Away,
                      \A q \in stamps : q.item = visit'[s].item => q.done <= visit'[s].begun
               PROVE  filings'[visit'[s].item] = visit'[s].seen
    BY DEF SeenUntilOverlap, StampsOf
  <2>1. filings'[visit'[s].item] = filings[visit'[s].item]
    BY <1>3, <1>5
  <2>2. CASE visit'[s] = visit[s]
    BY <2>1, <2>2 DEF SeenUntilOverlap, StampsOf
  <2> QED
    BY <2>1, <2>2
<1>9. LastStampShown'
  <2> SUFFICES ASSUME NEW i \in Item, StampsOf(i) # {}
               PROVE  \E t \in StampsOf(i) :
                        (\A q \in StampsOf(i) : q.done <= t.done) /\ Shows(i, t)'
    BY <1>1 DEF LastStampShown
  <2>1. filings'[i] = filings[i]
    BY <1>3 DEF StampsOf, StampsEntitled
  <2>2. PICK t \in StampsOf(i) : (\A q \in StampsOf(i) : q.done <= t.done) /\ Shows(i, t)
    BY DEF LastStampShown
  <2>3. Shows(i, t)'
    BY <1>1, <2>1, <2>2 DEF Shows
  <2> QED
    BY <2>2, <2>3
<1> QED
  BY <1>6, <1>7, <1>8, <1>9

\* A stamp is the last of its row, and shows as a whole unless another was
\* committed since its request began.
LEMMA StampInductive ==
  ASSUME DeskInv, TypeOK', DeskTypeOK', NEW s \in Session, Stamp(s), roles' = roles
  PROVE  DeskInv'
<1> USE DEF DeskInv
<1>1. PICK t \in StampRow :
        /\ t.item = visit[s].item /\ t.status = visit[s].status /\ t.user = visit[s].user
        /\ t.begun = visit[s].begun /\ t.done = clock + 1
        /\ stamps' = stamps \cup {t}
        /\ \A i \in Item \ {t.item} : filings'[i] = filings[i]
        /\ Filed(t.item) /\ filings'[t.item].status # "none"
        /\ filings'[t.item].at = t.begun
        /\ filings'[t.item].to = filings[t.item].to
        /\ filings'[t.item].status =
             Changed(filings[t.item].status, visit[s].seen.status, t.status)
        /\ t.item \in Request =>
             filings'[t.item].by = Changed(filings[t.item].by, visit[s].seen.by, {t.user})
        /\ clock' = clock + 1 /\ visit' = [visit EXCEPT ![s] = Away]
        /\ UNCHANGED holder
  BY StampColumns
<1>2. visit[s] # Away /\ t.item \in Item /\ t.user \in User /\ t.begun \in Nat /\ clock \in Nat
  BY DEF Stamp, StampRow, TypeOK
<1>3. \A q \in stamps : q.done \in Nat /\ q.begun \in Nat /\ q.done <= clock /\ q.begun < q.done
                          /\ q.item \in Item /\ q.user \in User
  BY StampFields DEF StampsEntitled
<1>4. t.begun <= clock /\ (t.item \in Request => MayReview(t.user, t.item))
  BY <1>1, <1>2 DEF StampsEntitled
<1>5. \A i \in Item : Filed(i) => Filed(i)'
  BY <1>1 DEF Filed
<1>6. \A u \in User, r \in Item : MayReview(u, r) => MayReview(u, r)'
  <2>1. \A r \in Item : filings'[r].to = filings[r].to
    BY <1>1
  <2> QED
    BY <2>1, ReviewerStays
<1>7. \A i \in Item \ {t.item} : StampsOf(i)' = StampsOf(i)
  BY <1>1 DEF StampsOf
<1>8. StampsOf(t.item)' = StampsOf(t.item) \cup {t}
  BY <1>1 DEF StampsOf
<1>9. \A r \in Session : visit'[r] = (IF r = s THEN Away ELSE visit[r])
  BY <1>1 DEF DeskTypeOK
<1>10. StampsEntitled'
  <2>1. \A q \in stamps' :
          /\ Filed(q.item)' /\ q.begun < q.done /\ q.done <= clock'
          /\ q.item \in Request => MayReview(q.user, q.item)'
    BY <1>1, <1>2, <1>3, <1>4, <1>5, <1>6 DEF StampsEntitled
  <2>2. \A p, q \in stamps' : p.done = q.done => p = q
    BY <1>1, <1>2, <1>3 DEF StampsEntitled
  <2>3. \A r \in Session : visit'[r] # Away =>
          /\ Filed(visit[r].item)' /\ visit'[r].begun <= clock'
          /\ visit'[r].item \in Request => MayReview(visit[r].user, visit[r].item)'
    <3> SUFFICES ASSUME NEW r \in Session, visit'[r] # Away
                 PROVE  /\ Filed(visit[r].item)' /\ visit'[r].begun <= clock'
                        /\ visit'[r].item \in Request =>
                             MayReview(visit[r].user, visit[r].item)'
      OBVIOUS
    <3>0. visit'[r] = visit[r] /\ visit[r] # Away
      BY <1>9
    <3>1. PICK i \in Item, u \in User : visit[r].item = i /\ visit[r].user = u
      BY <3>0, VisitFields
    <3>2. Filed(i)' /\ (i \in Request => MayReview(u, i)')
      BY <1>5, <1>6, <3>0, <3>1 DEF StampsEntitled
    <3>3. visit[r].begun <= clock'
      BY <1>1, <1>2, <3>0, VisitFields DEF StampsEntitled
    <3> QED
      BY <3>0, <3>1, <3>2, <3>3
  <2> QED
    BY <2>1, <2>2, <2>3 DEF StampsEntitled
<1>11. (\A q \in StampsOf(t.item) : q.done <= t.begun) => filings[t.item] = visit[s].seen
  BY <1>1, <1>2 DEF SeenUntilOverlap
<1>12. ColumnsStamped'
  <2> SUFFICES ASSUME NEW i \in Item
               PROVE  /\ StampsOf(i)' # {} => \E q \in StampsOf(i)' : filings'[i].status = q.status
                      /\ i \in Request /\ Filed(i)' =>
                           \A u \in filings'[i].by : \E q \in StampsOf(i)' : q.user = u
    BY DEF ColumnsStamped
  <2>1. CASE i # t.item
    BY <1>1, <1>7, <2>1 DEF ColumnsStamped, Filed
  <2>2. CASE i = t.item
    <3>1. \E q \in StampsOf(i)' : filings'[i].status = q.status
      <4>1. CASE StampsOf(i) = {}
        BY <1>1, <1>8, <1>11, <2>2, <4>1 DEF Changed
      <4>2. CASE StampsOf(i) # {}
        BY <1>1, <1>8, <2>2, <4>2 DEF ColumnsStamped, Changed
      <4> QED
        BY <4>1, <4>2
    <3>2. ASSUME i \in Request, NEW u \in filings'[i].by
          PROVE  \E q \in StampsOf(i)' : q.user = u
      BY <1>1, <1>8, <2>2, <3>2 DEF ColumnsStamped, Changed
    <3> QED
      BY <3>1, <3>2
  <2> QED
    BY <2>1, <2>2
<1>13. SeenUntilOverlap'
  <2> SUFFICES ASSUME NEW r \in Session, visit'[r] # Away,
                      \A q \in stamps' : q.item = visit'[r].item => q.done <= visit'[r].begun
               PROVE  filings'[visit'[r].item] = visit'[r].seen
    BY DEF SeenUntilOverlap, StampsOf
  <2>0. visit'[r] = visit[r] /\ visit[r] # Away
    BY <1>9
  <2>1. PICK i \in Item : visit[r].item = i
    BY <2>0, VisitFields
  <2>2. visit[r].begun \in Nat /\ visit[r].begun <= clock
    BY <2>0, VisitFields DEF StampsEntitled
  <2>3. i # t.item
    BY <1>1, <1>2, <2>0, <2>1, <2>2
  <2>4. \A q \in StampsOf(i) : q.done <= visit[r].begun
    BY <1>1, <2>0, <2>1 DEF StampsOf
  <2> QED
    BY <1>1, <2>0, <2>1, <2>3, <2>4 DEF SeenUntilOverlap
<1>14. LastStampShown'
  <2> SUFFICES ASSUME NEW i \in Item, StampsOf(i)' # {}
               PROVE  \E q \in StampsOf(i)' :
                        (\A p \in StampsOf(i)' : p.done <= q.done) /\ Shows(i, q)'
    BY DEF LastStampShown
  <2>1. CASE i # t.item
    <3>1. StampsOf(i)' = StampsOf(i) /\ filings'[i] = filings[i]
      BY <1>1, <1>7, <2>1
    <3>2. PICK q \in StampsOf(i) : (\A p \in StampsOf(i) : p.done <= q.done) /\ Shows(i, q)
      BY <3>1 DEF LastStampShown
    <3> QED
      BY <3>1, <3>2 DEF Shows
  <2>2. CASE i = t.item
    <3>1. t \in StampsOf(i)' /\ \A p \in StampsOf(i)' : p.done <= t.done
      BY <1>1, <1>2, <1>3, <1>8, <2>2 DEF StampsOf
    <3>2. ASSUME \A p \in StampsOf(i)' : t.begun < p.done => p = t
          PROVE  /\ filings'[i].status = t.status
                 /\ i \in Request => filings'[i].by = {t.user}
      <4>1. \A p \in StampsOf(i) : p.done <= t.begun
        BY <1>1, <1>2, <1>3, <1>8, <2>2, <3>2 DEF StampsOf
      <4>2. filings[i] = visit[s].seen
        BY <1>11, <2>2, <4>1
      <4> QED
        BY <1>1, <2>2, <4>2 DEF Changed
    <3> QED
      BY <1>1, <2>2, <3>1, <3>2 DEF Shows
  <2> QED
    BY <2>1, <2>2
<1> QED
  BY <1>10, <1>12, <1>13, <1>14

\* A new row, of a request or a complaint.
LEMMA FilingInductive ==
  ASSUME DeskInv, NEW i \in Item, ~Filed(i), NEW f \in Filing, f.by = {},
         filings' = [filings EXCEPT ![i] = f], clock' = clock + 1,
         UNCHANGED <<holder, stamps, visit, roles, grants, job>>
  PROVE  DeskInv'
<1> USE DEF DeskInv
<1>1. TypeOK' /\ clock \in Nat
  BY DEF TypeOK
<1>2. DeskTypeOK'
  BY DEF DeskTypeOK
<1>3. filings'[i] = f /\ \A j \in Item \ {i} : filings'[j] = filings[j]
  BY DEF DeskTypeOK
<1>4. Settled
  BY <1>1, <1>3 DEF Settled
<1>5. \A j \in Item : ~Filed(j) /\ Filed(j)' => filings'[j].by = {}
  BY <1>3 DEF Filed
<1> QED
  BY <1>1, <1>2, <1>4, <1>5, NoStamp

\* A request that has read the row of an item.
LEMMA BeginStampInductive ==
  ASSUME DeskInv, NEW s \in Session, NEW i \in Item, NEW u \in User,
         NEW status \in Verdict \cup ComplaintStatus, Filed(i),
         i \in Request => MayReview(u, i), BeginStamp(s, i, status, u),
         UNCHANGED <<roles, grants, job>>
  PROVE  DeskInv'
<1> USE DEF DeskInv
<1> DEFINE v == [pc |-> "stamping", item |-> i, seen |-> filings[i], status |-> status,
                 user |-> u, begun |-> clock + 1]
<1>1. clock \in Nat /\ clock' = clock + 1 /\ visit' = [visit EXCEPT ![s] = v]
      /\ UNCHANGED <<filings, holder, stamps>>
  BY DEF BeginStamp, TypeOK
<1>2. v \in Visit
  BY <1>1, FilingFields DEF Visit
<1>3. TypeOK'
  BY <1>1 DEF TypeOK
<1>4. DeskTypeOK'
  BY <1>1, <1>2 DEF DeskTypeOK
<1>5. Settled
  BY <1>1 DEF Settled
<1>7. \A j \in Item : ~Filed(j) /\ Filed(j)' => filings'[j].by = {}
  BY <1>1 DEF Filed
<1>8. visit'[s] = v /\ \A r \in Session \ {s} : visit'[r] = visit[r]
  BY <1>1 DEF DeskTypeOK
<1>9. v.item = i /\ v.user = u /\ v.begun <= clock' /\ v.seen = filings[i]
  BY <1>1
<1>10. \A r \in Session :
         \/ visit'[r] \in {visit[r], Away}
         \/ /\ visit'[r] \in Visit /\ Filed(visit'[r].item)
            /\ visit'[r].begun <= clock' /\ visit'[r].seen = filings[visit'[r].item]
            /\ visit'[r].item \in Request => MayReview(visit'[r].user, visit'[r].item)
  BY <1>2, <1>8, <1>9
<1> QED
  BY <1>1, <1>3, <1>4, <1>5, <1>7, <1>10, NoStamp

\* A step that leaves rows, stamps and requests as they are, but for one that
\* gives up.
LEMMA QuietInductive ==
  ASSUME DeskInv, TypeOK', DeskTypeOK', UNCHANGED <<filings, stamps>>,
         \A u \in User : roles[u] \subseteq roles'[u], clock <= clock',
         \A s \in Session : visit'[s] \in {visit[s], Away}
  PROVE  DeskInv'
<1>1. Settled
  BY DEF Settled
<1>2. \A i \in Item : ~Filed(i) /\ Filed(i)' => filings'[i].by = {}
  BY DEF Filed
<1> QED
  BY <1>1, <1>2, NoStamp

LEMMA DeskInductive == ASSUME DeskInv, [DeskNext]_<<vars, desk>> PROVE DeskInv'
<1> USE DEF DeskInv
<1>0. clock \in Nat /\ {} \in Maybe(User) /\ {} \in Maybe(Department)
      /\ \A u \in User : {u} \in Maybe(User)
  BY MaybeNothing DEF TypeOK
<1>1. ASSUME NEW u \in User, NEW d \in Document, Upload(u, d), UNCHANGED <<roles, grants, job>>
      PROVE  DeskInv'
  <2>1. TypeOK' /\ DeskTypeOK'
    BY <1>0, <1>1 DEF Upload, TypeOK, DeskTypeOK
  <2> QED
    BY <1>0, <1>1, <2>1, QuietInductive DEF Upload
<1>2. ASSUME NEW u \in User, NEW d \in Document, NEW r \in Request,
             NEW home \in Maybe(Department), NEW to \in Maybe(Department),
             CreateRequest(u, r, d, home, to), UNCHANGED <<roles, grants, job>>
      PROVE  DeskInv'
  <2> DEFINE f == [status |-> "pending", from |-> {u},
                   home |-> IF home # {} THEN home ELSE DepartmentOf[u],
                   to |-> IF to # {} THEN to ELSE UNION {DepartmentOf[h] : h \in holder[d]},
                   by |-> {}, at |-> 0]
  <2>1. UNION {DepartmentOf[h] : h \in holder[d]} \in Maybe(Department)
    BY HolderDepartment DEF DeskTypeOK
  <2>2. DepartmentOf[u] \in Maybe(Department)
    BY DepartmentOfAssumption
  <2>3. f \in Filing
    BY <1>0, <2>1, <2>2 DEF Filing
  <2>4. r \in Item /\ ~Filed(r)
    BY <1>2 DEF Item, CreateRequest
  <2>5. filings' = [filings EXCEPT ![r] = f] /\ clock' = clock + 1
        /\ UNCHANGED <<holder, stamps, visit>>
    BY <1>2 DEF CreateRequest
  <2>6. f.by = {}
    OBVIOUS
  <2> HIDE DEF f
  <2> QED
    BY <1>2, <2>3, <2>4, <2>5, <2>6, FilingInductive
<1>3. ASSUME NEW c \in Complaint, RaiseComplaint(c), UNCHANGED <<roles, grants, job>>
      PROVE  DeskInv'
  <2> DEFINE f == [status |-> "open", from |-> {}, home |-> {}, to |-> {}, by |-> {}, at |-> 0]
  <2>1. f \in Filing
    BY <1>0 DEF Filing, ComplaintStatus
  <2>2. c \in Item /\ ~Filed(c)
    BY <1>3 DEF Item, RaiseComplaint
  <2>3. filings' = [filings EXCEPT ![c] = f] /\ clock' = clock + 1
        /\ UNCHANGED <<holder, stamps, visit>>
    BY <1>3 DEF RaiseComplaint
  <2>4. f.by = {}
    OBVIOUS
  <2> HIDE DEF f
  <2> QED
    BY <1>3, <2>1, <2>2, <2>3, <2>4, FilingInductive
<1>4. ASSUME NEW s \in Session, NEW u \in User, NEW r \in Request, NEW v \in Verdict,
             Review(s, u, r, v), UNCHANGED <<roles, grants, job>>
      PROVE  DeskInv'
  <2>1. Filed(r) /\ MayReview(u, r) /\ BeginStamp(s, r, v, u) /\ r \in Item
        /\ v \in Verdict \cup ComplaintStatus
    BY <1>4 DEF Review, Item
  <2> QED
    BY <1>4, <2>1, BeginStampInductive
<1>5. ASSUME NEW s \in Session, NEW u \in User, NEW c \in Complaint, NEW v \in ComplaintStatus,
             WorkComplaint(s, u, c, v), UNCHANGED <<roles, grants, job>>
      PROVE  DeskInv'
  <2>1. Filed(c) /\ HasRole(u, {"admin"}) /\ BeginStamp(s, c, v, u) /\ c \in Item
        /\ v \in Verdict \cup ComplaintStatus
    BY <1>5 DEF WorkComplaint, Item
  <2>2. MayReview(u, c)
    BY <2>1 DEF HasRole, MayReview, IsAdmin
  <2> QED
    BY <1>5, <2>1, <2>2, BeginStampInductive
<1>6. ASSUME NEW s \in Session, Stamp(s), UNCHANGED <<roles, grants, job>>
      PROVE  DeskInv'
  <2>1. PICK t \in StampRow :
          /\ stamps' = stamps \cup {t} /\ filings' \in [Item -> Filing \cup {NoFiling}]
          /\ clock' = clock + 1 /\ visit' = [visit EXCEPT ![s] = Away]
          /\ UNCHANGED holder
    BY <1>6, StampColumns
  <2>2. TypeOK' /\ DeskTypeOK'
    BY <1>0, <1>6, <2>1 DEF TypeOK, DeskTypeOK
  <2> QED
    BY <1>6, <2>2, StampInductive
<1>7. ASSUME NEW s \in Session, GiveUp(s), UNCHANGED <<roles, grants, job>>
      PROVE  DeskInv'
  <2>1. /\ visit' = [visit EXCEPT ![s] = Away]
        /\ UNCHANGED <<filings, holder, stamps, clock>>
    BY <1>7 DEF GiveUp
  <2>2. TypeOK' /\ DeskTypeOK' /\ \A r \in Session : visit'[r] \in {visit[r], Away}
    BY <1>7, <2>1 DEF TypeOK, DeskTypeOK
  <2> QED
    BY <1>0, <1>7, <2>1, <2>2, QuietInductive
<1>8. ASSUME NEW a \in User, NEW u \in User, NEW role \in RoleName, AssignRole(a, u, role),
             UNCHANGED desk
      PROVE  DeskInv'
  <2>1. /\ clock' = clock + 1 /\ roles' = [roles EXCEPT ![u] = @ \cup {role}]
        /\ UNCHANGED <<grants, job, filings, holder, stamps, visit>>
    BY <1>8 DEF AssignRole, desk
  <2>2. TypeOK' /\ DeskTypeOK' /\ \A x \in User : roles[x] \subseteq roles'[x]
    BY <1>0, <2>1 DEF TypeOK, DeskTypeOK
  <2> QED
    BY <1>0, <2>1, <2>2, QuietInductive
<1>9. ASSUME UNCHANGED <<vars, desk>> PROVE DeskInv'
  <2>1. UNCHANGED <<roles, grants, job, clock, filings, holder, stamps, visit>>
    BY <1>9 DEF vars, desk
  <2>2. TypeOK' /\ DeskTypeOK'
    BY <2>1 DEF TypeOK, DeskTypeOK
  <2> QED
    BY <1>0, <2>1, <2>2, QuietInductive
<1> QED
  BY <1>1, <1>2, <1>3, <1>4, <1>5, <1>6, <1>7, <1>8, <1>9 DEF DeskNext, DeskStep

\* Nothing is filed at the start.
LEMMA DeskInitially == Init /\ DeskInit => DeskInv
<1> SUFFICES ASSUME Init, DeskInit PROVE DeskInv
  OBVIOUS
<1>1. TypeOK
  BY DEF Init, TypeOK
<1>2. DeskTypeOK
  BY MaybeNothing DEF DeskInit, DeskTypeOK
<1> QED
  BY <1>1, <1>2 DEF DeskInit, DeskInv, StampsEntitled, ColumnsStamped, SeenUntilOverlap,
                    LastStampShown, StampsOf, Filed, NoFiling

\* Only who may review a request stamps it, the columns of a row are of its
\* stamps, and a request that overlapped no other has read the row as it is.
THEOREM DeskInvariant == DeskSpec => []DeskInv
  BY DeskInitially, DeskInductive, PTL DEF DeskSpec

\* Reviewers are those of stamps.
LEMMA InvEntitled == DeskInv => ReviewerEntitled
<1> SUFFICES ASSUME DeskInv, NEW r \in Request, Filed(r), NEW u \in filings[r].by
             PROVE  /\ IsAdmin(u) \/ (filings[r].to # {} /\ filings[r].to = DepartmentOf[u])
                    /\ \E t \in StampsOf(r) : t.user = u
  BY DEF ReviewerEntitled
<1>1. PICK t \in StampsOf(r) : t.user = u
  BY DEF DeskInv, ColumnsStamped, Item
<1>2. MayReview(u, r)
  BY <1>1 DEF DeskInv, StampsEntitled, StampsOf
<1> QED
  BY <1>1, <1>2 DEF MayReview

\* Whatever reviews race in action(), who stands as the reviewer of a request was
\* entitled to it and did review it.
THEOREM ReviewersEntitled == DeskSpec => []ReviewerEntitled
  BY InvEntitled, DeskInvariant, PTL

\* The last stamp is the one that shows.
LEMMA InvWhole == DeskInv => StampWholeUntilOverlap
<1> SUFFICES ASSUME DeskInv, NEW i \in Item, StampsOf(i) # {}
             PROVE  /\ filings[i].at = Last(i).begun
                    /\ \E t \in StampsOf(i) : filings[i].status = t.status
                    /\ (\A q \in StampsOf(i) : Last(i).begun < q.done => q = Last(i)) =>
                         /\ filings[i].status = Last(i).status
                         /\ i \in Request => filings[i].by = {Last(i).user}
  BY DEF StampWholeUntilOverlap
<1>1. PICK t \in StampsOf(i) : (\A q \in StampsOf(i) : q.done <= t.done) /\ Shows(i, t)
  BY DEF DeskInv, LastStampShown
<1>2. Last(i) \in StampsOf(i) /\ \A q \in StampsOf(i) : q.done <= Last(i).done
  BY <1>1 DEF Last
<1>3. \A q \in StampsOf(i) : q \in stamps /\ q.done \in Nat
  BY StampFields DEF StampsOf, DeskInv
<1>4. Last(i) = t
  BY <1>1, <1>2, <1>3 DEF DeskInv, StampsEntitled
<1> HIDE DEF Last
<1> QED
  BY <1>1, <1>4 DEF Shows, DeskInv, ColumnsStamped

\* A review or a change of status that overlapped no other shows as a whole in
\* the row, and every column is always one that somebody set.
THEOREM StampsWhole == DeskSpec => []StampWholeUntilOverlap
  BY InvWhole, DeskInvariant, PTL

-----------------------------------------------------------------------------
(* Access and Desk at the same time *)

\* Grants are given, cases are touched, roles are assigned and the desk works,
\* in any order: the handlers of api.py and api_ext.py share users, roles and
\* the clock.  The requests of Access and those of Desk are different ones, also
\* where they have the same name in Session.
WholeNext == DeskStep \/ (Next /\ UNCHANGED desk)
WholeSpec == Init /\ DeskInit /\ [][WholeNext]_<<vars, desk>>

\* What the desk does is nothing but time to Access.
LEMMA DeskIsTime ==
  ASSUME DeskInv, DeskStep
  PROVE  UNCHANGED <<roles, grants, job>> /\ clock' \in Nat /\ clock <= clock'
<1>1. UNCHANGED <<roles, grants, job>>
  BY DEF DeskStep
<1>2. clock \in Nat
  BY DEF DeskInv, TypeOK
<1>3. clock' \in {clock, clock + 1}
  BY DEF DeskStep, Upload, CreateRequest, RaiseComplaint, Review, WorkComplaint, BeginStamp,
         Stamp, GiveUp
<1> QED
  BY <1>1, <1>2, <1>3

\* A step of Access changes nothing at the desk, and takes nobody's role.
LEMMA AccessIsQuiet ==
  ASSUME AccessInv, DeskInv, [Next]_vars, UNCHANGED desk
  PROVE  DeskInv'
<1>1. TypeOK' /\ clock <= clock' /\ \A u \in User : roles[u] \subseteq roles'[u]
  BY AccessInductive, RolesStay DEF AccessInv
<1>2. UNCHANGED <<filings, holder, stamps, visit>>
  BY DEF desk
<1>3. DeskTypeOK'
  BY <1>2 DEF DeskInv, DeskTypeOK
<1> QED
  BY <1>1, <1>2, <1>3, QuietInductive

LEMMA WholeInductive ==
  ASSUME AccessInv, DeskInv, [WholeNext]_<<vars, desk>>
  PROVE  AccessInv' /\ DeskInv'
<1>1. CASE DeskStep
  <2>1. DeskInv'
    BY <1>1, DeskInductive DEF DeskNext
  <2>2. AccessInv'
    BY <1>1, <2>1, DeskIsTime, OnlyTime DEF DeskInv
  <2> QED
    BY <2>1, <2>2
<1>2. CASE [Next]_vars /\ UNCHANGED desk
  BY <1>2, AccessInductive, AccessIsQuiet
<1> QED
  BY <1>1, <1>2 DEF WholeNext

\* Both invariants hold together: neither component needs the other to rest.
THEOREM WholeInvariant == WholeSpec => [](AccessInv /\ DeskInv)
<1>1. Init /\ DeskInit => AccessInv /\ DeskInv
  BY AccessInit, DeskInitially
<1> QED
  BY <1>1, WholeInductive, PTL DEF WholeSpec

\* So what is shown of access, and of the desk, holds while the other works.
THEOREM WholeSafe ==
  WholeSpec => [](/\ OpenedCaseStaysOpen
                  /\ MintedOnceUntilOverlap
                  /\ ChecksAgree
                  /\ ReviewerEntitled
                  /\ StampWholeUntilOverlap)
<1>1. AccessInv => MintedOnceUntilOverlap
  BY DEF AccessInv
<1> QED
  BY <1>1, InvOpens, InvAgrees, InvEntitled, InvWhole, WholeInvariant, PTL

\* Nobody gains access from what happens at the desk either, a review or a
\* request for evidence that was approved included.
THEOREM WholeAccessBegins == WholeSpec => AccessBeginsWithRow
<1>1. AccessInv /\ DeskInv /\ [WholeNext]_<<vars, desk>> =>
        [\A u \in User, d \in Document, level \in Required :
           ~MayDocument(u, d, level) /\ MayDocument(u, d, level)'
             => grants' # grants \/ roles' # roles]_vars
  <2> SUFFICES ASSUME AccessInv, DeskInv, [WholeNext]_<<vars, desk>>, NEW u \in User,
                      NEW d \in Document, NEW level \in Required,
                      MayDocument(u, d, level)', grants' = grants, roles' = roles
               PROVE  MayDocument(u, d, level)
    OBVIOUS
  <2>1. CASE DeskStep
    BY <2>1, DeskIsTime, TimeGivesNothing
  <2>2. CASE [Next]_vars
    <3>1. clock' \in Nat /\ clock <= clock'
      BY <2>2, AccessInductive, RolesStay DEF AccessInv, TypeOK
    <3> QED
      BY <3>1, TimeGivesNothing
  <2> QED
    BY <2>1, <2>2 DEF WholeNext
<1> QED
  BY <1>1, WholeInvariant, PTL DEF WholeSpec, AccessBeginsWithRow
=============================================================================
