------------------------------- MODULE MCDesk -------------------------------
(***************************************************************************)
(* Model checking Access and Desk.  They meet in the roles only, so each   *)
(* behaviour of this model works with the one or with the other: part says *)
(* with which.                                                             *)
(***************************************************************************)
EXTENDS Desk

CONSTANTS u1, u2, c1, d1, dept, low, high

VARIABLE part

MCCaseOf == [d \in {d1} |-> c1]
MCSensitivityOf == [d \in {d1} |-> high]
MCDepartmentOf == [u \in {u1, u2} |-> IF u = u1 THEN {dept} ELSE {}]

\* Bodies of grants: on a case or on a document, with and without an end, a
\* department and a sensitivity that do not fit, and a level nobody knows.
Plainly(u, level, until) ==
  [user |-> u, case |-> {c1}, document |-> {}, department |-> {},
   sensitivity |-> {}, level |-> level, until |-> until]
MCOffer ==
  {Plainly(u2, "admin", {4}), Plainly(u1, "read", {3}), Plainly(u2, "other", {}),
   [Plainly(u2, "write", {}) EXCEPT !.department = {dept}],
   [Plainly(u2, "read", {}) EXCEPT !.sensitivity = {low}],
   [Plainly(u2, "admin", {3}) EXCEPT !.case = {}, !.document = {d1}]}

MCInit == Init /\ DeskInit /\ part \in {"access", "desk"}
MCNext ==
  /\ UNCHANGED part
  /\ \/ part = "access" /\ Next /\ UNCHANGED desk
     \/ part = "desk" /\ DeskNext
MCSpec == MCInit /\ [][MCNext]_<<vars, desk, part>>
=============================================================================
