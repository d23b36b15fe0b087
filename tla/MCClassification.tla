-------------------------- MODULE MCClassification --------------------------
(***************************************************************************)
(* Model checking Classification.                                          *)
(***************************************************************************)
EXTENDS Classification, TLC

CONSTANTS c1, c2, t1, t2

\* Clients send nothing, or claim that the document was accepted as c1, or send
\* a category of their own for a pending one.
MCGiven ==
  {NoMetadata,
   [NoMetadata EXCEPT !.status = {"accepted"}, !.accepted_category = {c1},
                      !.accepted_tags = {{t1}}],
   [NoMetadata EXCEPT !.status = {"pending"}, !.accepted_category = {c2}]}

\* Officers agree on the category and not on the tags, or the other way round.
MCChoice ==
  {[category |-> c1, tags |-> {t1, t2}], [category |-> c2, tags |-> {t1, t2}],
   [category |-> c2, tags |-> {t2}], [category |-> c1, tags |-> {}]}
=============================================================================
