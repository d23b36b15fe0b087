------------------------ MODULE ClassificationProofs ------------------------
(***************************************************************************)
(* ClassInv is an invariant of Classification, and only an acceptance      *)
(* changes what a document shows as confirmed, for any number of requests, *)
(* documents, categories and tags.                                         *)
(***************************************************************************)
EXTENDS Classification, TLAPS

Points == {"tagging", "untagged", "upserting", "flushed"}

-----------------------------------------------------------------------------
\* A request that has read something is a Filing.
LEMMA FilesType ==
  ASSUME TypeOK, NEW s \in Session, Files(s)
  PROVE  job[s] \in Filing
BY DEF TypeOK, Files, At, Manual, Idle

\* The fields of a Filing have their types, and are all it has.
LEMMA FilingFields ==
  ASSUME NEW j \in Filing
  PROVE  /\ j.pc \in Points /\ j.id \in Nat /\ j.kind \in {"suggest", "accept"}
         /\ j.doc \in Document /\ j.rows \in Metadata /\ j.seen \in Metadata
         /\ j.keys \subseteq Key /\ j.inserted \subseteq Key /\ j.updated \subseteq Key
         /\ j.left \subseteq Tag /\ j.at \in Row(Tag) /\ j.at \subseteq Tag
         /\ j.made \subseteq Tag /\ j.new \subseteq Tag /\ j.put \subseteq Tag
         /\ j.saw \in Nat
BY DEF Filing, Points, Row

\* What a scoring and an acceptance begin as.
LEMMA OpenedType ==
  ASSUME TypeOK, NEW d \in Document, NEW pc \in Points, NEW kind \in {"suggest", "accept"},
         NEW rows \in Metadata, NEW seen \in Metadata, NEW keys \in SUBSET Key,
         NEW left \in SUBSET Tag
  PROVE  Opened(pc, kind, d, rows, seen, keys, left) \in Filing
BY DEF TypeOK, Opened, Filing, Points, Row

LEMMA RowsType ==
  ASSUME TypeOK, NEW s \in Session, Files(s)
  PROVE  Rows(s) \in Metadata
<1>1. job[s] \in Filing
  BY FilesType
<1>2. /\ job[s].rows \in Metadata /\ meta[job[s].doc] \in Metadata
  BY <1>1, FilingFields DEF TypeOK
<1>. QED  BY <1>2 DEF Rows, After, Metadata

LEMMA InitClass == Init => ClassInv
<1>. SUFFICES ASSUME Init PROVE ClassInv
  OBVIOUS
<1>1. \A s \in Session : ~Files(s)
  BY DEF Init, Files, At, Idle
<1>2. NoMetadata \in Metadata
  BY DEF NoMetadata, Metadata, Row
<1>3. TypeOK
  BY <1>2 DEF Init, TypeOK, Row
<1>4. LinksCountedOnce
  BY DEF Init, LinksCountedOnce
<1>5. ConfirmedIsSealed /\ ClassifiedUntilContested
  BY DEF Init, NoMetadata, ConfirmedIsSealed, ClassifiedUntilContested, RecordsOf
<1>6. NoRecordYet /\ DocumentsExist /\ KindsApart /\ LinksHeld /\ TagsApplied /\ RowsLookedUp
  BY <1>1 DEF Init, NoRecordYet, DocumentsExist, KindsApart, LinksHeld, TagsApplied, RowsLookedUp
<1>7. ReadsCurrent
  BY <1>1 DEF Init, ReadsCurrent
<1>. QED  BY <1>3, <1>4, <1>5, <1>6, <1>7 DEF ClassInv

-----------------------------------------------------------------------------
(* The invariant, one request at a time *)

\* The records of a document in the ledger L; one of them has the value v of key k.
Records(L, d) == {r \in L : r.doc = d}
ConfirmedIn(L, d, k, v) == \E r \in Records(L, d) : Confirms(r, k, v)

Done(j) == Key \ (j.keys \cup j.inserted \cup j.updated)

\* What ClassInv says of a scoring or an acceptance j, apart from its type.
Fit(j) ==
  /\ \A r \in ledger : r.id # j.id
  /\ j.kind = "suggest" =>
       /\ j.keys \cup j.inserted \cup j.updated \subseteq SuggestKeys
       /\ j.pc \in {"upserting", "flushed"} /\ j.new = {} /\ j.made = {}
       /\ j.rows.status = {"pending"}
  /\ j.kind = "accept" =>
       /\ j.keys \cup j.inserted \cup j.updated \subseteq AcceptKeys
       /\ \A k \in AcceptKeys : j.seen[k] = {}
       /\ j.rows.status = {"accepted"}
       /\ j.rows.accepted_category # {} /\ j.rows.accepted_tags # {}
       /\ \A k \in {"accepted_category", "accepted_tags"} \ (j.keys \cup j.inserted \cup j.updated) :
            meta[j.doc][k] = j.rows[k] \/ ConfirmedIn(ledger, j.doc, k, meta[j.doc][k])
  /\ given[j.doc] # {}
  /\ /\ j.kind = "suggest" /\ Records(ledger, j.doc) = {}
     /\ j.seen.status = {"pending"} \/ "status" \notin j.keys \cup j.inserted \cup j.updated
     => meta[j.doc].status = {"pending"}
  /\ j.pc \in {"tagging", "untagged"} =>
       j.keys = AcceptKeys /\ j.inserted \cup j.updated = {}
  /\ j.pc \in {"upserting", "flushed"} => j.left = {}
  /\ j.pc = "flushed" => j.keys = {} /\ j.put = j.new
  /\ j.put \subseteq j.new
  /\ Links(j.doc, j.put) \cap links = {}
  /\ \A ts \in j.rows.accepted_tags : Links(j.doc, ts \ (j.left \cup j.new)) \subseteq links
  /\ j.saw <= scored[j.doc]
  /\ j.doc \notin contested =>
       /\ j.saw = scored[j.doc]
       /\ \A k \in Key : j.seen[k] \in {{}, meta[j.doc][k]}
       /\ \A k \in (IF j.kind = "suggest" THEN SuggestKeys ELSE AcceptKeys) \cap Done(j) :
            meta[j.doc][k] = j.rows[k]

\* ... and of two of them.
Apart(j, k) == j.id # k.id /\ (j.doc = k.doc => j.put \cap k.put = {})

Others ==
  /\ \A r \in ledger : r.id <= requests
  /\ \A r \in ledger : given[r.doc] # {}
  /\ \A d \in Document : given[d] = {} => meta[d] = NoMetadata /\ scored[d] = 0
  /\ \A d \in Document : confirmed[d] <= scored[d]
  /\ LinksCountedOnce
  /\ ConfirmedIsSealed
  /\ ClassifiedUntilContested

ByRequest ==
  /\ TypeOK
  /\ Others
  /\ \A s \in Session : Files(s) => job[s].id <= requests /\ Fit(job[s])
  /\ \A s, t \in Session : Files(s) /\ Files(t) /\ s # t => Apart(job[s], job[t])

LEMMA ClassInvByRequest == ClassInv <=> ByRequest
<1>1. ASSUME ClassInv PROVE ByRequest
  <2>1. ASSUME NEW s \in Session, Files(s) PROVE job[s].id <= requests /\ Fit(job[s])
    BY <1>1, <2>1 DEF ClassInv, NoRecordYet, DocumentsExist, KindsApart, LinksHeld, TagsApplied,
       RowsLookedUp, ReadsCurrent, Fit, Done, OwnKeys, Written, At, Files,
       RecordsOf, Records, SealedValue, ConfirmedIn
  <2>2. ASSUME NEW s \in Session, NEW t \in Session, Files(s), Files(t), s # t
        PROVE  Apart(job[s], job[t])
    BY <1>1, <2>2 DEF ClassInv, NoRecordYet, LinksHeld, Apart
  <2>. QED  BY <1>1, <2>1, <2>2 DEF ByRequest, Others, ClassInv, NoRecordYet, DocumentsExist, ReadsCurrent
<1>2. ASSUME ByRequest PROVE ClassInv
  <2>1. NoRecordYet /\ DocumentsExist
    BY <1>2 DEF ByRequest, Others, NoRecordYet, DocumentsExist, Fit, Apart
  <2>2. KindsApart
    BY <1>2 DEF ByRequest, KindsApart, Fit, Written, At, Files
  <2>3. LinksHeld
    BY <1>2 DEF ByRequest, LinksHeld, Fit, Apart, At, Files
  <2>4. TagsApplied /\ RowsLookedUp
    BY <1>2 DEF ByRequest, TagsApplied, RowsLookedUp, Fit, Written,
       RecordsOf, Records, SealedValue, ConfirmedIn
  <2>5. ReadsCurrent
    BY <1>2 DEF ByRequest, Others, ReadsCurrent, Fit, Done, OwnKeys, Written,
       Key, SuggestKeys, AcceptKeys
  <2>. QED  BY <1>2, <2>1, <2>2, <2>3, <2>4, <2>5 DEF ByRequest, Others, ClassInv
<1>. QED  BY <1>1, <1>2

-----------------------------------------------------------------------------
\* A step that changes no more than what one request is doing.
LEMMA JobStep ==
  ASSUME ByRequest, NEW s \in Session, NEW j \in Filing \cup Manual \cup {Idle},
         job' = [job EXCEPT ![s] = j],
         requests' \in Nat, requests <= requests',
         UNCHANGED <<store, history>>,
         j.pc \in Points =>
           /\ j.id <= requests'
           /\ Fit(j)
           /\ \A o \in Session \ {s} : Files(o) => Apart(j, job[o])
  PROVE  ByRequest'
<1>1. job'[s] = j /\ \A o \in Session \ {s} : job'[o] = job[o]
  BY DEF ByRequest, TypeOK
<1>2. TypeOK'
  BY DEF ByRequest, TypeOK, store, history
<1>3. Others'
  BY DEF ByRequest, TypeOK, Acceptance, Others, store, history, LinksCountedOnce,
     ConfirmedIsSealed, ClassifiedUntilContested, RecordsOf
<1>4. ASSUME NEW o \in Session, Files(o)' PROVE (job[o].id <= requests /\ Fit(job[o]))'
  <2>1. CASE o = s
    BY <1>1, <1>4, <2>1 DEF Files, At, Points, Fit, Done, store, history
  <2>2. CASE o # s
    <3>1. job'[o] = job[o] /\ Files(o)
      BY <1>1, <1>4, <2>2 DEF Files, At
    <3>2. job[o].id \in Nat /\ job[o].id <= requests /\ Fit(job[o]) /\ requests \in Nat
      BY <3>1, FilesType, FilingFields DEF ByRequest, TypeOK
    <3>. QED  BY <3>1, <3>2 DEF Fit, Done, store, history
  <2>. QED  BY <2>1, <2>2
<1>5. ASSUME NEW o \in Session, NEW p \in Session, Files(o)', Files(p)', o # p
      PROVE  Apart(job[o], job[p])'
  <2>1. CASE o = s
    BY <1>1, <1>5, <2>1 DEF Files, At, Points, Apart
  <2>2. CASE p = s
    BY <1>1, <1>5, <2>2 DEF Files, At, Points, Apart
  <2>3. CASE o # s /\ p # s
    BY <1>1, <1>5, <2>3 DEF Files, At, Apart, ByRequest
  <2>. QED  BY <2>1, <2>2, <2>3
<1>. QED  BY <1>2, <1>3, <1>4, <1>5 DEF ByRequest
-----------------------------------------------------------------------------
(* The steps of a request, but for its commit *)

LEMMA BeginStep ==
  ASSUME ByRequest, NEW s \in Session, NEW d \in Document,
         \/ \E c \in Category : Suggest(s, d, c)
         \/ \E p \in Choice : Accept(s, d, p.category, p.tags)
  PROVE  ByRequest'
<1>0. TypeOK /\ requests \in Nat /\ meta[d] \in Metadata /\ scored[d] \in Nat
  BY DEF ByRequest, TypeOK
<1>1. SuggestKeys \subseteq Key /\ AcceptKeys \subseteq Key
  BY DEF Key
<1>2. \A o \in Session : Files(o) => job[o] \in Filing /\ job[o].id \in Nat /\ job[o].id <= requests
  BY <1>0, FilesType, FilingFields DEF ByRequest
<1>3. \A r \in ledger : r.id \in Nat /\ r.id <= requests
  BY DEF ByRequest, TypeOK, Acceptance, Others
<1>4. CASE \E c \in Category : Suggest(s, d, c)
  <2>1. PICK c \in Category : Suggest(s, d, c)
    BY <1>4
  <2>. DEFINE rows == [NoMetadata EXCEPT !.category = {c}, !.status = {"pending"}]
              j == Opened("upserting", "suggest", d, rows, meta[d], SuggestKeys, {})
  <2>2. rows \in Metadata /\ rows.status = {"pending"} /\ rows.accepted_tags = {}
    BY DEF NoMetadata, Metadata, Row
  <2>3. j \in Filing
    BY <1>0, <1>1, <2>2, OpenedType DEF Points
  <2>7. /\ job' = [job EXCEPT ![s] = j] /\ requests' = requests + 1
        /\ UNCHANGED <<store, history>> /\ given[d] # {}
    BY <2>1 DEF Suggest, Begin
  <2>8. /\ j.pc = "upserting" /\ j.id = requests + 1 /\ j.kind = "suggest" /\ j.doc = d
        /\ j.rows = rows /\ j.seen = meta[d] /\ j.keys = SuggestKeys /\ j.left = {}
        /\ j.inserted = {} /\ j.updated = {} /\ j.new = {} /\ j.put = {} /\ j.made = {}
        /\ j.saw = scored[d]
    BY DEF Opened
  <2>. HIDE DEF rows, j
  <2>4. Fit(j)
    BY <1>0, <1>3, <2>2, <2>7, <2>8 DEF Fit, Done, Links, SuggestKeys
  <2>5. \A o \in Session \ {s} : Files(o) => Apart(j, job[o])
    BY <1>0, <1>2, <2>8 DEF Apart
  <2>6. j.id <= requests' /\ requests' \in Nat /\ requests <= requests'
    BY <1>0, <2>7, <2>8
  <2>. QED  BY <2>3, <2>4, <2>5, <2>6, <2>7, JobStep
<1>5. CASE \E p \in Choice : Accept(s, d, p.category, p.tags)
  <2>1. PICK c \in Category, ts \in SUBSET Tag : Accept(s, d, c, ts)
    BY <1>5, ChoiceAssumption
  <2>. DEFINE rows == [NoMetadata EXCEPT !.status = {"accepted"}, !.accepted_category = {c},
                                         !.accepted_tags = {ts}]
              j == Opened("tagging", "accept", d, rows, NoMetadata, AcceptKeys, ts)
  <2>2. /\ rows \in Metadata /\ NoMetadata \in Metadata
        /\ rows.status = {"accepted"} /\ rows.accepted_category = {c}
        /\ rows.accepted_tags = {ts}
    BY DEF NoMetadata, Metadata, Row
  <2>3. j \in Filing
    BY <1>0, <1>1, <2>2, OpenedType DEF Points
  <2>7. /\ job' = [job EXCEPT ![s] = j] /\ requests' = requests + 1
        /\ UNCHANGED <<store, history>> /\ given[d] # {}
    BY <2>1 DEF Accept, Begin
  <2>8. /\ j.pc = "tagging" /\ j.id = requests + 1 /\ j.kind = "accept" /\ j.doc = d
        /\ j.rows = rows /\ j.seen = NoMetadata /\ j.keys = AcceptKeys /\ j.left = ts
        /\ j.inserted = {} /\ j.updated = {} /\ j.new = {} /\ j.put = {}
        /\ j.saw = scored[d]
    BY DEF Opened
  <2>9. \A k \in Key : NoMetadata[k] = {}
    BY DEF NoMetadata, Key, SuggestKeys, AcceptKeys
  <2>. HIDE DEF rows, j
  <2>4. Fit(j)
    BY <1>0, <1>1, <1>3, <2>2, <2>7, <2>8, <2>9 DEF Fit, Done, Links, AcceptKeys
  <2>5. \A o \in Session \ {s} : Files(o) => Apart(j, job[o])
    BY <1>0, <1>2, <2>8 DEF Apart
  <2>6. j.id <= requests' /\ requests' \in Nat /\ requests <= requests'
    BY <1>0, <2>7, <2>8
  <2>. QED  BY <2>3, <2>4, <2>5, <2>6, <2>7, JobStep
<1>. QED  BY <1>4, <1>5

\* What ByRequest says of a request in progress.
LEMMA OfRequest ==
  ASSUME ByRequest, NEW s \in Session, Files(s)
  PROVE  /\ job[s] \in Filing /\ Fit(job[s]) /\ job[s].id <= requests
         /\ job[s].id \in Nat /\ requests \in Nat
BY FilesType, FilingFields DEF ByRequest, TypeOK

\* A document is created: nothing was done with it, and what is done with the
\* others goes on.
LEMMA CreateStep ==
  ASSUME ByRequest, NEW d \in Document, NEW m \in Given, CreateDocument(d, m)
  PROVE  ByRequest'
<1>1. /\ given[d] = {} /\ given'[d] = {m} /\ meta'[d] = m
      /\ \A e \in Document \ {d} : given'[e] = given[e] /\ meta'[e] = meta[e]
      /\ UNCHANGED <<tags, links, linkedByHand, ledger, scored, confirmed, contested, requests, job>>
  BY DEF CreateDocument, ByRequest, TypeOK, history
<1>2. TypeOK'
  BY GivenAssumption DEF ByRequest, TypeOK, CreateDocument, history, Row
<1>3. \A e \in Document : RecordsOf(e)' = RecordsOf(e)
  BY <1>1 DEF RecordsOf
<1>4. RecordsOf(d) = {} /\ scored[d] = 0 /\ confirmed[d] = 0
  BY <1>1 DEF ByRequest, Others, RecordsOf, TypeOK
<1>5. ConfirmedIsSealed'
  BY <1>1, <1>3, <1>4 DEF ByRequest, Others, ConfirmedIsSealed
<1>6. ClassifiedUntilContested'
  BY <1>1, <1>3, <1>4 DEF ByRequest, Others, ClassifiedUntilContested
<1>7. LinksCountedOnce'
  BY <1>1 DEF ByRequest, Others, LinksCountedOnce
<1>8. Others'
  BY <1>1, <1>5, <1>6, <1>7 DEF ByRequest, Others, TypeOK, Acceptance
<1>9. ASSUME NEW o \in Session, Files(o)' PROVE (job[o].id <= requests /\ Fit(job[o]))'
  <2>1. Files(o) /\ job'[o] = job[o]
    BY <1>1, <1>9 DEF Files, At
  <2>2. job[o].id <= requests /\ Fit(job[o]) /\ job[o].doc \in Document
    BY <2>1, OfRequest, FilingFields
  <2>3. job[o].doc # d
    BY <1>1, <2>2 DEF Fit
  <2>5. meta'[job[o].doc] = meta[job[o].doc] /\ given'[job[o].doc] = given[job[o].doc]
    BY <1>1, <2>2, <2>3
  <2>. QED  BY <1>1, <2>1, <2>2, <2>5 DEF Fit, Done
<1>10. ASSUME NEW o \in Session, NEW p \in Session, Files(o)', Files(p)', o # p
       PROVE  Apart(job[o], job[p])'
  BY <1>1, <1>10 DEF ByRequest, Files, At, Apart
<1>. QED  BY <1>2, <1>8, <1>9, <1>10 DEF ByRequest

LEMMA ManualStep ==
  ASSUME ByRequest, NEW s \in Session, NEW t \in Tag,
         CreateTag(s, t) \/ \E d \in Document : LinkTag(s, d, t)
  PROVE  ByRequest'
<1>1. PICK j \in Manual : Begin(s, j)
  BY DEF CreateTag, LinkTag, Manual, Row
<1>2. j.pc \notin Points
  BY DEF Manual, Points
<1>3. requests' \in Nat /\ requests <= requests'
  BY <1>1 DEF Begin, ByRequest, TypeOK
<1>. QED  BY <1>1, <1>2, <1>3, JobStep DEF Begin

LEMMA FailStep ==
  ASSUME ByRequest, NEW s \in Session, Fail(s)
  PROVE  ByRequest'
<1>1. Idle.pc \notin Points
  BY DEF Idle, Points
<1>2. requests' \in Nat /\ requests <= requests'
  BY DEF Fail, Become, ByRequest, TypeOK
<1>. QED  BY <1>1, <1>2, JobStep DEF Fail, Become

\* A step of a scoring or an acceptance that does not flush.
LEMMA ReadStep ==
  ASSUME ByRequest, NEW s \in Session, Files(s), NEW j \in Filing, Become(s, j),
         j.id = job[s].id, j.doc = job[s].doc, j.put = job[s].put, Fit(j)
  PROVE  ByRequest'
<1>1. requests' \in Nat /\ requests <= requests' /\ j.id <= requests'
  BY DEF ByRequest, TypeOK, Become
<1>2. \A o \in Session \ {s} : Files(o) => Apart(j, job[o])
  BY DEF ByRequest, Apart
<1>. QED  BY <1>1, <1>2, JobStep DEF Become

LEMMA FindTagStep ==
  ASSUME ByRequest, NEW s \in Session, NEW t \in Tag, FindTag(s, t)
  PROVE  ByRequest'
<1>1. Files(s) /\ job[s].pc = "tagging" /\ t \in job[s].left
  BY DEF FindTag, At, Files
<1>2. job[s] \in Filing /\ Fit(job[s])
  BY <1>1, OfRequest
<1>. DEFINE f == job[s]
<1>3. CASE t \notin tags
  <2>. DEFINE j == [f EXCEPT !.pc = "untagged", !.at = {t}]
  <2>1. Become(s, j)
    BY <1>3 DEF FindTag
  <2>2. j \in Filing
    BY <1>2 DEF Filing, Row
  <2>3. /\ j.pc = "untagged" /\ j.id = f.id /\ j.kind = f.kind /\ j.doc = f.doc
        /\ j.rows = f.rows /\ j.seen = f.seen /\ j.keys = f.keys /\ j.inserted = f.inserted
        /\ j.updated = f.updated /\ j.left = f.left /\ j.made = f.made /\ j.new = f.new
        /\ j.put = f.put /\ j.saw = f.saw
    BY <1>2 DEF Filing
  <2>. HIDE DEF j
  <2>4. Fit(j)
    BY <1>1, <1>2, <2>3 DEF Fit, Done
  <2>. QED  BY <1>1, <2>1, <2>2, <2>3, <2>4, ReadStep
<1>4. CASE t \in tags
  <2>. DEFINE more == IF <<f.doc, t>> \in links THEN f.new ELSE f.new \cup {t}
              j == [f EXCEPT !.left = f.left \ {t}, !.new = more]
  <2>1. Become(s, j)
    BY <1>4 DEF FindTag
  <2>2. more \subseteq Tag
    BY <1>2, FilingFields
  <2>3. j \in Filing
    BY <1>2, <2>2 DEF Filing
  <2>4. /\ j.pc = f.pc /\ j.id = f.id /\ j.kind = f.kind /\ j.doc = f.doc
        /\ j.rows = f.rows /\ j.seen = f.seen /\ j.keys = f.keys /\ j.inserted = f.inserted
        /\ j.updated = f.updated /\ j.left = f.left \ {t} /\ j.made = f.made /\ j.new = more
        /\ j.put = f.put /\ j.saw = f.saw
    BY <1>2 DEF Filing
  <2>5. f.new \subseteq more /\ (t \in more \/ <<f.doc, t>> \in links)
    OBVIOUS
  <2>. HIDE DEF j, more
  <2>6. \A ts \in f.rows.accepted_tags : Links(f.doc, ts \ ((f.left \ {t}) \cup more)) \subseteq links
    BY <1>2, <2>5 DEF Fit, Links
  <2>7. Fit(j)
    BY <1>1, <1>2, <2>4, <2>5, <2>6 DEF Fit, Done
  <2>. QED  BY <1>1, <2>1, <2>3, <2>4, <2>7, ReadStep
<1>. QED  BY <1>3, <1>4

LEMMA TaggedStep ==
  ASSUME ByRequest, NEW s \in Session, Tagged(s)
  PROVE  ByRequest'
<1>1. Files(s) /\ job[s].pc = "tagging" /\ job[s].left = {}
  BY DEF Tagged, At, Files
<1>2. job[s] \in Filing /\ Fit(job[s])
  BY <1>1, OfRequest
<1>. DEFINE f == job[s]
            j == [f EXCEPT !.pc = "upserting"]
<1>3. Become(s, j)
  BY DEF Tagged
<1>4. j \in Filing
  BY <1>2 DEF Filing
<1>5. /\ j.pc = "upserting" /\ j.id = f.id /\ j.kind = f.kind /\ j.doc = f.doc
      /\ j.rows = f.rows /\ j.seen = f.seen /\ j.keys = f.keys /\ j.inserted = f.inserted
      /\ j.updated = f.updated /\ j.left = f.left /\ j.made = f.made /\ j.new = f.new
      /\ j.put = f.put /\ j.saw = f.saw
  BY <1>2 DEF Filing
<1>. HIDE DEF j
<1>6. Fit(j)
  BY <1>1, <1>2, <1>5 DEF Fit, Done
<1>. QED  BY <1>1, <1>3, <1>4, <1>5, <1>6, ReadStep

LEMMA UpsertStep ==
  ASSUME ByRequest, NEW s \in Session, NEW k \in Key, Upsert(s, k)
  PROVE  ByRequest'
<1>1. Files(s) /\ job[s].pc = "upserting" /\ k \in job[s].keys
  BY DEF Upsert, At, Files
<1>2. job[s] \in Filing /\ Fit(job[s])
  BY <1>1, OfRequest
<1>. DEFINE f == job[s]
            read == IF f.seen[k] # {} THEN f.seen[k] ELSE meta[f.doc][k]
            ins == IF read = {} THEN f.inserted \cup {k} ELSE f.inserted
            upd == IF read \notin {{}, f.rows[k]} THEN f.updated \cup {k} ELSE f.updated
            j == [f EXCEPT !.keys = f.keys \ {k}, !.inserted = ins, !.updated = upd]
<1>3. Become(s, j)
  BY DEF Upsert
<1>4. /\ f.keys \subseteq Key /\ f.inserted \subseteq Key /\ f.updated \subseteq Key
      /\ ins \subseteq Key /\ upd \subseteq Key
  BY <1>2, FilingFields
<1>5. j \in Filing
  BY <1>2, <1>4 DEF Filing
<1>6. /\ j.pc = f.pc /\ j.id = f.id /\ j.kind = f.kind /\ j.doc = f.doc
      /\ j.rows = f.rows /\ j.seen = f.seen /\ j.keys = f.keys \ {k} /\ j.inserted = ins
      /\ j.updated = upd /\ j.left = f.left /\ j.made = f.made /\ j.new = f.new
      /\ j.put = f.put /\ j.saw = f.saw
  BY <1>2 DEF Filing
<1>7. /\ f.inserted \subseteq ins /\ ins \subseteq f.inserted \cup {k}
      /\ f.updated \subseteq upd /\ upd \subseteq f.updated \cup {k}
      /\ read = {} => k \in ins
      /\ read # {} => read = f.rows[k] \/ k \in upd
      /\ f.seen[k] = {} => read = meta[f.doc][k]
      /\ f.seen[k] # {} => read = f.seen[k]
      /\ f.seen[k] = meta[f.doc][k] => read = meta[f.doc][k]
  OBVIOUS
<1>. HIDE DEF j, read, ins, upd
<1>8. j.kind \in {"suggest", "accept"}
  BY <1>5, FilingFields
<1>9. /\ j.kind = "accept" =>
           \A l \in {"accepted_category", "accepted_tags"} \ (j.keys \cup j.inserted \cup j.updated) :
             meta[j.doc][l] = j.rows[l] \/ ConfirmedIn(ledger, j.doc, l, meta[j.doc][l])
      /\ /\ j.kind = "suggest" /\ Records(ledger, j.doc) = {}
         /\ j.seen.status = {"pending"} \/ "status" \notin j.keys \cup j.inserted \cup j.updated
         => meta[j.doc].status = {"pending"}
  <2>1. ASSUME j.kind = "accept", NEW l \in {"accepted_category", "accepted_tags"},
               l \notin j.keys \cup j.inserted \cup j.updated
        PROVE  meta[j.doc][l] = j.rows[l] \/ ConfirmedIn(ledger, j.doc, l, meta[j.doc][l])
    <3>1. CASE l = k
      <4>1. f.seen[k] = {}
        BY <1>2, <1>6, <2>1, <3>1 DEF Fit, AcceptKeys
      <4>. QED  BY <1>6, <1>7, <2>1, <3>1, <4>1
    <3>2. CASE l # k
      <4>1. f.kind = "accept" /\ l \notin f.keys \cup f.inserted \cup f.updated
        BY <1>6, <1>7, <2>1, <3>2
      <4>. QED  BY <1>2, <1>6, <4>1 DEF Fit
    <3>. QED  BY <3>1, <3>2
  <2>2. ASSUME j.kind = "suggest", Records(ledger, j.doc) = {},
               j.seen.status = {"pending"} \/ "status" \notin j.keys \cup j.inserted \cup j.updated
        PROVE  meta[j.doc].status = {"pending"}
    <3>1. CASE f.seen.status = {"pending"} \/ "status" \notin f.keys \cup f.inserted \cup f.updated
      BY <1>2, <1>6, <2>2, <3>1 DEF Fit
    <3>2. CASE f.seen.status # {"pending"} /\ "status" \in f.keys \cup f.inserted \cup f.updated
      <4>1. k = "status" /\ "status" \notin ins \cup upd
        BY <1>6, <1>7, <2>2, <3>2
      <4>2. f.rows.status = {"pending"}
        BY <1>2, <1>6, <2>2 DEF Fit
      <4>. QED  BY <1>6, <1>7, <3>2, <4>1, <4>2
    <3>. QED  BY <3>1, <3>2
  <2>. QED  BY <2>1, <2>2
<1>10. j.doc \notin contested =>
         \A l \in (IF j.kind = "suggest" THEN SuggestKeys ELSE AcceptKeys) \cap Done(j) :
           meta[j.doc][l] = j.rows[l]
  BY <1>1, <1>2, <1>6, <1>7 DEF Fit, Done
<1>11. Fit(j)
  BY <1>1, <1>2, <1>6, <1>7, <1>8, <1>9, <1>10 DEF Fit
<1>. QED  BY <1>1, <1>3, <1>5, <1>6, <1>11, ReadStep

\* A request that flushes its links holds them alone.
LEMMA FlushedLinks ==
  ASSUME ByRequest, NEW s \in Session, Files(s), ~LinkClash(s),
         HoldLinks(s, job[s].doc, job[s].new \ job[s].put) = {}
  PROVE  /\ Links(job[s].doc, job[s].new) \cap links = {}
         /\ \A o \in Session \ {s} :
              Files(o) /\ job[o].doc = job[s].doc => job[s].new \cap job[o].put = {}
<1>1. Fit(job[s])
  BY OfRequest
<1>2. Links(job[s].doc, job[s].new) \cap links = {}
  BY <1>1 DEF Fit, LinkClash, Links
<1>3. ASSUME NEW o \in Session \ {s}, Files(o), job[o].doc = job[s].doc
      PROVE  job[s].new \cap job[o].put = {}
  <2>1. job[o].put \cap (job[s].new \ job[s].put) = {}
    BY <1>3 DEF HoldLinks, FilesOn
  <2>2. job[s].put \cap job[o].put = {}
    BY <1>3 DEF ByRequest, Apart
  <2>. QED  BY <2>1, <2>2
<1>. QED  BY <1>2, <1>3

LEMMA MakeTagStep ==
  ASSUME ByRequest, NEW s \in Session, MakeTag(s)
  PROVE  ByRequest'
<1>1. Files(s) /\ job[s].pc = "untagged"
  BY DEF MakeTag, At, Files
<1>2. job[s] \in Filing /\ Fit(job[s]) /\ job[s].id <= requests /\ requests \in Nat
  BY <1>1, OfRequest
<1>. DEFINE f == job[s]
            j == [f EXCEPT !.pc = "tagging", !.left = f.left \ f.at, !.made = f.made \cup f.at,
                           !.put = f.new, !.new = f.new \cup f.at, !.at = {}]
<1>3. CASE f.at \subseteq tags \/ LinkClash(s)
  <2>1. Fail(s)
    BY <1>3 DEF MakeTag, Fail
  <2>. QED  BY <2>1, FailStep
<1>4. CASE ~(f.at \subseteq tags \/ LinkClash(s))
  <2>1. Become(s, j)
    BY <1>4 DEF MakeTag
  <2>2. f.at \subseteq Tag /\ f.new \subseteq Tag /\ f.left \subseteq Tag /\ f.made \subseteq Tag
    BY <1>2, FilingFields
  <2>3. j \in Filing
    BY <1>2, <2>2 DEF Filing, Row
  <2>4. /\ j.pc = "tagging" /\ j.id = f.id /\ j.kind = f.kind /\ j.doc = f.doc
        /\ j.rows = f.rows /\ j.seen = f.seen /\ j.keys = f.keys /\ j.inserted = f.inserted
        /\ j.updated = f.updated /\ j.left = f.left \ f.at /\ j.new = f.new \cup f.at
        /\ j.put = f.new /\ j.saw = f.saw
    BY <1>2 DEF Filing
  <2>5. HoldLinks(s, f.doc, f.new \ f.put) = {}
    BY <1>1 DEF MakeTag, Waits, Blockers, At
  <2>. HIDE DEF j
  <2>6. \A ts \in f.rows.accepted_tags :
          Links(f.doc, ts \ ((f.left \ f.at) \cup (f.new \cup f.at))) \subseteq links
    BY <1>2 DEF Fit, Links
  <2>7. Fit(j)
    BY <1>1, <1>2, <1>4, <2>4, <2>5, <2>6, FlushedLinks DEF Fit, Done
  <2>8. \A o \in Session \ {s} : Files(o) => Apart(j, job[o])
    BY <1>1, <1>4, <2>4, <2>5, FlushedLinks DEF Apart, ByRequest
  <2>9. requests' \in Nat /\ requests <= requests' /\ j.id <= requests'
    BY <1>2, <2>1, <2>4 DEF Become
  <2>. QED  BY <2>1, <2>3, <2>7, <2>8, <2>9, JobStep DEF Become
<1>. QED  BY <1>3, <1>4

LEMMA FlushStep ==
  ASSUME ByRequest, NEW s \in Session, Flush(s)
  PROVE  ByRequest'
<1>1. Files(s) /\ job[s].pc = "upserting" /\ job[s].keys = {}
  BY DEF Flush, At, Files
<1>2. job[s] \in Filing /\ Fit(job[s]) /\ job[s].id <= requests /\ requests \in Nat
  BY <1>1, OfRequest
<1>. DEFINE f == job[s]
            j == [f EXCEPT !.pc = "flushed", !.put = f.new]
<1>3. CASE RowClash(s) \/ LinkClash(s)
  BY <1>3, FailStep DEF Flush
<1>4. CASE ~(RowClash(s) \/ LinkClash(s))
  <2>1. Become(s, j)
    BY <1>4 DEF Flush
  <2>2. f.new \subseteq Tag
    BY <1>2, FilingFields
  <2>3. j \in Filing
    BY <1>2, <2>2 DEF Filing
  <2>4. /\ j.pc = "flushed" /\ j.id = f.id /\ j.kind = f.kind /\ j.doc = f.doc
        /\ j.rows = f.rows /\ j.seen = f.seen /\ j.keys = f.keys /\ j.inserted = f.inserted
        /\ j.updated = f.updated /\ j.left = f.left /\ j.made = f.made /\ j.new = f.new
        /\ j.put = f.new /\ j.saw = f.saw
    BY <1>2 DEF Filing
  <2>5. HoldLinks(s, f.doc, f.new \ f.put) = {}
    BY <1>1 DEF Flush, Waits, Blockers, At
  <2>. HIDE DEF j
  <2>6. Fit(j)
    BY <1>1, <1>2, <1>4, <2>4, <2>5, FlushedLinks DEF Fit, Done
  <2>7. \A o \in Session \ {s} : Files(o) => Apart(j, job[o])
    BY <1>1, <1>4, <2>4, <2>5, FlushedLinks DEF Apart, ByRequest
  <2>8. requests' \in Nat /\ requests <= requests' /\ j.id <= requests'
    BY <1>2, <2>1, <2>4 DEF Become
  <2>. QED  BY <2>1, <2>3, <2>6, <2>7, <2>8, JobStep DEF Become
<1>. QED  BY <1>3, <1>4

-----------------------------------------------------------------------------
(* The commits *)

\* A request ends; what it leaves behind suits the others.
LEMMA EndStep ==
  ASSUME ByRequest, NEW s \in Session, job' = [job EXCEPT ![s] = Idle],
         UNCHANGED requests, TypeOK', Others',
         \A o \in Session \ {s} : Files(o) /\ job'[o] = job[o] => Fit(job[o])'
  PROVE  ByRequest'
<1>1. job'[s] = Idle /\ \A o \in Session \ {s} : job'[o] = job[o]
  BY DEF ByRequest, TypeOK
<1>2. ~Files(s)'
  BY <1>1 DEF Files, At, Idle
<1>3. \A o \in Session \ {s} : Files(o)' => Files(o)
  BY <1>1 DEF Files, At
<1>4. ASSUME NEW o \in Session, Files(o)' PROVE (job[o].id <= requests /\ Fit(job[o]))'
  <2>1. o # s /\ Files(o) /\ job'[o] = job[o] /\ job[o].id <= requests
    BY <1>1, <1>2, <1>3, <1>4 DEF ByRequest
  <2>. QED  BY <2>1
<1>5. ASSUME NEW o \in Session, NEW p \in Session, Files(o)', Files(p)', o # p
      PROVE  Apart(job[o], job[p])'
  BY <1>1, <1>2, <1>3, <1>5 DEF ByRequest, Apart
<1>. QED  BY <1>4, <1>5 DEF ByRequest

LEMMA CommitTagStep ==
  ASSUME ByRequest, NEW s \in Session, CommitTag(s)
  PROVE  ByRequest'
<1>1. job[s] \in Manual /\ job[s].at \subseteq Tag
  BY DEF ByRequest, TypeOK, CommitTag, At, Manual, Filing, Idle, Row
<1>2. /\ job' = [job EXCEPT ![s] = Idle] /\ tags' = tags \cup job[s].at
      /\ UNCHANGED <<given, meta, links, linkedByHand, ledger, scored, confirmed, contested,
                     requests>>
  BY DEF CommitTag, history
<1>3. TypeOK'
  BY <1>1, <1>2 DEF ByRequest, TypeOK
<1>4. Others'
  BY <1>2
  DEF ByRequest, Others, LinksCountedOnce, ConfirmedIsSealed, ClassifiedUntilContested, RecordsOf
<1>5. ASSUME NEW o \in Session \ {s}, Files(o), job'[o] = job[o] PROVE Fit(job[o])'
  <2>1. Fit(job[o])
    BY <1>5, OfRequest
  <2>. QED  BY <1>2, <1>5, <2>1 DEF Fit, Done
<1>. QED  BY <1>2, <1>3, <1>4, <1>5, EndStep

LEMMA CommitLinkStep ==
  ASSUME ByRequest, NEW s \in Session, CommitLink(s)
  PROVE  ByRequest'
<1>. DEFINE link == Links(job[s].doc, job[s].at)
<1>1. job[s] \in Manual /\ job[s].doc \in Document /\ job[s].at \subseteq Tag
  BY DEF ByRequest, TypeOK, CommitLink, At, Manual, Filing, Idle, Row
<1>2. /\ job' = [job EXCEPT ![s] = Idle] /\ links' = links \cup link
      /\ linkedByHand' = linkedByHand \cup (link \ links)
      /\ UNCHANGED <<given, meta, tags, ledger, scored, confirmed, contested, requests>>
  BY DEF CommitLink, history
<1>3. link \subseteq Document \X Tag
  BY <1>1 DEF Links
<1>4. TypeOK'
  BY <1>1, <1>2, <1>3 DEF ByRequest, TypeOK
<1>5. LinksCountedOnce'
  <2>. DEFINE counted == UNION {Links(r.doc, r.new) : r \in ledger}
  <2>1. links = linkedByHand \cup counted
    BY DEF ByRequest, Others, LinksCountedOnce
  <2>2. links' = linkedByHand' \cup counted
    BY <1>2, <2>1
  <2>3. \A r \in ledger : Links(r.doc, r.new) \subseteq links
    BY <2>1
  <2>4. \A r \in ledger : Links(r.doc, r.new) \cap linkedByHand' = {}
    BY <1>2, <2>3 DEF ByRequest, Others, LinksCountedOnce
  <2>. QED  BY <1>2, <2>2, <2>4 DEF ByRequest, Others, LinksCountedOnce
<1>6. Others'
  BY <1>2, <1>5 DEF ByRequest, Others, ConfirmedIsSealed, ClassifiedUntilContested, RecordsOf
<1>7. ASSUME NEW o \in Session \ {s}, Files(o), job'[o] = job[o] PROVE Fit(job[o])'
  <2>1. Links(job[o].doc, job[o].put) \cap link = {}
    <3>1. job[o].doc = job[s].doc => job[o].put \cap job[s].at = {}
      BY <1>7 DEF CommitLink, Waits, Blockers, HoldLinks, FilesOn, At
    <3>. QED  BY <3>1 DEF Links
  <2>2. Fit(job[o])
    BY <1>7, OfRequest
  <2>. QED  BY <1>2, <1>7, <2>1, <2>2 DEF Fit, Done
<1>. QED  BY <1>2, <1>4, <1>6, <1>7, EndStep

\* A commit changes one document's rows, and adds links that nobody had.
LEMMA CommitFacts ==
  ASSUME ByRequest, NEW s \in Session, Commit(s)
  PROVE  LET f == job[s] IN
         /\ Files(s) /\ f \in Filing /\ Fit(f) /\ f.pc = "flushed"
         /\ f.doc \in Document /\ f.new \subseteq Tag /\ f.saw \in Nat
         /\ f.kind \in {"suggest", "accept"}
         /\ job' = [job EXCEPT ![s] = Idle] /\ UNCHANGED <<given, linkedByHand, requests>>
         /\ meta'[f.doc] = Rows(s)
         /\ \A d \in Document \ {f.doc} : meta'[d] = meta[d]
         /\ \A k \in Key : Rows(s)[k] = After(s, k)
         /\ links' = links \cup Links(f.doc, f.new)
         /\ Links(f.doc, f.new) \cap links = {}
         /\ contested \subseteq contested' /\ contested' \subseteq contested \cup {f.doc}
         /\ \A o \in Session \ {s} : FilesOn(o, f.doc) => f.doc \in contested'
<1>1. Files(s) /\ job[s].pc = "flushed"
  BY DEF Commit, At, Files
<1>2. /\ job[s] \in Filing /\ Fit(job[s]) /\ job[s].doc \in Document /\ job[s].new \subseteq Tag
      /\ job[s].saw \in Nat /\ job[s].kind \in {"suggest", "accept"}
  BY <1>1, OfRequest, FilingFields
<1>3. /\ job' = [job EXCEPT ![s] = Idle] /\ UNCHANGED <<given, linkedByHand, requests>>
      /\ meta' = [meta EXCEPT ![job[s].doc] = Rows(s)]
      /\ links' = links \cup Links(job[s].doc, job[s].new)
  BY DEF Commit
<1>4. /\ meta'[job[s].doc] = Rows(s)
      /\ \A d \in Document \ {job[s].doc} : meta'[d] = meta[d]
  BY <1>2, <1>3 DEF ByRequest, TypeOK
<1>5. \A k \in Key : Rows(s)[k] = After(s, k)
  BY DEF Rows, Key, SuggestKeys, AcceptKeys
<1>6. Links(job[s].doc, job[s].new) \cap links = {}
  BY <1>1, <1>2 DEF Fit
<1>7. /\ contested \subseteq contested' /\ contested' \subseteq contested \cup {job[s].doc}
      /\ \A o \in Session \ {s} : FilesOn(o, job[s].doc) => job[s].doc \in contested'
  BY DEF Commit
<1>. QED  BY <1>1, <1>2, <1>3, <1>4, <1>5, <1>6, <1>7

\* What the commit of an acceptance adds to the ledger.
Added(s, r) ==
  /\ ledger' = ledger \cup {r}
  /\ r.id = job[s].id /\ r.doc = job[s].doc /\ r.new = job[s].new
  /\ job[s].rows.accepted_category = {r.category} /\ job[s].rows.accepted_tags = {r.tags}

LEMMA AcceptanceAdds ==
  ASSUME ByRequest, NEW s \in Session, Commit(s), job[s].kind = "accept"
  PROVE  /\ \E r \in Acceptance : Added(s, r)
         /\ UNCHANGED scored
         /\ confirmed' = [confirmed EXCEPT ![job[s].doc] =
                            IF job[s].saw > @ THEN job[s].saw ELSE @]
<1>1. /\ job[s] \in Filing /\ Fit(job[s]) /\ job[s].rows \in Metadata /\ job[s].id \in Nat
      /\ job[s].doc \in Document /\ job[s].new \subseteq Tag
  BY CommitFacts, FilingFields
<1>2. PICK c \in job[s].rows.accepted_category, ts \in job[s].rows.accepted_tags :
        ledger' = ledger \cup {[id |-> job[s].id, doc |-> job[s].doc, category |-> c,
                                tags |-> ts, new |-> job[s].new]}
  BY DEF Commit, Record
<1>. DEFINE r == [id |-> job[s].id, doc |-> job[s].doc, category |-> c,
                  tags |-> ts, new |-> job[s].new]
<1>3. job[s].rows.accepted_category = {c} /\ job[s].rows.accepted_tags = {ts}
      /\ c \in Category /\ ts \subseteq Tag
  BY <1>1, <1>2 DEF Metadata, Row
<1>4. r \in Acceptance
  BY <1>1, <1>3 DEF Acceptance
<1>5. Added(s, r)
  BY <1>2, <1>3 DEF Added
<1>. QED  BY <1>4, <1>5 DEF Commit

LEMMA CommitType ==
  ASSUME ByRequest, NEW s \in Session, Commit(s)
  PROVE  TypeOK'
<1>1. TypeOK /\ Rows(s) \in Metadata
  BY CommitFacts, RowsType DEF ByRequest
<1>2. /\ job[s].doc \in Document /\ job[s].new \subseteq Tag /\ job[s].made \subseteq Tag
      /\ job[s].saw \in Nat /\ job[s].kind \in {"suggest", "accept"}
  BY CommitFacts, FilingFields
<1>3. /\ given' \in [Document -> Row(Given)] /\ meta' \in [Document -> Metadata] /\ tags' \subseteq Tag
      /\ links' \subseteq Document \X Tag /\ linkedByHand' \subseteq links'
      /\ contested' \subseteq Document /\ requests' \in Nat
      /\ job' \in [Session -> Filing \cup Manual \cup {Idle}]
  BY <1>1, <1>2 DEF Commit, TypeOK, Links
<1>4. ledger' \subseteq Acceptance /\ scored' \in [Document -> Nat] /\ confirmed' \in [Document -> Nat]
  <2>1. CASE job[s].kind = "accept"
    BY <1>1, <1>2, <2>1, AcceptanceAdds DEF TypeOK, Added
  <2>2. CASE job[s].kind = "suggest"
    BY <1>1, <1>2, <2>2 DEF TypeOK, Commit
  <2>. QED  BY <1>2, <2>1, <2>2
<1>. QED  BY <1>3, <1>4 DEF TypeOK

LEMMA CommitLinks ==
  ASSUME ByRequest, NEW s \in Session, Commit(s)
  PROVE  LinksCountedOnce'
<1>. DEFINE f == job[s]
<1>1. /\ links' = links \cup Links(f.doc, f.new) /\ Links(f.doc, f.new) \cap links = {}
      /\ linkedByHand' = linkedByHand /\ Fit(f) /\ f.pc = "flushed" /\ f.kind \in {"suggest", "accept"}
  BY CommitFacts
<1>2. LinksCountedOnce /\ linkedByHand \subseteq links
  BY DEF ByRequest, Others, TypeOK
<1>3. CASE f.kind = "suggest"
  <2>1. ledger' = ledger /\ links' = links
    BY <1>1, <1>3 DEF Commit, Fit, Links
  <2>. QED  BY <1>1, <1>2, <2>1 DEF LinksCountedOnce
<1>4. CASE f.kind = "accept"
  <2>1. PICK r \in Acceptance : Added(s, r)
    BY <1>4, AcceptanceAdds
  <2>2. Links(r.doc, r.tags) \subseteq links'
    BY <1>1, <2>1 DEF Added, Fit, Links
  <2>3. \A q \in ledger : Links(q.doc, q.new) \subseteq links
    BY <1>2 DEF LinksCountedOnce
  <2>4. \A q \in ledger : q.doc = r.doc => q.new \cap r.new = {}
    <3>1. r.doc = f.doc /\ r.new = f.new
      BY <2>1 DEF Added
    <3>2. ASSUME NEW q \in ledger, q.doc = r.doc, NEW t \in q.new, t \in r.new PROVE FALSE
      <4>1. <<f.doc, t>> \in Links(q.doc, q.new) /\ <<f.doc, t>> \in Links(f.doc, f.new)
        BY <3>1, <3>2 DEF Links
      <4>. QED  BY <1>1, <2>3, <4>1
    <3>. QED  BY <3>2
  <2>5. Links(r.doc, r.new) \cap linkedByHand = {}
    BY <1>1, <1>2, <2>1 DEF Added
  <2>6. links' = linkedByHand \cup UNION {Links(q.doc, q.new) : q \in ledger'}
    <3>1. links = linkedByHand \cup UNION {Links(q.doc, q.new) : q \in ledger}
      BY <1>2 DEF LinksCountedOnce
    <3>2. links' = links \cup Links(r.doc, r.new) /\ ledger' = ledger \cup {r}
      BY <1>1, <2>1 DEF Added
    <3>3. ASSUME NEW x PROVE x \in links' <=>
            x \in linkedByHand \/ \E q \in ledger' : x \in Links(q.doc, q.new)
      BY <3>1, <3>2
    <3>. QED  BY <3>3
  <2>7. \A q \in ledger' : q \in ledger \/ q = r
    BY <2>1 DEF Added
  <2>8. \A q \in ledger' : Links(q.doc, q.tags) \subseteq links'
    BY <1>1, <1>2, <2>2, <2>7 DEF LinksCountedOnce
  <2>9. \A q, p \in ledger' : q.doc = p.doc /\ q # p => q.new \cap p.new = {}
    BY <1>2, <2>4, <2>7 DEF LinksCountedOnce
  <2>10. \A q \in ledger' : Links(q.doc, q.new) \cap linkedByHand' = {}
    BY <1>1, <1>2, <2>5, <2>7 DEF LinksCountedOnce
  <2>. QED  BY <1>1, <2>6, <2>8, <2>9, <2>10 DEF LinksCountedOnce
<1>. QED  BY <1>1, <1>3, <1>4

\* What the commit of a scoring does to the ledger and the counts.
LEMMA ScoringAdds ==
  ASSUME ByRequest, NEW s \in Session, Commit(s), job[s].kind = "suggest"
  PROVE  /\ UNCHANGED <<ledger, confirmed>>
         /\ scored' = [scored EXCEPT ![job[s].doc] = @ + 1]
BY DEF Commit

\* The records of the other documents stay what they were, those of the
\* committed one may become more; and so with the scorings.
LEMMA CommitRecords ==
  ASSUME ByRequest, NEW s \in Session, Commit(s)
  PROVE  /\ ledger \subseteq ledger'
         /\ \A d \in Document : Records(ledger, d) \subseteq Records(ledger', d)
         /\ \A d \in Document \ {job[s].doc} :
              Records(ledger', d) = Records(ledger, d) /\ scored'[d] = scored[d] /\ confirmed'[d] = confirmed[d]
<1>1. job[s].kind \in {"suggest", "accept"} /\ job[s].doc \in Document
  BY CommitFacts
<1>2. scored \in [Document -> Nat] /\ confirmed \in [Document -> Nat]
  BY DEF ByRequest, TypeOK
<1>3. CASE job[s].kind = "accept"
  <2>1. PICK r \in Acceptance : Added(s, r)
    BY <1>3, AcceptanceAdds
  <2>2. ledger' = ledger \cup {r} /\ r.doc = job[s].doc
    BY <2>1 DEF Added
  <2>. QED  BY <1>2, <1>3, <2>2, AcceptanceAdds DEF Records
<1>4. CASE job[s].kind = "suggest"
  BY <1>2, <1>4, ScoringAdds DEF Records
<1>. QED  BY <1>1, <1>3, <1>4

\* The commit of a scoring leaves the confirmed values alone, and leaves a
\* document pending that nobody has accepted.
LEMMA ScoringRows ==
  ASSUME ByRequest, NEW s \in Session, Commit(s), job[s].kind = "suggest"
  PROVE  LET d == job[s].doc IN
         /\ meta'[d].accepted_category = meta[d].accepted_category
         /\ meta'[d].accepted_tags = meta[d].accepted_tags
         /\ Records(ledger, d) = {} => meta'[d].status = {"pending"}
         /\ meta[d].status = {"pending"} => meta'[d].status = {"pending"}
<1>1. /\ Fit(job[s]) /\ job[s].pc = "flushed" /\ meta'[job[s].doc] = Rows(s)
  BY CommitFacts
<1>. QED  BY <1>1 DEF Fit, Rows, After, Written, SuggestKeys

\* The commit of an acceptance leaves each confirmed value as its own, or that
\* of another acceptance.
LEMMA AcceptanceRows ==
  ASSUME ByRequest, NEW s \in Session, Commit(s), job[s].kind = "accept",
         NEW k \in {"accepted_category", "accepted_tags"}
  PROVE  LET d == job[s].doc IN
         ConfirmedIn(ledger', d, k, meta'[d][k])
<1>1. /\ Fit(job[s]) /\ job[s].pc = "flushed" /\ meta'[job[s].doc] = Rows(s)
      /\ \A l \in Key : Rows(s)[l] = After(s, l)
  BY CommitFacts
<1>2. PICK r \in Acceptance : Added(s, r)
  BY AcceptanceAdds
<1>3. r \in Records(ledger', job[s].doc) /\ Records(ledger, job[s].doc) \subseteq Records(ledger', job[s].doc)
  BY <1>2 DEF Added, Records
<1>4. Confirms(r, k, job[s].rows[k])
  BY <1>2 DEF Added, Confirms
<1>5. ConfirmedIn(ledger', job[s].doc, k, job[s].rows[k])
  BY <1>3, <1>4 DEF ConfirmedIn
<1>6. CASE k \in Written(s)
  BY <1>1, <1>5, <1>6 DEF After, Key, AcceptKeys
<1>7. CASE k \notin Written(s)
  <2>1. meta'[job[s].doc][k] = meta[job[s].doc][k]
    BY <1>1, <1>7 DEF After, Key, AcceptKeys
  <2>2. k \notin job[s].keys \cup job[s].inserted \cup job[s].updated
    BY <1>1, <1>7 DEF Fit, Written
  <2>3. \/ meta[job[s].doc][k] = job[s].rows[k]
        \/ ConfirmedIn(ledger, job[s].doc, k, meta[job[s].doc][k])
    BY <1>1, <2>2 DEF Fit
  <2>. QED  BY <1>3, <1>5, <2>1, <2>3 DEF ConfirmedIn
<1>. QED  BY <1>6, <1>7

\* What ClassifiedUntilContested says of one document.
ClassifiedAs(d) ==
  /\ Records(ledger, d) # {} =>
       \E r \in Records(ledger, d) : /\ {r.category} = meta[d].accepted_category
                                     /\ {r.tags} = meta[d].accepted_tags
  /\ meta[d].status = {"accepted"} => confirmed[d] = scored[d]
  /\ meta[d].status = {"pending"} =>
       confirmed[d] < scored[d] \/ (scored[d] = 0 /\ Records(ledger, d) = {})

LEMMA ClassifiedEach ==
  ClassifiedUntilContested <=> \A d \in Document \ contested : ClassifiedAs(d)
BY DEF ClassifiedUntilContested, ClassifiedAs, RecordsOf, Records

LEMMA CommitSealed ==
  ASSUME ByRequest, NEW s \in Session, Commit(s)
  PROVE  ConfirmedIsSealed'
<1>. DEFINE f == job[s]
<1>1. /\ f.kind \in {"suggest", "accept"} /\ f.doc \in Document /\ given' = given
      /\ \A d \in Document \ {f.doc} : meta'[d] = meta[d]
  BY CommitFacts
<1>2. ConfirmedIsSealed
  BY DEF ByRequest, Others
<1>3. SUFFICES ASSUME NEW d \in Document
               PROVE  IF Records(ledger', d) # {}
                      THEN /\ ConfirmedIn(ledger', d, "accepted_category", meta'[d].accepted_category)
                           /\ ConfirmedIn(ledger', d, "accepted_tags", meta'[d].accepted_tags)
                      ELSE \A m \in given[d] :
                           /\ meta'[d].accepted_category = m.accepted_category
                           /\ meta'[d].accepted_tags = m.accepted_tags
                           /\ meta'[d].status = {"accepted"} =>
                                m.status = {"accepted"} /\ scored'[d] = 0
  BY <1>1 DEF ConfirmedIsSealed, RecordsOf, Records, ConfirmedIn, Confirms
<1>4. CASE d # f.doc
  <2>1. /\ Records(ledger', d) = Records(ledger, d)
        /\ scored'[d] = scored[d] /\ meta'[d] = meta[d]
    BY <1>1, <1>4, CommitRecords
  <2>. QED  BY <1>2, <2>1 DEF ConfirmedIsSealed, RecordsOf, Records, ConfirmedIn, Confirms
<1>5. CASE d = f.doc /\ f.kind = "suggest"
  <2>1. ledger' = ledger
    BY <1>5, ScoringAdds
  <2>2. /\ meta'[d].accepted_category = meta[d].accepted_category
        /\ meta'[d].accepted_tags = meta[d].accepted_tags
        /\ Records(ledger, d) = {} => meta'[d].status # {"accepted"}
    BY <1>5, ScoringRows
  <2>. QED  BY <1>2, <2>1, <2>2 DEF ConfirmedIsSealed, RecordsOf, Records, ConfirmedIn, Confirms
<1>6. CASE d = f.doc /\ f.kind = "accept"
  <2>1. /\ ConfirmedIn(ledger', d, "accepted_category", meta'[d].accepted_category)
        /\ ConfirmedIn(ledger', d, "accepted_tags", meta'[d].accepted_tags)
    BY <1>6, AcceptanceRows
  <2>. QED  BY <2>1 DEF ConfirmedIn
<1>. QED  BY <1>1, <1>4, <1>5, <1>6

LEMMA CommitOthers ==
  ASSUME ByRequest, NEW s \in Session, Commit(s)
  PROVE  Others'
<1>. DEFINE f == job[s]
<1>1. /\ Fit(f) /\ f.pc = "flushed" /\ f.kind \in {"suggest", "accept"} /\ f.doc \in Document
      /\ meta'[f.doc] = Rows(s) /\ \A d \in Document \ {f.doc} : meta'[d] = meta[d]
      /\ contested \subseteq contested' /\ f.saw \in Nat /\ requests' = requests /\ Files(s)
      /\ given' = given /\ given[f.doc] # {}
  BY CommitFacts DEF Fit
<1>2. /\ scored \in [Document -> Nat] /\ confirmed \in [Document -> Nat]
      /\ \A d \in Document : confirmed[d] <= scored[d]
      /\ \A r \in ledger : r.id <= requests
      /\ f.id <= requests /\ f.saw <= scored[f.doc] /\ ClassifiedUntilContested
  BY <1>1 DEF ByRequest, Others, TypeOK, Fit
<1>5. \A d \in Document : given'[d] = {} => meta'[d] = NoMetadata /\ scored'[d] = 0
  BY <1>1, CommitRecords DEF ByRequest, Others
<1>6. \A d \in Document \ {f.doc} : Records(ledger', d) = Records(ledger, d)
  BY CommitRecords
<1>3. CASE f.kind = "suggest"
  <2>1. /\ ledger' = ledger /\ confirmed' = confirmed
        /\ scored' = [scored EXCEPT ![f.doc] = @ + 1]
    BY <1>3 DEF Commit
  <2>2. f.doc \notin contested => meta'[f.doc].status = {"pending"}
    BY <1>1, <1>3 DEF Fit, Done, Rows, After, Written, Key, SuggestKeys
  <2>3. /\ meta'[f.doc].accepted_category = meta[f.doc].accepted_category
        /\ meta'[f.doc].accepted_tags = meta[f.doc].accepted_tags
    BY <1>3, ScoringRows
  <2>4. \A d \in Document : confirmed'[d] <= scored'[d]
    BY <1>2, <2>1
  <2>5. confirmed'[f.doc] < scored'[f.doc]
    BY <1>1, <1>2, <2>1
  <2>6. \A d \in Document \ {f.doc} : scored'[d] = scored[d] /\ confirmed'[d] = confirmed[d]
    BY <1>2, <2>1
  <2>7. ClassifiedUntilContested'
    <3>1. \A d \in Document : Records(ledger', d) = Records(ledger, d)
      BY <2>1
    <3>2. SUFFICES ASSUME NEW d \in Document \ contested' PROVE ClassifiedAs(d)'
      BY DEF ClassifiedUntilContested, ClassifiedAs, RecordsOf, Records
    <3>. QED  BY <1>1, <1>2, <2>2, <2>3, <2>5, <2>6, <3>1, ClassifiedEach DEF ClassifiedAs
  <2>8. \A r \in ledger' : given'[r.doc] # {}
    BY <1>1, <2>1 DEF ByRequest, Others
  <2>. QED  BY <1>1, <1>2, <1>5, <2>1, <2>4, <2>7, <2>8, CommitLinks, CommitSealed DEF Others
<1>4. CASE f.kind = "accept"
  <2>1. PICK r \in Acceptance : Added(s, r)
    BY <1>4, AcceptanceAdds
  <2>2. /\ scored' = scored
        /\ confirmed' = [confirmed EXCEPT ![f.doc] = IF f.saw > @ THEN f.saw ELSE @]
    BY <1>4, AcceptanceAdds
  <2>3. ledger' = ledger \cup {r} /\ r.id = f.id /\ r.doc = f.doc
    BY <2>1 DEF Added
  <2>4. \A d \in Document : confirmed'[d] <= scored'[d]
    BY <1>1, <1>2, <2>2
  <2>5. \A q \in ledger' : q.id <= requests
    BY <1>2, <2>3
  <2>6. f.doc \notin contested =>
          /\ meta'[f.doc].status = {"accepted"}
          /\ meta'[f.doc].accepted_category = {r.category}
          /\ meta'[f.doc].accepted_tags = {r.tags}
    BY <1>1, <1>4, <2>1 DEF Added, Fit, Done, Rows, After, Written, Key, AcceptKeys
  <2>7. f.doc \notin contested => confirmed'[f.doc] = scored'[f.doc]
    BY <1>1, <1>2, <2>2 DEF Fit
  <2>8. \A d \in Document \ {f.doc} : scored'[d] = scored[d] /\ confirmed'[d] = confirmed[d]
    BY <1>2, <2>2
  <2>9. ClassifiedUntilContested'
    <3>1. r \in Records(ledger', f.doc)
      BY <2>3 DEF Records
    <3>2. SUFFICES ASSUME NEW d \in Document \ contested' PROVE ClassifiedAs(d)'
      BY DEF ClassifiedUntilContested, ClassifiedAs, RecordsOf, Records
    <3>3. CASE d = f.doc
      BY <1>1, <2>6, <2>7, <3>1, <3>3 DEF ClassifiedAs
    <3>4. CASE d # f.doc
      BY <1>1, <1>2, <1>6, <2>8, <3>4, ClassifiedEach DEF ClassifiedAs
    <3>. QED  BY <3>3, <3>4
  <2>10. \A q \in ledger' : given'[q.doc] # {}
    BY <1>1, <2>3 DEF ByRequest, Others
  <2>. QED  BY <1>1, <1>5, <2>4, <2>5, <2>9, <2>10, CommitLinks, CommitSealed DEF Others
<1>. QED  BY <1>1, <1>3, <1>4

\* A commit suits the other requests.
LEMMA CommitFits ==
  ASSUME ByRequest, NEW s \in Session, Commit(s), NEW o \in Session \ {s}, Files(o),
         job'[o] = job[o]
  PROVE  Fit(job[o])'
<1>. DEFINE f == job[s]
            g == job[o]
<1>1. /\ Files(s) /\ Fit(f) /\ f.pc = "flushed" /\ f.kind \in {"suggest", "accept"}
      /\ f.doc \in Document /\ meta'[f.doc] = Rows(s)
      /\ \A d \in Document \ {f.doc} : meta'[d] = meta[d]
      /\ \A k \in Key : Rows(s)[k] = After(s, k)
      /\ links' = links \cup Links(f.doc, f.new) /\ contested \subseteq contested'
      /\ (FilesOn(o, f.doc) => f.doc \in contested')
  BY CommitFacts
<1>2. /\ g \in Filing /\ Fit(g) /\ g.doc \in Document /\ g.saw \in Nat /\ Apart(g, f)
  BY <1>1, OfRequest, FilingFields DEF ByRequest
<1>3. \A r \in ledger' : r.id # g.id
  <2>1. CASE f.kind = "accept"
    BY <1>2, <2>1, AcceptanceAdds DEF Added, Apart, Fit
  <2>2. CASE f.kind = "suggest"
    BY <1>2, <2>2 DEF Commit, Fit
  <2>. QED  BY <1>1, <2>1, <2>2
<1>4. /\ scored'[g.doc] \in Nat /\ scored[g.doc] <= scored'[g.doc]
      /\ g.doc # f.doc => scored'[g.doc] = scored[g.doc]
  <2>1. CASE f.kind = "accept"
    BY <1>2, <2>1, AcceptanceAdds DEF ByRequest, TypeOK
  <2>2. CASE f.kind = "suggest"
    BY <1>1, <1>2, <2>2 DEF Commit, ByRequest, TypeOK
  <2>. QED  BY <1>1, <2>1, <2>2
<1>5. g.saw <= scored'[g.doc]
  BY <1>2, <1>4 DEF Fit, ByRequest, TypeOK
<1>6. g.kind = "accept" =>
        \A k \in {"accepted_category", "accepted_tags"} \ (g.keys \cup g.inserted \cup g.updated) :
          meta'[g.doc][k] = g.rows[k] \/ ConfirmedIn(ledger', g.doc, k, meta'[g.doc][k])
  <2>1. ASSUME g.kind = "accept", NEW k \in {"accepted_category", "accepted_tags"},
               k \notin g.keys \cup g.inserted \cup g.updated
        PROVE  meta'[g.doc][k] = g.rows[k] \/ ConfirmedIn(ledger', g.doc, k, meta'[g.doc][k])
    <3>1. meta[g.doc][k] = g.rows[k] \/ ConfirmedIn(ledger, g.doc, k, meta[g.doc][k])
      BY <1>2, <2>1 DEF Fit
    <3>2. Records(ledger, g.doc) \subseteq Records(ledger', g.doc)
      BY <1>2, CommitRecords
    <3>3. CASE meta'[g.doc][k] = meta[g.doc][k]
      BY <3>1, <3>2, <3>3 DEF ConfirmedIn
    <3>4. CASE meta'[g.doc][k] # meta[g.doc][k]
      <4>1. g.doc = f.doc /\ f.kind = "accept"
        BY <1>1, <1>2, <2>1, <3>4, ScoringRows
      <4>. QED  BY <4>1, AcceptanceRows
    <3>. QED  BY <3>3, <3>4
  <2>. QED  BY <2>1
<1>10. g.kind = "suggest" /\ Records(ledger', g.doc) = {} /\ meta[g.doc].status = {"pending"}
         => meta'[g.doc].status = {"pending"}
  <2>1. CASE g.doc # f.doc
    BY <1>1, <1>2, <2>1
  <2>2. CASE g.doc = f.doc /\ f.kind = "suggest"
    BY <2>2, ScoringRows
  <2>3. CASE g.doc = f.doc /\ f.kind = "accept"
    BY <2>3, AcceptanceAdds DEF Added, Records
  <2>. QED  BY <1>1, <2>1, <2>2, <2>3
<1>11. given' = given /\ (Records(ledger', g.doc) = {} => Records(ledger, g.doc) = {})
  BY <1>2, CommitRecords, CommitFacts
<1>7. Links(g.doc, g.put) \cap links' = {}
  BY <1>1, <1>2 DEF Fit, Apart, Links
<1>8. \A ts \in g.rows.accepted_tags : Links(g.doc, ts \ (g.left \cup g.new)) \subseteq links'
  BY <1>1, <1>2 DEF Fit
<1>9. g.doc \notin contested' =>
        g.doc \notin contested /\ meta'[g.doc] = meta[g.doc] /\ scored'[g.doc] = scored[g.doc]
  BY <1>1, <1>2, <1>4 DEF FilesOn
<1>. QED  BY <1>2, <1>3, <1>5, <1>6, <1>7, <1>8, <1>9, <1>10, <1>11 DEF Fit, Done

LEMMA CommitStep ==
  ASSUME ByRequest, NEW s \in Session, Commit(s)
  PROVE  ByRequest'
<1>1. job' = [job EXCEPT ![s] = Idle] /\ UNCHANGED requests
  BY CommitFacts
<1>2. \A o \in Session \ {s} : Files(o) /\ job'[o] = job[o] => Fit(job[o])'
  BY CommitFits
<1>. QED  BY <1>1, <1>2, CommitType, CommitOthers, EndStep

-----------------------------------------------------------------------------
(* The theorems *)

LEMMA NextStep == ByRequest /\ [Next]_vars => ByRequest'
<1>. SUFFICES ASSUME ByRequest, [Next]_vars PROVE ByRequest'
  OBVIOUS
<1>1. CASE UNCHANGED vars
  <2>1. UNCHANGED <<given, meta, tags, links, linkedByHand, ledger, scored, confirmed, contested,
                    requests, job>>
    BY <1>1 DEF vars, store, history
  <2>2. TypeOK'
    BY <2>1 DEF ByRequest, TypeOK
  <2>3. Others'
    BY <2>1 DEF ByRequest, Others, TypeOK, LinksCountedOnce, ConfirmedIsSealed,
       ClassifiedUntilContested, RecordsOf
  <2>4. ASSUME NEW s \in Session, Files(s)' PROVE (job[s].id <= requests /\ Fit(job[s]))'
    <3>1. Files(s) /\ job'[s] = job[s]
      BY <2>1, <2>4 DEF Files, At
    <3>2. job[s].id <= requests /\ Fit(job[s])
      BY <3>1 DEF ByRequest
    <3>. QED  BY <2>1, <3>1, <3>2 DEF Fit, Done
  <2>5. ASSUME NEW s \in Session, NEW t \in Session, Files(s)', Files(t)', s # t
        PROVE  Apart(job[s], job[t])'
    BY <2>1, <2>5 DEF ByRequest, Files, At, Apart
  <2>. QED  BY <2>2, <2>3, <2>4, <2>5 DEF ByRequest
<1>2. ASSUME NEW s \in Session,
             \/ \E d \in Document :
                  \/ \E c \in Category : Suggest(s, d, c)
                  \/ \E p \in Choice : Accept(s, d, p.category, p.tags)
                  \/ \E t \in Tag : LinkTag(s, d, t)
             \/ \E t \in Tag : CreateTag(s, t)
      PROVE  ByRequest'
  BY <1>2, BeginStep, ManualStep
<1>3. ASSUME NEW s \in Session, Step(s) PROVE ByRequest'
  BY <1>3, FindTagStep, MakeTagStep, TaggedStep, UpsertStep, FlushStep, CommitStep,
     CommitTagStep, CommitLinkStep, FailStep DEF Step, Deadlock
<1>4. ASSUME NEW s \in Session, Abort(s) PROVE ByRequest'
  BY <1>4, FailStep DEF Abort
<1>5. ASSUME NEW d \in Document, NEW m \in Given, CreateDocument(d, m) PROVE ByRequest'
  BY <1>5, CreateStep
<1>. QED  BY <1>1, <1>2, <1>3, <1>4, <1>5 DEF Next

\* What the requests in progress have read, hold and will write is always such
\* that their commits keep what the properties of Classification say.
THEOREM ClassificationInvariant == Spec => []ClassInv
<1>1. Init => ClassInv
  BY InitClass
<1>2. ClassInv /\ [Next]_vars => ClassInv'
  <2>1. ClassInv' <=> ByRequest'
    BY ClassInvByRequest, PTL
  <2>. QED  BY <2>1, ClassInvByRequest, NextStep
<1>. QED  BY <1>1, <1>2, PTL DEF Spec

\* Every tag of a sealed acceptance is linked, and each link was counted once.
THEOREM LinksAreCountedOnce == Spec => []LinksCountedOnce
<1>1. ClassInv => LinksCountedOnce
  BY DEF ClassInv
<1>. QED  BY <1>1, ClassificationInvariant, PTL

\* Once the ledger holds an acceptance of a document, each value that is shown
\* as confirmed is one of such an acceptance; before, it is what the client sent.
THEOREM ConfirmedIsInTheLedger == Spec => []ConfirmedIsSealed
<1>1. ClassInv => ConfirmedIsSealed
  BY DEF ClassInv
<1>. QED  BY <1>1, ClassificationInvariant, PTL

\* The metadata of a document tells one acceptance once there is one, and its
\* status is true, until two requests about the document overlap.
THEOREM ClassifiedWhileAlone == Spec => []ClassifiedUntilContested
<1>1. ClassInv => ClassifiedUntilContested
  BY DEF ClassInv
<1>. QED  BY <1>1, ClassificationInvariant, PTL

LEMMA ShownStep ==
  ASSUME ByRequest, [Next]_vars, NEW d \in Document,
         meta[d].accepted_category # {}, Shown(d)' # Shown(d)
  PROVE  ledger' # ledger
<1>1. meta'[d] # meta[d]
  BY DEF Shown
<1>6. given[d] # {}
  BY DEF ByRequest, Others, NoMetadata
<1>7. ~\E e \in Document, m \in Given : CreateDocument(e, m)
  BY <1>1, <1>6 DEF CreateDocument, ByRequest, TypeOK
<1>2. PICK s \in Session : Commit(s)
  BY <1>1, <1>7 DEF Next, Step, Suggest, Accept, LinkTag, CreateTag, FindTag, MakeTag, Tagged, Upsert,
     Flush, CommitTag, CommitLink, Deadlock, Abort, Fail, Begin, Become, store, vars
<1>3. /\ Fit(job[s]) /\ job[s].kind \in {"suggest", "accept"} /\ meta'[job[s].doc] = Rows(s)
      /\ \A e \in Document \ {job[s].doc} : meta'[e] = meta[e]
  BY <1>2, CommitFacts
<1>4. CASE job[s].kind = "suggest"
  <2>1. meta'[d].accepted_category = meta[d].accepted_category
    BY <1>1, <1>3, <1>4 DEF Fit, Rows, After, Written, SuggestKeys
  <2>. QED  BY <2>1 DEF Shown
<1>5. CASE job[s].kind = "accept"
  BY <1>2, <1>3, <1>5, AcceptanceAdds DEF Added, Fit
<1>. QED  BY <1>3, <1>4, <1>5

\* Once a category is confirmed, only another acceptance, with a record of its
\* own, changes the category that is shown.
THEOREM OnlyAcceptanceChangesShown == Spec => ConfirmedIsShown
<1>1. ClassInv /\ [Next]_vars =>
        [\A d \in Document :
           meta[d].accepted_category # {} /\ Shown(d)' # Shown(d) => ledger' # ledger]_vars
  BY ClassInvByRequest, ShownStep
<1>. QED  BY <1>1, ClassificationInvariant, PTL DEF Spec, ConfirmedIsShown
=============================================================================
