--------------------------- MODULE Classification ---------------------------
(***************************************************************************)
(* ClassificationService (backend/app/classification.py): a document is    *)
(* scored and the suggestion kept in its metadata; an officer accepts or   *)
(* overrides it, which tags the document and is sealed in the ledger.      *)
(*                                                                         *)
(* Metadata is one row per key.  _upsert_metadata reads a row and changes  *)
(* the object in memory; the flush sends an INSERT for a row that was not  *)
(* there and an UPDATE for a value that differs from the one read, and     *)
(* nothing for a value that does not.  The database is READ COMMITTED:     *)
(* two INSERTs of a unique key, or two UPDATEs of a row, wait for each     *)
(* other; then the INSERT fails, the UPDATE goes ahead.  Requests that     *)
(* wait in a circle are found by the database, which fails one of them.    *)
(*                                                                         *)
(* A document is created with whatever keys the client sends              *)
(* (DocumentService.create), those of a classification included.           *)
(*                                                                         *)
(* Names are taken to be normalised, and no value to be empty.  The key    *)
(* "category" stands for all that a scoring writes besides the status.     *)
(***************************************************************************)
EXTENDS Naturals

CONSTANTS
  Session,      \* concurrent requests
  Document,
  Category,
  Tag,          \* tag names
  Given,        \* what clients send as the metadata of a new document
  Choice,       \* the categories and tags that officers confirm together
  MaxRequests   \* bound: requests begun

ASSUME MaxRequestsAssumption == MaxRequests \in Nat

VARIABLES
  given,       \* the metadata each document was created with; {} before it is
  meta,        \* document_metadata, by document and key
  tags,        \* classification_tags
  links,       \* document_tags
  linkedByHand,\* the links that link_tag() made
  ledger,      \* records ml_suggestions_accepted
  scored,      \* how often each document was scored
  confirmed,   \* the last scoring that an acceptance of the document has seen
  contested,   \* documents two of whose scorings and acceptances overlapped
  requests,    \* requests begun
  job          \* what each request is doing

store == <<given, meta, tags, links, linkedByHand, ledger>>
history == <<scored, confirmed, contested>>
vars == <<store, history, requests, job>>

SuggestKeys == {"category", "status"}
AcceptKeys == {"status", "accepted_category", "accepted_tags"}
Key == SuggestKeys \cup AcceptKeys

\* A row is the set of its value; one that does not exist is empty.
Row(values) == {{}} \cup {{v} : v \in values}
Metadata == [category : Row(Category), status : Row({"pending", "accepted", "other"}),
             accepted_category : Row(Category), accepted_tags : Row(SUBSET Tag)]
NoMetadata ==
  [category |-> {}, status |-> {}, accepted_category |-> {}, accepted_tags |-> {}]

ASSUME GivenAssumption == Given \subseteq Metadata
ASSUME ChoiceAssumption == Choice \subseteq [category : Category, tags : SUBSET Tag]

Acceptance == [id : Nat, doc : Document, category : Category,
               tags : SUBSET Tag, new : SUBSET Tag]

\* A scoring or an acceptance: rows (what it makes of the metadata), seen (the
\* rows it has in memory), keys (still to be looked up), inserted and updated
\* (what the flush writes); of an acceptance also left (tags to be applied),
\* at (one that was not found), made (new tags flushed), new and put (links
\* added, and flushed), saw (the number of the scoring read).
Idle == [pc |-> "idle"]
Filing == [pc : {"tagging", "untagged", "upserting", "flushed"}, id : Nat,
           kind : {"suggest", "accept"}, doc : Document, rows : Metadata,
           seen : Metadata, keys : SUBSET Key, inserted : SUBSET Key,
           updated : SUBSET Key, left : SUBSET Tag, at : Row(Tag),
           made : SUBSET Tag, new : SUBSET Tag, put : SUBSET Tag, saw : Nat]
Manual == [pc : {"naming"}, at : Row(Tag)] \cup [pc : {"linking"}, doc : Document, at : Row(Tag)]

TypeOK ==
  /\ given \in [Document -> Row(Given)]
  /\ meta \in [Document -> Metadata]
  /\ tags \subseteq Tag
  /\ links \subseteq Document \X Tag
  /\ linkedByHand \subseteq links
  /\ ledger \subseteq Acceptance
  /\ scored \in [Document -> Nat]
  /\ confirmed \in [Document -> Nat]
  /\ contested \subseteq Document
  /\ requests \in Nat
  /\ job \in [Session -> Filing \cup Manual \cup {Idle}]

-----------------------------------------------------------------------------
At(s, points) == job[s].pc \in points
Files(s) == At(s, {"tagging", "untagged", "upserting", "flushed"})
FilesOn(s, d) == Files(s) /\ job[s].doc = d
Links(d, ts) == {d} \X ts

\* The other requests that hold a tag name, links or metadata rows of d which
\* they have flushed and not committed.
HoldNames(s, ts) == {o \in Session \ {s} : Files(o) /\ job[o].made \cap ts # {}}
HoldLinks(s, d, ts) ==
  {o \in Session \ {s} : FilesOn(o, d) /\ job[o].put \cap ts # {}}
Written(s) == job[s].inserted \cup job[s].updated
\* The rows it writes; a scoring always writes its time, which is in "category".
Locked(s) == Written(s) \cup (IF job[s].kind = "suggest" THEN {"category"} ELSE {})
HoldRows(s, d, ks) ==
  {o \in Session \ {s} : FilesOn(o, d) /\ At(o, {"flushed"}) /\ Locked(o) \cap ks # {}}

\* The requests that the next flush of s waits for.
Blockers(s) ==
  IF At(s, {"untagged"})
  THEN HoldNames(s, job[s].at) \cup HoldLinks(s, job[s].doc, job[s].new \ job[s].put)
  ELSE IF At(s, {"upserting"}) /\ job[s].keys = {}
  THEN HoldRows(s, job[s].doc, Locked(s))
         \cup HoldLinks(s, job[s].doc, job[s].new \ job[s].put)
  ELSE IF At(s, {"naming"}) THEN HoldNames(s, job[s].at)
  ELSE IF At(s, {"linking"}) THEN HoldLinks(s, job[s].doc, job[s].at)
  ELSE {}
Waits(s) == Blockers(s) # {}

\* Does a link that s is about to flush exist by now?
LinkClash(s) == Links(job[s].doc, job[s].new \ job[s].put) \cap links # {}

Init ==
  /\ given = [d \in Document |-> {}]
  /\ meta = [d \in Document |-> NoMetadata]
  /\ tags = {}
  /\ links = {}
  /\ linkedByHand = {}
  /\ ledger = {}
  /\ scored = [d \in Document |-> 0]
  /\ confirmed = [d \in Document |-> 0]
  /\ contested = {}
  /\ requests = 0
  /\ job = [s \in Session |-> Idle]

-----------------------------------------------------------------------------
Begin(s, record) ==
  /\ At(s, {"idle"})
  /\ requests < MaxRequests
  /\ requests' = requests + 1
  /\ job' = [job EXCEPT ![s] = record]
  /\ UNCHANGED <<store, history>>

Become(s, record) == job' = [job EXCEPT ![s] = record] /\ UNCHANGED <<store, history, requests>>

\* The request ends with an error, and its transaction is rolled back.
Fail(s) == Become(s, Idle)

\* DocumentService.create: the document, and a row for each key sent with it.
CreateDocument(d, m) ==
  /\ given[d] = {}
  /\ given' = [given EXCEPT ![d] = {m}]
  /\ meta' = [meta EXCEPT ![d] = m]
  /\ UNCHANGED <<tags, links, linkedByHand, ledger, history, requests, job>>

Opened(pc, kind, d, rows, seen, keys, left) ==
  [pc |-> pc, id |-> requests + 1, kind |-> kind, doc |-> d, rows |-> rows, seen |-> seen,
   keys |-> keys, inserted |-> {}, updated |-> {}, left |-> left, at |-> {},
   made |-> {}, new |-> {}, put |-> {}, saw |-> scored[d]]

\* Mutant of Suggest: a new scoring clears the category accepted earlier.
SuggestAfresh(s, d, c) ==
  /\ given[d] # {}
  /\ Begin(s, Opened("upserting", "suggest", d,
                     [NoMetadata EXCEPT !.category = {c}, !.status = {"pending"}],
                     meta[d], SuggestKeys \cup {"accepted_category"}, {}))

\* suggest(): the document's metadata is loaded, and its text scored as c.
Suggest(s, d, c) ==
  /\ given[d] # {}
  /\ Begin(s, Opened("upserting", "suggest", d,
                     [NoMetadata EXCEPT !.category = {c}, !.status = {"pending"}],
                     meta[d], SuggestKeys, {}))

\* accept(): the suggestion is read; the officer confirms category c and the
\* tags ts, which may be the suggested ones or others.
Accept(s, d, c, ts) ==
  /\ given[d] # {}
  /\ Begin(s, Opened("tagging", "accept", d,
                     [NoMetadata EXCEPT !.status = {"accepted"}, !.accepted_category = {c},
                                        !.accepted_tags = {ts}],
                     NoMetadata, AcceptKeys, ts))

\* The next tag, in the order of the officer: is it there, and linked?
FindTag(s, t) ==
  /\ At(s, {"tagging"})
  /\ t \in job[s].left
  /\ LET j == job[s] IN Become(s,
       IF t \notin tags THEN [j EXCEPT !.pc = "untagged", !.at = {t}]
       ELSE [j EXCEPT !.left = @ \ {t},
                      !.new = IF <<j.doc, t>> \in links THEN @ ELSE @ \cup {t}])

\* _ensure_tag() inserts the tag; its flush takes along the links so far.
MakeTag(s) ==
  /\ At(s, {"untagged"})
  /\ ~Waits(s)
  /\ LET j == job[s] IN Become(s,
       IF j.at \subseteq tags \/ LinkClash(s) THEN Idle
       ELSE [j EXCEPT !.pc = "tagging", !.left = @ \ j.at, !.made = @ \cup j.at,
                      !.put = j.new, !.new = @ \cup j.at, !.at = {}])

\* Mutant of Tagged: the tags are left at the first that is done.
TaggedEarly(s) ==
  /\ At(s, {"tagging"})
  /\ job[s].left # job[s].rows.accepted_tags
  /\ Become(s, [job[s] EXCEPT !.pc = "upserting", !.left = {}])

Tagged(s) ==
  /\ At(s, {"tagging"})
  /\ job[s].left = {}
  /\ Become(s, [job[s] EXCEPT !.pc = "upserting"])

\* The keys that are looked up before a key.
Earlier == [category |-> {}, status |-> {"category"}, accepted_category |-> {"status"},
            accepted_tags |-> {"status", "accepted_category"}]

\* Mutant of Upsert: a row that is there is left as it is.
UpsertNewOnly(s, k) ==
  /\ At(s, {"upserting"})
  /\ k \in job[s].keys
  /\ LET j == job[s] IN Become(s, [j EXCEPT
       !.keys = @ \ {k},
       !.inserted = IF j.seen[k] = {} /\ meta[j.doc][k] = {} THEN @ \cup {k} ELSE @])

\* _upsert_metadata(): the row as it was loaded, or else as it is now.
Upsert(s, k) ==
  /\ At(s, {"upserting"})
  /\ k \in job[s].keys
  /\ Earlier[k] \cap job[s].keys = {}
  /\ LET j == job[s]
         read == IF j.seen[k] # {} THEN j.seen[k] ELSE meta[j.doc][k]
     IN Become(s, [j EXCEPT
          !.keys = @ \ {k},
          !.inserted = IF read = {} THEN @ \cup {k} ELSE @,
          !.updated = IF read \notin {{}, j.rows[k]} THEN @ \cup {k} ELSE @])

RowClash(s) == \E k \in job[s].inserted : meta[job[s].doc][k] # {}

\* Mutant of Flush: a clash is answered by flushing again.
FlushAgain(s) ==
  /\ At(s, {"upserting"})
  /\ job[s].keys = {}
  /\ ~Waits(s)
  /\ IF RowClash(s) \/ LinkClash(s) THEN Become(s, job[s])
     ELSE Become(s, [job[s] EXCEPT !.pc = "flushed", !.put = job[s].new])

\* The flush of the metadata, and of the links that are left.
Flush(s) ==
  /\ At(s, {"upserting"})
  /\ job[s].keys = {}
  /\ ~Waits(s)
  /\ IF RowClash(s) \/ LinkClash(s) THEN Fail(s)
     ELSE Become(s, [job[s] EXCEPT !.pc = "flushed", !.put = job[s].new])

\* A row of the document, and the document's rows, as s commits them.
After(s, k) == IF k \in Written(s) THEN job[s].rows[k] ELSE meta[job[s].doc][k]
Rows(s) ==
  [category |-> After(s, "category"), status |-> After(s, "status"),
   accepted_category |-> After(s, "accepted_category"),
   accepted_tags |-> After(s, "accepted_tags")]

\* AuditLedger.record for an acceptance.
Record(j) ==
  \E c \in j.rows.accepted_category, ts \in j.rows.accepted_tags :
    ledger' = ledger \cup
      {[id |-> j.id, doc |-> j.doc, category |-> c, tags |-> ts, new |-> j.new]}

\* The record, and the commit.
Commit(s) ==
  /\ At(s, {"flushed"})
  /\ LET j == job[s] IN
       /\ meta' = [meta EXCEPT ![j.doc] = Rows(s)]
       /\ tags' = tags \cup j.made
       /\ links' = links \cup Links(j.doc, j.new)
       /\ IF j.kind = "accept"
          THEN /\ Record(j)
               /\ confirmed' = [confirmed EXCEPT ![j.doc] = IF j.saw > @ THEN j.saw ELSE @]
               /\ UNCHANGED scored
          ELSE /\ scored' = [scored EXCEPT ![j.doc] = @ + 1]
               /\ UNCHANGED <<ledger, confirmed>>
       /\ contested' = IF \E o \in Session \ {s} : FilesOn(o, j.doc)
                       THEN contested \cup {j.doc} ELSE contested
  /\ job' = [job EXCEPT ![s] = Idle]
  /\ UNCHANGED <<given, linkedByHand, requests>>

\* create_tag() returns a tag that is there ...
CreateTag(s, t) ==
  /\ t \notin tags
  /\ Begin(s, [pc |-> "naming", at |-> {t}])

\* ... and otherwise inserts it.
CommitTag(s) ==
  /\ At(s, {"naming"})
  /\ ~Waits(s)
  /\ tags' = tags \cup job[s].at
  /\ job' = [job EXCEPT ![s] = Idle]
  /\ UNCHANGED <<given, meta, links, linkedByHand, ledger, history, requests>>

\* link_tag() returns a link that is there, and otherwise inserts it.
LinkTag(s, d, t) ==
  /\ given[d] # {}
  /\ t \in tags
  /\ <<d, t>> \notin links
  /\ Begin(s, [pc |-> "linking", doc |-> d, at |-> {t}])

CommitLink(s) ==
  /\ At(s, {"linking"})
  /\ ~Waits(s)
  /\ LET link == Links(job[s].doc, job[s].at) IN
       /\ links' = links \cup link
       /\ linkedByHand' = linkedByHand \cup (link \ links)
  /\ job' = [job EXCEPT ![s] = Idle]
  /\ UNCHANGED <<given, meta, tags, ledger, history, requests>>

\* The database fails one of several requests that wait in a circle.
Deadlock(s) ==
  /\ \E circle \in SUBSET Session :
       /\ s \in circle
       /\ \A o \in circle : \E p \in circle : p \in Blockers(o)
       /\ \A o \in circle : \E p \in circle : o \in Blockers(p)
  /\ Fail(s)

\* LedgerError, or another failure.
Abort(s) == ~At(s, {"idle"}) /\ Fail(s)

Step(s) ==
  \/ \E t \in Tag : FindTag(s, t)
  \/ MakeTag(s) \/ Tagged(s)
  \/ \E k \in Key : Upsert(s, k)
  \/ Flush(s) \/ Commit(s)
  \/ CommitTag(s) \/ CommitLink(s)
  \/ Deadlock(s)

Next ==
  \/ \E d \in Document, m \in Given : CreateDocument(d, m)
  \/ \E s \in Session :
       \/ \E d \in Document :
            \/ \E c \in Category : Suggest(s, d, c)
            \/ \E p \in Choice : Accept(s, d, p.category, p.tags)
            \/ \E t \in Tag : LinkTag(s, d, t)
       \/ \E t \in Tag : CreateTag(s, t)
       \/ Step(s)
       \/ Abort(s)

Spec == Init /\ [][Next]_vars

\* A request goes on unless it waits for the database.
FairSpec == Spec /\ \A s \in Session : WF_vars(Step(s))
-----------------------------------------------------------------------------
(* Properties *)

\* What the ledger says was linked: every tag of a sealed acceptance is on the
\* document, and a link was made once, by the acceptance that counted it in
\* "tags_linked" (classification.py:320-324, 337) or by hand.
LinksCountedOnce ==
  /\ \A r \in ledger : Links(r.doc, r.tags) \subseteq links
  /\ \A r, q \in ledger : r.doc = q.doc /\ r # q => r.new \cap q.new = {}
  /\ \A r \in ledger : Links(r.doc, r.new) \cap linkedByHand = {}
  /\ links = linkedByHand \cup UNION {Links(r.doc, r.new) : r \in ledger}

\* The acceptances of d that the ledger holds.
RecordsOf(d) == {r \in ledger : r.doc = d}

\* Once the ledger holds an acceptance of a document, each value that the
\* document shows as confirmed was confirmed in one (classification.py:326-339).
\* Until then it shows what the client sent with the document, which nobody has
\* confirmed, and is taken for accepted only if the client said so and nothing
\* was scored since.
ConfirmedIsSealed ==
  \A d \in Document :
    IF RecordsOf(d) # {}
    THEN /\ \E r \in RecordsOf(d) : {r.category} = meta[d].accepted_category
         /\ \E r \in RecordsOf(d) : {r.tags} = meta[d].accepted_tags
    ELSE \A m \in given[d] :
         /\ meta[d].accepted_category = m.accepted_category
         /\ meta[d].accepted_tags = m.accepted_tags
         /\ meta[d].status = {"accepted"} => m.status = {"accepted"} /\ scored[d] = 0

\* Unless scorings and acceptances of a document have overlapped, its metadata
\* tells one sealed acceptance as a whole once there is one, and the status
\* whether an acceptance has seen the last scoring: a document is pending only
\* if not, or if it was sent as pending and nothing was done with it.
ClassifiedUntilContested ==
  \A d \in Document \ contested :
    /\ RecordsOf(d) # {} =>
         \E r \in RecordsOf(d) : /\ {r.category} = meta[d].accepted_category
                                 /\ {r.tags} = meta[d].accepted_tags
    /\ meta[d].status = {"accepted"} => confirmed[d] = scored[d]
    /\ meta[d].status = {"pending"} =>
         confirmed[d] < scored[d] \/ (scored[d] = 0 /\ RecordsOf(d) = {})

\* suggestions() shows the confirmed category, or else the suggested one.
Shown(d) ==
  IF meta[d].accepted_category # {} THEN meta[d].accepted_category ELSE meta[d].category

\* "Once a human has confirmed, the confirmed values are the record of truth"
\* (classification.py:289): only another acceptance changes what is shown.
ConfirmedIsShown ==
  [][\A d \in Document :
       meta[d].accepted_category # {} /\ Shown(d)' # Shown(d) => ledger' # ledger]_vars

\* Every request ends, in whatever order officers name their tags.
RequestsEnd == \A s \in Session : ~At(s, {"idle"}) ~> At(s, {"idle"})
-----------------------------------------------------------------------------
(* The inductive invariant behind these properties; it includes TypeOK *)

\* A request in progress has no record yet.
NoRecordYet ==
  /\ \A r \in ledger : r.id <= requests
  /\ \A s \in Session : Files(s) => /\ job[s].id <= requests
                                    /\ \A r \in ledger : r.id # job[s].id
  /\ \A s, t \in Session : Files(s) /\ Files(t) /\ job[s].id = job[t].id => s = t

\* What the two kinds of requests write and may have done so far.
KindsApart ==
  \A s \in Session : Files(s) =>
    LET j == job[s] IN
    /\ j.kind = "suggest" =>
         /\ j.keys \cup Written(s) \subseteq SuggestKeys
         /\ At(s, {"upserting", "flushed"}) /\ j.new = {} /\ j.made = {}
         /\ j.rows.status = {"pending"}
    /\ j.kind = "accept" =>
         /\ j.keys \cup Written(s) \subseteq AcceptKeys
         /\ \A k \in AcceptKeys : j.seen[k] = {}
         /\ j.rows.status = {"accepted"}
         /\ j.rows.accepted_category # {} /\ j.rows.accepted_tags # {}
    /\ At(s, {"tagging", "untagged"}) => j.keys = AcceptKeys /\ Written(s) = {}
    /\ At(s, {"upserting", "flushed"}) => j.left = {}
    /\ At(s, {"flushed"}) => j.keys = {}

\* A link that is flushed and not committed is nobody else's.
LinksHeld ==
  /\ \A s \in Session : Files(s) =>
       /\ job[s].put \subseteq job[s].new
       /\ Links(job[s].doc, job[s].put) \cap links = {}
       /\ At(s, {"flushed"}) => job[s].put = job[s].new
  /\ \A s, t \in Session :
       Files(s) /\ Files(t) /\ s # t /\ job[s].doc = job[t].doc
         => job[s].put \cap job[t].put = {}

\* The tags that an acceptance is done with are linked, or will be.
TagsApplied ==
  \A s \in Session : Files(s) =>
    \A ts \in job[s].rows.accepted_tags :
      Links(job[s].doc, ts \ (job[s].left \cup job[s].new)) \subseteq links

\* Requests are about documents that exist, and so are records.
DocumentsExist ==
  /\ \A s \in Session : Files(s) => given[job[s].doc] # {}
  /\ \A r \in ledger : given[r.doc] # {}
  /\ \A d \in Document : given[d] = {} => meta[d] = NoMetadata /\ scored[d] = 0

\* The value v of key k is that of a sealed acceptance of d.
Confirms(r, k, v) == v = IF k = "accepted_category" THEN {r.category} ELSE {r.tags}
SealedValue(d, k, v) == \E r \in RecordsOf(d) : Confirms(r, k, v)

\* A row that an acceptance has looked up and does not write has the value it
\* gives it, or has had one of another acceptance since.  A scoring that has
\* found a document pending finds it so until the document is accepted.
RowsLookedUp ==
  \A s \in Session : Files(s) =>
    LET j == job[s] IN
    /\ j.kind = "accept" =>
         \A k \in {"accepted_category", "accepted_tags"} \ (j.keys \cup Written(s)) :
           meta[j.doc][k] = j.rows[k] \/ SealedValue(j.doc, k, meta[j.doc][k])
    /\ /\ j.kind = "suggest" /\ RecordsOf(j.doc) = {}
       /\ j.seen.status = {"pending"} \/ "status" \notin j.keys \cup Written(s)
       => meta[j.doc].status = {"pending"}

\* While no two requests have overlapped, what a request has read is true.
OwnKeys(s) == IF job[s].kind = "suggest" THEN SuggestKeys ELSE AcceptKeys
ReadsCurrent ==
  /\ \A d \in Document : confirmed[d] <= scored[d]
  /\ \A s \in Session : Files(s) => job[s].saw <= scored[job[s].doc]
  /\ \A s \in Session : Files(s) /\ job[s].doc \notin contested =>
       /\ job[s].saw = scored[job[s].doc]
       /\ \A k \in Key : job[s].seen[k] \in {{}, meta[job[s].doc][k]}
       /\ \A k \in OwnKeys(s) \ (job[s].keys \cup Written(s)) :
            meta[job[s].doc][k] = job[s].rows[k]

ClassInv ==
  /\ TypeOK
  /\ NoRecordYet
  /\ DocumentsExist
  /\ KindsApart
  /\ LinksHeld
  /\ TagsApplied
  /\ RowsLookedUp
  /\ ReadsCurrent
  /\ LinksCountedOnce
  /\ ConfirmedIsSealed
  /\ ClassifiedUntilContested
=============================================================================
