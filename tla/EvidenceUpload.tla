--------------------------- MODULE EvidenceUpload ---------------------------
(***************************************************************************)
(* DocumentService.upload_version (backend/app/services.py): one request   *)
(* stores a blob, writes the version row, seals it in the audit ledger,    *)
(* signs it, appends it to the case trail and classifies it, and undoes    *)
(* what it can when one of these fails.                                    *)
(*                                                                         *)
(* The database is READ COMMITTED: a unique key that another transaction   *)
(* has inserted and not committed makes an insert wait, one that is        *)
(* committed makes it fail.  CaseEventService.create commits halfway       *)
(* through the request (CommitEvent); what follows is a second transaction *)
(* with the same except clause around it.                                  *)
(*                                                                         *)
(* Which record of the ledger or event of the case precedes which is the   *)
(* subject of AuditLedger and CaseEvents; here a flushed row is its kind.  *)
(***************************************************************************)
EXTENDS Naturals

CONSTANTS
  Session,            \* concurrent requests
  Document,
  Role,               \* roles of the uploaders
  ClassifyOnUpload,   \* CLASSIFY_ON_UPLOAD
  Faults,             \* what may fail besides the upload itself
  MaxUploads          \* bound: uploads begun

ASSUME ClassifyAssumption == ClassifyOnUpload \in BOOLEAN
ASSUME FaultsAssumption ==
  Faults \subseteq {"gateway", "database", "storage", "crash"}
ASSUME MaxUploadsAssumption == MaxUploads \in Nat

VARIABLES
  versions,    \* committed rows of document_versions
  originals,   \* committed rows of original_document_records
  keys,        \* role_signing_keys, by role
  signatures,  \* committed rows of document_signatures
  trail,       \* committed case events and ledger records about versions
  suggested,   \* documents with committed classification metadata
  blobs,       \* files in the object storage
  uploads,     \* uploads begun so far: the n-th is named n, its blob too
  acked,       \* uploads answered with 201
  refused,     \* uploads answered with an error
  job          \* what each request is doing

rows == <<versions, originals, keys, signatures, trail>>
vars == <<versions, originals, keys, signatures, trail, suggested, blobs,
          uploads, acked, refused, job>>

None == 0
Upload == Nat \ {0}
ByHand == 0    \* the reference of an original that no upload recorded

\* What an upload flushes about its version, in the order of the code.
Entry == {"document_version_uploaded", "case_event", "case_event_sealed"}

Idle == [pc |-> "idle"]
Point == {"numbered", "stored", "versioned", "recorded", "keyless", "signed",
          "evented", "sealed", "committed", "scored", "suggested", "unscored",
          "poisoned", "failed"}
Job == [pc : Point, doc : Document, role : Role, blob : Upload, num : Nat \ {0},
        key : Nat, flushed : SUBSET Entry, fresh : BOOLEAN]

Version == [doc : Document, num : Nat \ {0}, blob : Upload]
Signature == [blob : Upload, role : Role, key : Upload]
Original == [doc : Document, ref : Nat]

TypeOK ==
  /\ versions \subseteq Version
  /\ originals \subseteq Original
  /\ keys \in [Role -> Nat]
  /\ signatures \subseteq Signature
  /\ trail \subseteq Entry \X Upload
  /\ suggested \subseteq Document
  /\ blobs \subseteq Upload
  /\ uploads \in Nat
  /\ acked \subseteq Upload
  /\ refused \subseteq Upload
  /\ job \in [Session -> Job \cup {Idle}]

-----------------------------------------------------------------------------
At(s, points) == job[s].pc \in points
Goto(s, point) == job' = [job EXCEPT ![s].pc = point]

\* Points at which the version row of a request is flushed, not committed.
Uncommitted == {"versioned", "recorded", "keyless", "signed", "evented", "sealed"}

Numbers(d) == {v.num : v \in {w \in versions : w.doc = d}}

\* Does another request hold the unique key (document, version number), or,
\* by its first version, the original record of the document?
VersionHeld(s) == \E t \in Session \ {s} :
  /\ At(t, Uncommitted)
  /\ job[t].doc = job[s].doc
  /\ job[t].num = job[s].num

HasOriginal(d) == \E o \in originals : o.doc = d

\* Mutant of VersionClash: the numbers of a document are not unique.
ClashOfOriginals(s) == job[s].num = 1 /\ HasOriginal(job[s].doc)
VersionClash(s) ==
  \/ job[s].num \in Numbers(job[s].doc)
  \/ job[s].num = 1 /\ HasOriginal(job[s].doc)

\* Has t provisioned a role key that is not committed yet?
Provisioning(t) == At(t, Uncommitted) /\ job[t].key = job[t].blob
\* Mutant of KeyHeld: a lock is taken by whoever has found no key, and each
\* waits for the other.
KeyHeldByReaders(s) == \E t \in Session \ {s} :
  /\ At(t, {"keyless"}) \/ Provisioning(t)
  /\ job[t].role = job[s].role

KeyHeld(s) == \E t \in Session \ {s} : Provisioning(t) /\ job[t].role = job[s].role

\* Does another request hold the metadata keys of the document?
SuggestionHeld(s) == \E t \in Session \ {s} :
  /\ At(t, {"suggested"})
  /\ job[t].fresh
  /\ job[t].doc = job[s].doc

VersionRow(j) == [doc |-> j.doc, num |-> j.num, blob |-> j.blob]
OriginalRow(j) == [doc |-> j.doc, ref |-> j.blob]
SignatureRow(j) == [blob |-> j.blob, role |-> j.role, key |-> j.key]

-----------------------------------------------------------------------------
Init ==
  /\ versions = {}
  /\ originals = {}
  /\ keys = [r \in Role |-> None]
  /\ signatures = {}
  /\ trail = {}
  /\ suggested \in SUBSET Document    \* clients may send such rows (services.py:317)
  /\ blobs = {}
  /\ uploads = 0
  /\ acked = {}
  /\ refused = {}
  /\ job = [s \in Session |-> Idle]

\* Mutant of Begin: the blob is named after the version number.
BeginByNumber(s, d, r) ==
  /\ At(s, {"idle"})
  /\ uploads < MaxUploads
  /\ uploads' = uploads + 1
  /\ \E latest \in {0} \cup Numbers(d) :
       /\ \A n \in Numbers(d) : n <= latest
       /\ job' = [job EXCEPT ![s] =
            [pc |-> "numbered", doc |-> d, role |-> r, blob |-> latest + 1,
             num |-> latest + 1, key |-> None, flushed |-> {}, fresh |-> FALSE]]
  /\ UNCHANGED <<rows, suggested, blobs, acked, refused>>

\* The newest committed version number is read and the blob is named.
Begin(s, d, r) ==
  /\ At(s, {"idle"})
  /\ uploads < MaxUploads
  /\ uploads' = uploads + 1
  /\ \E latest \in {0} \cup Numbers(d) :
       /\ \A n \in Numbers(d) : n <= latest
       /\ job' = [job EXCEPT ![s] =
            [pc |-> "numbered", doc |-> d, role |-> r, blob |-> uploads + 1,
             num |-> latest + 1, key |-> None, flushed |-> {}, fresh |-> FALSE]]
  /\ UNCHANGED <<rows, suggested, blobs, acked, refused>>

Put(s) ==
  /\ At(s, {"numbered"})
  /\ blobs' = blobs \cup {job[s].blob}
  /\ Goto(s, "stored")
  /\ UNCHANGED <<rows, suggested, uploads, acked, refused>>

\* The request ends with an error.
Refuse(s) ==
  /\ refused' = refused \cup {job[s].blob}
  /\ job' = [job EXCEPT ![s] = Idle]
  /\ UNCHANGED <<rows, suggested, uploads, acked>>

\* put() raises, because the file is too large or the storage fails; the
\* latter may leave part of a file, which nobody has the address of.
PutFails(s) ==
  /\ At(s, {"numbered"})
  /\ \/ blobs' = blobs
     \/ "storage" \in Faults /\ blobs' = blobs \cup {job[s].blob}
  /\ Refuse(s)

\* An exception inside the try: the transaction is rolled back.
Fail(s) ==
  /\ Goto(s, "failed")
  /\ UNCHANGED <<rows, suggested, blobs, uploads, acked, refused>>

\* Mutant of EmptyFile: the check lies outside the try, the blob stays.
EmptyFileKept(s) == At(s, {"stored"}) /\ Refuse(s) /\ UNCHANGED blobs

EmptyFile(s) == At(s, {"stored"}) /\ Fail(s)

\* The version row, and with the first version the original record.
FlushVersion(s) ==
  /\ At(s, {"stored"})
  /\ ~VersionHeld(s)
  /\ Goto(s, IF VersionClash(s) THEN "failed" ELSE "versioned")
  /\ UNCHANGED <<rows, suggested, blobs, uploads, acked, refused>>

\* A row about the version is flushed.
Flush(s, entry, from, to) ==
  /\ At(s, {from})
  /\ job' = [job EXCEPT ![s].pc = to, ![s].flushed = @ \cup {entry}]
  /\ UNCHANGED <<rows, suggested, blobs, uploads, acked, refused>>

RecordUpload(s) == Flush(s, "document_version_uploaded", "versioned", "recorded")

\* Mutant of LedgerFails: the error is ignored.
LedgerIgnored(s) ==
  /\ "gateway" \in Faults
  /\ At(s, {"versioned"})
  /\ Goto(s, "recorded")
  /\ UNCHANGED <<rows, suggested, blobs, uploads, acked, refused>>
\* LedgerError from either of the two record() calls.
LedgerFails(s) ==
  /\ "gateway" \in Faults
  /\ At(s, {"versioned", "evented"})
  /\ Fail(s)

\* role_key(): the key of the role is read, and used if there is one.
FindKey(s) ==
  /\ At(s, {"recorded"})
  /\ job' = [job EXCEPT
       ![s].pc = IF keys[job[s].role] = None THEN "keyless" ELSE "signed",
       ![s].key = keys[job[s].role]]
  /\ UNCHANGED <<rows, suggested, blobs, uploads, acked, refused>>

\* Mutant of MakeKey: the role of a key is not unique.
MakeOwnKey(s) ==
  /\ At(s, {"keyless"})
  /\ job' = [job EXCEPT ![s].pc = "signed", ![s].key = job[s].blob]
  /\ UNCHANGED <<rows, suggested, blobs, uploads, acked, refused>>

\* role_key(): a new key, named after the upload, is flushed and used.
MakeKey(s) ==
  /\ At(s, {"keyless"})
  /\ ~KeyHeld(s)
  /\ IF keys[job[s].role] = None
     THEN job' = [job EXCEPT ![s].pc = "signed", ![s].key = job[s].blob]
     ELSE Goto(s, "failed")
  /\ UNCHANGED <<rows, suggested, blobs, uploads, acked, refused>>

AppendEvent(s) == Flush(s, "case_event", "signed", "evented")
RecordEvent(s) == Flush(s, "case_event_sealed", "evented", "sealed")

\* The commit at the end of CaseEventService.create.
CommitEvent(s) ==
  /\ At(s, {"sealed"})
  /\ LET j == job[s] IN
       /\ versions' = versions \cup {VersionRow(j)}
       /\ originals' = IF j.num = 1 THEN originals \cup {OriginalRow(j)} ELSE originals
       /\ keys' = IF j.key = j.blob THEN [keys EXCEPT ![j.role] = j.key] ELSE keys
       /\ signatures' = signatures \cup {SignatureRow(j)}
       /\ trail' = trail \cup {<<e, j.blob>> : e \in j.flushed}
  /\ Goto(s, "committed")
  /\ UNCHANGED <<suggested, blobs, uploads, acked, refused>>

\* suggest(): is there classification metadata to update, or to insert?
Score(s) ==
  /\ ClassifyOnUpload
  /\ At(s, {"committed"})
  /\ job' = [job EXCEPT ![s].pc = "scored", ![s].fresh = job[s].doc \notin suggested]
  /\ UNCHANGED <<rows, suggested, blobs, uploads, acked, refused>>

\* Classification is off, or the analysis of the text raises.
Skip(s) ==
  /\ At(s, {"committed"})
  /\ Goto(s, "unscored")
  /\ UNCHANGED <<rows, suggested, blobs, uploads, acked, refused>>

\* suggest() flushes.  Its exception is swallowed by the caller, but the
\* failed flush leaves the database session in need of a rollback.
FlushSuggestion(s) ==
  /\ At(s, {"scored"})
  /\ job[s].fresh => ~SuggestionHeld(s)
  /\ Goto(s, IF job[s].fresh /\ job[s].doc \in suggested THEN "poisoned" ELSE "suggested")
  /\ UNCHANGED <<rows, suggested, blobs, uploads, acked, refused>>

\* The commit at the end of upload_version.
Finish(s) ==
  /\ At(s, {"unscored", "suggested"})
  /\ suggested' = IF At(s, {"suggested"}) THEN suggested \cup {job[s].doc} ELSE suggested
  /\ acked' = acked \cup {job[s].blob}
  /\ job' = [job EXCEPT ![s] = Idle]
  /\ UNCHANGED <<rows, blobs, uploads, refused>>

\* The same commit of a session in need of a rollback raises.
FinishFails(s) == At(s, {"poisoned"}) /\ Fail(s)

\* The connection to the database is lost.  At "committed" the commit of
\* the event took effect, but it, or the refresh behind it, raises.
DatabaseFails(s) ==
  /\ "database" \in Faults
  /\ \/ At(s, Uncommitted \cup {"stored", "committed", "suggested", "unscored"}) /\ Fail(s)
     \/ /\ At(s, {"scored"})
        /\ Goto(s, "poisoned")
        /\ UNCHANGED <<rows, suggested, blobs, uploads, acked, refused>>

\* The except clause deletes the blob and raises.
Delete(s) ==
  /\ At(s, {"failed"})
  /\ blobs' = blobs \ {job[s].blob}
  /\ Refuse(s)

DeleteFails(s) ==
  /\ "storage" \in Faults
  /\ At(s, {"failed"})
  /\ Refuse(s)
  /\ UNCHANGED blobs

\* attach_original_record(): an officer records the original by hand.
AttachOriginal(d) ==
  /\ ~HasOriginal(d)
  /\ \A s \in Session : ~(At(s, Uncommitted) /\ job[s].doc = d /\ job[s].num = 1)
  /\ originals' = originals \cup {[doc |-> d, ref |-> ByHand]}
  /\ UNCHANGED <<versions, keys, signatures, trail, suggested, blobs, uploads,
                 acked, refused, job>>

\* The server process dies; no request in progress is answered.
Crash ==
  /\ "crash" \in Faults
  /\ job' = [s \in Session |-> Idle]
  /\ UNCHANGED <<rows, suggested, blobs, uploads, acked, refused>>

\* The next thing a request in progress does when nothing breaks down.
Step(s) ==
  \/ Put(s) \/ FlushVersion(s) \/ RecordUpload(s)
  \/ FindKey(s) \/ MakeKey(s)
  \/ AppendEvent(s) \/ RecordEvent(s) \/ CommitEvent(s)
  \/ Score(s) \/ Skip(s) \/ FlushSuggestion(s)
  \/ Finish(s) \/ FinishFails(s)
  \/ Delete(s)

Break(s) ==
  PutFails(s) \/ EmptyFile(s) \/ LedgerFails(s) \/ DatabaseFails(s) \/ DeleteFails(s)

Next ==
  \/ \E s \in Session :
       \/ \E d \in Document, r \in Role : Begin(s, d, r)
       \/ Step(s)
       \/ Break(s)
  \/ \E d \in Document : AttachOriginal(d)
  \/ Crash

Spec == Init /\ [][Next]_vars

\* A request in progress goes on: nothing in it waits but for the database.
FairSpec == Spec /\ \A s \in Session : WF_vars(Step(s))
-----------------------------------------------------------------------------
(* Properties *)

\* The versions of a document are numbered 1, 2, 3, ... without a gap and
\* without two of a number, whatever uploads fail between reading the last
\* number (services.py:342) and the commit.
VersionsContiguous ==
  /\ \A v \in versions : 1..v.num \subseteq Numbers(v.doc)
  /\ \A v, w \in versions :
       (v.doc = w.doc /\ v.num = w.num) \/ v.blob = w.blob => v = w

\* The original record of a document that has versions is the first of them,
\* however uploads race with each other and with attach_original_record.
OriginalIsFirstVersion ==
  \A d \in Document : Numbers(d) # {} =>
    \E v \in versions :
      /\ v.doc = d /\ v.num = 1
      /\ {o \in originals : o.doc = d} = {[doc |-> d, ref |-> v.blob]}

\* A version is committed with its ledger record, its signature, its case
\* event and the record that seals the event, or nothing of it is.
VersionSealed ==
  /\ \A v \in versions :
       /\ \A e \in Entry : <<e, v.blob>> \in trail
       /\ \E g \in signatures : g.blob = v.blob
  /\ \A x \in trail : \E v \in versions : v.blob = x[2]
  /\ \A g \in signatures : \E v \in versions : v.blob = g.blob

\* Every signature was made with the one key that its role has, however many
\* first uploads of a role provision a key at a time (signatures.py:49-72).
SignedWithRoleKey == \A g \in signatures : g.key = keys[g.role]

\* An upload that was answered with 201 is committed, and its bytes stay.
AckedIsDurable ==
  \A u \in acked : u \in blobs /\ \E v \in versions : v.blob = u

\* The bytes of every committed version are in the storage: "Every document
\* version is stored immutably" (docs/architecture.md:91).
BytesPreserved == \A v \in versions : v.blob \in blobs

\* An upload that was answered with an error left no version behind.
RefusedLeavesNothing == \A v \in versions : v.blob \notin refused

\* The storage holds no file but those of committed versions and of uploads
\* still in progress (the except clause, services.py:431-435).
NoOrphans ==
  \A b \in blobs :
    \/ \E v \in versions : v.blob = b
    \/ \E s \in Session : ~At(s, {"idle"}) /\ job[s].blob = b

\* Every upload ends: requests that wait for each other's unique keys never
\* wait in a circle.
UploadsEnd == \A s \in Session : ~At(s, {"idle"}) ~> At(s, {"idle"})

\* Without classification and database failures, upload_version implements
\* the vault: versions are filed one at a time, under the next number, with
\* bytes that stay readable.
Vault == INSTANCE EvidenceVault WITH
  evidence <- versions,
  readable <- {v \in versions : v.blob \in blobs}
UploadsFillVault == Vault!VaultSpec
-----------------------------------------------------------------------------
(* The inductive invariant behind these properties *)

Busy(s) == ~At(s, {"idle"})
Filed == {v.blob : v \in versions}

\* Points before the commit of the version, and points at which its bytes
\* have been stored and not been given up.
Begun == Uncommitted \cup {"numbered", "stored"}
Kept == Uncommitted \cup {"stored", "committed", "scored", "suggested", "unscored"}

\* The name of an upload is used by one request, and until that request
\* commits or answers by nothing else.
NamesFresh ==
  /\ \A b \in Filed \cup blobs \cup acked \cup refused : b <= uploads
  /\ \A s \in Session : Busy(s) =>
       /\ job[s].blob <= uploads
       /\ job[s].blob \notin acked \cup refused
       /\ At(s, Begun) => job[s].blob \notin Filed
       /\ At(s, {"numbered"}) => job[s].blob \notin blobs
  /\ \A s, t \in Session : Busy(s) /\ Busy(t) /\ job[s].blob = job[t].blob => s = t

\* What a request has stored and committed is there until it gives up.
FilesKept ==
  \A s \in Session :
    /\ At(s, Kept) => job[s].blob \in blobs
    /\ At(s, Kept \ (Uncommitted \cup {"stored"})) => VersionRow(job[s]) \in versions

\* Below the number of a request all numbers are taken; a number that has
\* been flushed is free, and is flushed by one request only.
NumbersHeld ==
  /\ \A s \in Session :
       /\ At(s, Begun) => \A n \in 1..(job[s].num - 1) : n \in Numbers(job[s].doc)
       /\ At(s, Uncommitted) => job[s].num \notin Numbers(job[s].doc)
  /\ \A s, t \in Session :
       /\ At(s, Uncommitted) /\ At(t, Uncommitted)
       /\ job[s].doc = job[t].doc /\ job[s].num = job[t].num
       => s = t

\* A first version is flushed only while its document has no original.
OriginalsHeld ==
  \A s \in Session : At(s, Uncommitted) /\ job[s].num = 1 => ~HasOriginal(job[s].doc)

\* What has been flushed at each point.
EntriesComplete ==
  \A s \in Session :
    /\ At(s, {"recorded", "keyless", "signed", "evented", "sealed"}) =>
         "document_version_uploaded" \in job[s].flushed
    /\ At(s, {"evented", "sealed"}) => "case_event" \in job[s].flushed
    /\ At(s, {"sealed"}) => "case_event_sealed" \in job[s].flushed

\* A request signs with the committed key of its role or with the one that
\* it alone provisions; a committed key was made by a filed upload.
Signing == {"signed", "evented", "sealed"}
KeysHeld ==
  /\ \A r \in Role : keys[r] # None => keys[r] \in Filed
  /\ \A s \in Session :
       /\ At(s, Begun \ Signing) => job[s].key = None
       /\ At(s, Signing) => \/ job[s].key = keys[job[s].role] /\ job[s].key # None
                            \/ job[s].key = job[s].blob /\ keys[job[s].role] = None
  /\ \A s, t \in Session :
       Provisioning(s) /\ Provisioning(t) /\ job[s].role = job[t].role => s = t

UploadInv ==
  /\ TypeOK
  /\ NamesFresh
  /\ FilesKept
  /\ NumbersHeld
  /\ VersionsContiguous
  /\ OriginalsHeld
  /\ OriginalIsFirstVersion
  /\ EntriesComplete
  /\ VersionSealed
  /\ KeysHeld
  /\ SignedWithRoleKey
  /\ AckedIsDurable

\* Without classification and database failures a request that failed has
\* committed nothing.
CleanFailures ==
  \A s \in Session :
    /\ ~At(s, {"scored", "suggested", "poisoned"})
    /\ At(s, {"failed"}) => job[s].blob \notin Filed
=============================================================================
