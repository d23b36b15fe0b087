# ANVESHAN: specification and proofs

TLA+ models of the evidence platform in `src/` (FastAPI and SQLAlchemy over
PostgreSQL, an object store on disk, a ledger gateway, a React client), the TLC
runs that check them on small instances, and TLAPS proofs of what matters most
for every instance.

Paths below are relative to `src/`; `services.py` and the like are in
`src/backend/app/`.

## 1. The system

Every HTTP request is handled by one thread with a database session of its own
(`db.py`: `autoflush=False`, so rows reach the database at `flush()` and
`commit()` only; the session is closed, and so rolled back, when the request
ends). Requests share the database, the directory of the object store and the
ledger gateway. They take no locks themselves: they wait for each other only
where the database makes them wait, at unique keys and row locks.

| Component | State | Operations | Talks to | What is hard | Correct when |
|---|---|---|---|---|---|
| Audit ledger, `ledger.py` | `audit_ledger_records`, the gateway | `record`, `verify`, `verify_chain` | database, Fabric gateway | the newest record is read without a lock; the gateway may accept what is rolled back | links resolve to committed records, the chain does not fork, no committed record is unknown to the gateway |
| Case events, `services.py` 242-280 | `case_events` | `create` | ledger | as above, per case; commits what its caller has flushed | every event is sealed exactly once; the trail of a case is a chain |
| Cases, `api.py` 139-294, `services.py` 179-228 | `cases` | create, update, add event | case events, access | the edit is committed before its event is written | trails begin with the creation; what they tell last is the status of the case, unless an edit stays untold |
| Evidence upload, `services.py` 324-435 and 666-677 | `document_versions`, `original_document_records`, files | `upload_version`, `attach_original_record` | store, ledger, signatures, events, classification | two commits and one `except` that deletes the file; races for numbers, role keys, metadata keys | versions are contiguous, immutable, sealed and signed; their bytes stay; refused uploads leave nothing |
| Object storage, `storage.py` | files | `put`, `open`, `delete` | file system | failing half way | a file is there as long as something refers to it |
| Signatures, `signatures.py` | `role_signing_keys`, `document_signatures` | `role_key`, `sign`, `verify` | upload | a key is provisioned on first use | one key per role, all signatures made with it |
| Classification, `classification.py` | `document_metadata`, `classification_tags`, `document_tags` | documents created with metadata, `suggest`, `accept`, `create_tag`, `link_tag` | upload, ledger | rows read before they are written, unchanged values that send no UPDATE, tags inserted in any order, metadata that clients send | tags linked and counted once; accepted values are sealed and stay what officers see; the status is true |
| Evidence transfer, `transfers.py` | `document_transfers`, `authorized_access` | `create`, `accept`, `reject` | ledger, access | check and update without a lock | decided once; access exactly with acceptance |
| Access control, `services.py` 479-658, `search.py`, `389d3f11d880_enable_rls.py` | `authorized_access`, `user_roles` | grants, checks, roles | every handler | first request mints a grant, without a lock; time limits are inclusive; three pieces of code decide from the same rows | a minted grant opens its case for good, is minted once, and the three pieces differ only where they are meant to |
| Viewer registration, `auth.py` 85-163, `email_otp.py`, `services.py` 132-175 | `email_otps`, `users`, `roles` | register, login, verify | mail | attempts counted without a lock, codes not consumed, a commit that makes the challenge be read again | in by the newest code in its time, attempts counted, the account is the one that was registered |
| Department requests and complaints, `services.py` 700-788 and 887-926 | `department_requests`, `complaint_tokens` | file, list, review, work | roles, users | no status is final, and an UPDATE names the changed columns only | reviewers are entitled, a row shows one review as a whole |
| Datasets of the departments, `services.py` 794-886 | `department_records` | matrix, view, record | roles | - | - |
| Integrity and lineage reports, `api_ext.py` 574-731 | none | summary, lineage | store, case events | events, rows and files are read one after the other | they find what is damaged as far as it shows, and raise no false alarm |
| Backup and restore, `backup.py` | backup directories | create, verify, restore | database, store | copies two stores one after the other beside uploads, into a directory named after the second; dies halfway | a backup that verifies has the files of its rows, and a restore brings them back |
| Login and tokens, `auth.py` | passwords of users | prototype login, reset; login, TOTP, tokens | - | - | - |
| Search, text extraction, identity checks | none kept | read only | access | - | - |
| Frontend, `src/frontend` | views | forms | API | gives up after a timeout, the user repeats | a repeated request does no harm |

## 2. Modules

| Module | Models | Built on |
|---|---|---|
| `AppendOnlyChain` | what the ledger promises | - |
| `AuditLedger` | `ledger.py` | implements `AppendOnlyChain` until two requests overlap |
| `CaseEvents` | `CaseEventService.create` | composes and refines `AuditLedger` |
| `CaseTrail` | `create_case`, `update_case`, `create_case_event` | extends `CaseEvents`: what the handlers add to its steps; refines it |
| `EvidenceVault` | what the evidence store promises | - |
| `EvidenceUpload` | `upload_version`, `attach_original_record`, and the parts of storage, signatures and classification they call | implements `EvidenceVault` without classification and database failures |
| `TransferOutcome` | what a transfer promises | - |
| `Transfers` | `transfers.py` | implements `TransferOutcome` until a transfer is decided twice |
| `Classification` | `suggest`, `accept`, `create_tag`, `link_tag` and their endpoints | - |
| `Access` | `AccessService`, `grant`, roles; the decisions of the search and of row level security | - |
| `Desk` | department requests, complaints, departments and their records | extends `Access`: the roles that are given decide who reviews |
| `Accounts` | viewer registration, codes, default roles, other accounts | - |
| `Backups` | `backup.py` beside uploads, losses and damage | - |
| `Reports` | lineage and summary | extends `Backups`: reports on its stores |
| `*Proofs` | theorems about the module they are named after; `CaseEventsProofs` also about `CaseTrail`, `BackupsProofs` about `Reports`, `DeskProofs` about `Access`, `Desk` and both together | |
| `MC*` | TLC: symmetry, and statements only a run needs | |

### Conventions

* **A session is a request.** Its actions are the stretches between two points
  at which another request can be noticed or can notice it: a query, a flush, a
  commit, a call of the gateway, a file operation. The database is READ
  COMMITTED, the default of the PostgreSQL the deployment runs on: a query sees
  the committed rows and what its own transaction has flushed; a flush that
  meets the unique key of another open transaction waits, and fails if that one
  commits; an UPDATE of a row that is locked waits and then goes ahead.
* **A hash is a tick.** Record and event hashes cover a microsecond timestamp
  and are UNIQUE in the database, so a hash is represented by the tick of a
  global clock at which it was computed, and order of creation by order of
  ticks. Recomputing the hash of a stored row would find what was stored; the
  ledger models have no tampering, so only the link tests of `verify` and
  `verify_chain` are modelled, over the whole ledger. `Backups` and `Reports`,
  where things are altered, tell contents apart as a hash does.
* **Bounds.** `MaxClock`, `MaxUploads`, `MaxRequests`, `MaxAccess` and `MaxDesk`
  limit how many operations begin. They are guards of beginnings only: what has
  begun can always be finished. `MaxEdits` limits the edits that are committed,
  `Seconds` and `MaxFaults` the backup directories and the losses, and
  `BackupFaults`, of the run only, the losses beside the backup tool. The theorems hold for every value of them.
* **Faults** are the gateway (refuses, does not answer, accepts and does not
  answer), the database connection, the storage, and the death of the process.
* **Mutants.** Next to a definition may stand one named as its mutant: the form
  a plausible bug would give it. It is used by no specification; it documents
  which bug the properties of the module would find, and PROJECT.json says
  which property.

### AuditLedger

| TLA+ | Code |
|---|---|
| `ledger`, `pending[s]` | committed and flushed rows of `audit_ledger_records` |
| `Seal` | `record` up to the hash: previous row by `created_at` |
| `Record` | `_submit` and the flush, with `created_at` taken again |
| `SubmitFails` | `LedgerError` from `_submit`, the caller rolls back; the gateway may have accepted |
| `Commit`, `Abort` | the caller's commit; its rollback, or its death |
| `Linked` | the link test of `verify` and `verify_chain` |

`done`, the tick of the commit, is a history field. `Tick` lets other code take
timestamps, and is what `CaseEvents` needs to be a refinement.

### CaseEvents and CaseTrail

`CaseEvents` adds `events` and `flushed[s]` (the event a request has flushed).
`AppendEvent` is `create` up to the flush, `Seal` and `RecordEvent` its call of
`record`, `Commit` the commit at its end, which takes along whatever the caller
has flushed; `RecordOther` is a ledger record of the caller. `CaseTrail` adds
the handlers: `CreateCase`, `Note`, and `update_case` as `ReadCase`,
`CommitEdit`, `Refresh`, since it commits and reads again before it calls
`create`. `TellEvent`, `SealTold`, `RecordTold` and `CommitTold` are the steps of
`CaseEvents` as a handler goes through them (a lemma, `TrailsUseEvents`, says so);
the commit takes along a case that was just flushed. `RequestFails` is
`LedgerError`, `RequestDies` any other end. `About` is what events tell: of a
creation, a status, or anything else. An officer may post an event of any type
(`schemas.py:135`), that of a creation or of an edit included, so `Note` tells
any of them, and the properties do not go by the type: `CreationRootsTrail` is
about the roots of trails, and `TrailTellsStatusUntilOverlap` about the events
that `update_case` has written (`told`, a history). An edit of fields
other than the status differs only in what the event tells and is not modelled
separately. That the officer may do so is checked before and not modelled.

### EvidenceUpload

A request goes through the points `numbered` (latest number read) - `stored`
(file written) - `versioned` (version and, for the first, original row
flushed) - `recorded` - `keyless`/`signed` - `evented` - `sealed` - `committed`
(by `CaseEventService.create`) - `scored` - `suggested`/`unscored` - answered.
From most points it can go to `failed`, from where the `except` clause deletes
the file, or to `poisoned`: the flush of the classification failed, the caller
swallowed the exception, and the session will refuse its next commit. The n-th
upload is named `n`, and its file and the role key it may provision with it.
`VersionHeld`, `KeyHeld` and `SuggestionHeld` are the unique keys that another
open transaction holds. `attach_original_record` is one step; it has no loop
or second commit, so of its interleavings only the wait for the unique key
matters, which is its guard. A document may have rows of a classification before
anything was uploaded, since clients send any metadata when they create it
(`services.py:317`): `suggested` starts as any set of documents.

### Transfers

`Create`, `Accept` and `Reject` begin a request with the read of the transfer
and the checks of the code; `FindGrant` is the second query of `accept`; `Flush`
takes the lock on the row; `Seal` is `record`; `Commit` writes the row by its
id, whatever has become of it in between, which is what UPDATE does under READ
COMMITTED. Transferred documents have a version and recipients are active.
The docstring of `transfers.py` says that request and acceptance are also
written to the trail of the case; the code writes to the ledger only, and so
does the model.

### Classification

| TLA+ | Code |
|---|---|
| `meta[d]` | rows of `document_metadata`; `{v}` is a row with value `v`, `{}` no row |
| `tags`, `links` | `classification_tags`, `document_tags` |
| `ledger` | the records `ml_suggestions_accepted` |
| `given[d]`, `CreateDocument` | what the client sent as metadata of a new document, and `DocumentService.create`, which stores it |
| `Suggest`, `Accept` | the requests up to their first lookup; `seen` is what the session keeps in memory |
| `FindTag`, `MakeTag`, `Tagged` | the loop over the chosen tags: `_ensure_tag`, `_link_tag` |
| `Upsert` | one `_upsert_metadata`: lookup and change in memory |
| `Flush`, `Commit` | the flush with its waits and clashes; record and commit |
| `CreateTag`/`CommitTag`, `LinkTag`/`CommitLink` | tagging by hand: lookup; insert and commit |
| `Deadlock` | the database fails one of the requests that wait in a circle |
| `scored`, `confirmed`, `contested`, `linkedByHand` | history: nothing in the code corresponds to them and no guard reads them |

Two things of SQLAlchemy decide what is written and are modelled: a row that
the session has loaded keeps its values when it is looked up again (`suggest`
has loaded all rows through `document.metadata_items`; `accept` keeps none of
those it reads, since nothing refers to them), and an UPDATE is sent only for a
value that differs from the loaded one. Nothing keeps a client from sending the
keys of a classification with a new document, so a document may show a category
as confirmed that nobody has confirmed; `ConfirmedIsSealed` says that this ends
with the first acceptance, and that until then nothing else than what was sent
is shown. Values are taken not to be empty (an empty one counts as missing in
`suggestions` and in `accept`) and, of the category and the tags, to be ones that
can be chosen; names are taken to be normalised, the
key `category` stands for everything a scoring writes besides the status, and a
record is written in one step with the commit: how it is sealed, and what the
gateway may do, is the subject of `AuditLedger`, and here `Abort`.

### Access

| TLA+ | Code |
|---|---|
| `grants`, `roles` | `authorized_access`, `user_roles` with the names of the roles |
| `MayCase`, `MayDocument` | `require_case_access`, `require_document_access` do not raise |
| `HasCaseGrant`, `HasDocumentGrant` | `_has_grant`; `Counts` is the part both share |
| `Searched` | `_authorized_case_ids` of `search.py` |
| `RowAccess` | `anveshan_has_case_access` of the migration |
| `Touch`, `Mint` | a request on a case finds no grant; mints one in a commit of its own |
| `GrantAccess`, `Grant` | `POST /access-grants`: the checks, which may mint; the row |
| `AssignRole` | `POST /roles/{user_id}/assign` |

A request that finds its grant changes nothing and is not an action. The clock
is the time that grants are compared with. `ChecksAgree` compares what the three
pieces of code decide, each as it decides it: the search and the row level
security open the same cases at the same moments, the API (`MayCase`,
`MayDocument`, which include that reading a case never fails, that officers get a
row minted, and that auditors and viewers read every document) opens those and
exactly what the property names beyond them. Purposes are text, the agency is
treated as the department, and there is no endpoint that takes a grant or a
role away. `need`, `begun` and `done` of a row are history.

### Desk

Requests and complaints are rows of one function `filings`, since both are
changed in the same way: `BeginStamp` reads the row, `Stamp` is the UPDATE with
the commit. SQLAlchemy compares what is set with what was read (`Changed`), so
a verdict that equals the one that was read is not written. `Upload` keeps who
filed the latest version of a document, which decides where a request without a
destination goes. `stamps` is history. Lists, and the datasets of the
departments with their table of roles, are look-ups and single inserts and are
not modelled.

### Accounts

One row of `email_otps` for each email. `Register` and `Look` are
`viewer_register` up to `issue_otp`, `Login` is `viewer_login`, `Issue` and
`Store` are `issue_otp`: lookup and commit. `Verify` is `viewer_verify` up to the
comparison, `Count` its answer to a wrong code, `Admit`, `Enter` and `Found`
what follows a right one. `Seed` is `ensure_default_roles` where it has
something to commit, after which everything the session had read is read anew;
this is why `Admit` takes password and attempts from the row of that moment.
`Fresh` is what an UPDATE does to the row: attempts that were read as 0 are not
written. Passwords stand for their hashes, which always differ (salt).
`marks` and `reset` are history.

### Backups and Reports

| TLA+ | Code |
|---|---|
| `stage`, `Open`, `Put`, `Commit`, `Finish`, `FailUpload` | uploads as far as the two stores see them |
| `db`, `files` | the SQLite file: hash of each version, and of its case event; the directory of `LocalStorage` |
| `dirs[d]` | the backup directory of second `d`: the copies, and the hashes of `manifest.json` |
| `CreateBackup`, `CopyPages`, `CopyDatabase`, `WalkFile`, `CloseArchive`, `WriteManifest` | `create_backup`; `Torn` is a copy of pages of two moments, or half a file |
| `Verified`, `RestoreDatabase`, `Extract` | `verify_backup`, `restore_backup` |
| `Die` | the tool dies, and leaves what it was writing |
| `Hurt...`, `LoseDatabase` | what a restore or a report is for: bytes, rows, events and copies altered or lost |
| `BeginReport`, `ListVersions`, `HashFile`, `Answer` | the reports: events, then rows, then one file after another (`verify_integrity`) |
| `RecordTampered`, `ChainBroken`, `SaysIntact` | what the lineage and the summary conclude |

Contents are told apart as a hash does; an event, which has a hash over its own
text, may also be "forged": altered and its hash made again, with no key needed.
The lineage finds an "alt" event by itself (`ChainBroken`), a "forged" one only
where row or file disagree with it (`RecordTampered`). In the deployment on
PostgreSQL triggers refuse to change or delete events and ledger
records (`389d3f11d880_enable_rls.py:69-71`); alterations in these models go past the
program, and SQLite has no such trigger. One backup or restore runs at a time,
and a restore while no upload is under way. `hurt`, `restored` and the
`hurt` of a directory are history, and so are `sound`, `sealed` and `disturbed`
of a report.

## 3. Runs

All runs explore the whole state space of their bounds. Deadlock is not checked:
with the clock or the uploads used up the models stop.

| Run | Instance | Shows |
|---|---|---|
| `MCAuditLedger` | 2 requests, 9 ticks: three records with a rollback, or two overlapping two-record transactions | the inductive invariant (links resolve), forks need overlap, the gateway knows every record; refines `AppendOnlyChain` until two requests overlap |
| `MCAuditLedgerFork` | the same | **violated** `ChainIntact`: overlapping requests fork the chain |
| `MCCaseEvents` | 2 requests, 2 cases, a foreign record, 7 ticks | the inductive invariant (links inside the case), events sealed once, forks need overlap, refines `AuditLedger` |
| `MCCaseTrail` | 2 requests, 1 case, 2 statuses, 9 ticks, 3 edits, notes of every type | the creation is the only root; an event never tells an edit older than its own; once all edits are told, the newest telling is the status unless edits overlapped |
| `MCEvidenceUpload` | 2 requests, 3 uploads, 2 documents with or without rows of a classification, a role, all faults, classification on, fairness | the inductive invariant (originals, role keys), numbers, seals, acknowledged uploads; every upload ends |
| `MCEvidenceUploadVault` | 3 requests, 4 uploads, gateway failures only, classification off | bytes stay, no orphans, refines `EvidenceVault` |
| `MCEvidenceUploadLoss` | 2 requests, 1 document, no faults | **violated** `BytesPreserved`: the file of a committed version is deleted |
| `MCTransfers` | 3 requests, 2 transfers, 2 users, 7 ticks | the inductive invariant (status and ledger agree, second decisions overlap), grants follow acceptances, refines `TransferOutcome` until there is one |
| `MCClassification` | 2 requests at a time, 3 in all, 1 document, created with no metadata, as accepted or as pending with a confirmed category, 2 categories, 2 tags, 4 choices of both, fairness | the inductive invariant (types, links counted once, confirmed values sealed or sent), only acceptances change what is shown, metadata consistent until requests overlap, every request ends |
| `MCDesk` | either 2 requests, 2 users, a case with a document, 6 shapes of grants, 3 ticks; or 2 requests at a time, a department request, a complaint, 5 ticks | a minted grant opens the case for good and is minted once until requests overlap; on plain grants search and database agree and the API opens what is named beyond them; access begins with a row or a role; reviewers are entitled, a row shows one whole review until two overlap |
| `MCAccounts` | 2 requests, 1 email (of the prototype too), 2 passwords, 2 attempts, codes live for 2 of 5 ticks | in only by the newest code in its time; attempts are the wrong codes until requests overlap; accounts have the password of their code |
| `MCReports` | either backups and restores of 2 versions in 1 second with 2 faults, or reports on 2 versions with 3 faults | a backup that verifies covers its rows; a forced restore brings everything back; lineage and summary find what is damaged as far as it shows and raise no false alarm |

Why the bounds are enough: the hazards are races of two requests for one row,
key or newest record, with a third that has committed before or is waiting;
every run has these, and the theorems cover all sizes. In the ledger, uploads,
transfers and classification nothing compares more than two rows or counts
beyond the next number. `MCDesk` has a grant of every shape that the checks tell
apart (an end, another department, another sensitivity, an unknown level, a
document), and `MCAccounts` enough ticks for a code to expire, for the attempts
to be used up, and for a new code between the comparison and the second
reading. In `MCReports` one second means that every second backup writes into
the directory of the first. Two files are what it takes for one to be walked
over before, and one after, something happens; three faults are what it takes to
rewrite file, row and event of a version so that the lineage says intact.
`MCCaseTrail` has ticks for two edits one after the other with their events, and
an edit more than that for one in between. In `MCClassification` the choices
differ in the category, in the tags and in both, and what clients send agrees
with some and not with others.

`MCDesk` and `MCReports` check two things side by side: the variable `part` of
their MC modules says which of the two a behaviour is about, so that the states
of one do not multiply those of the other. That nothing is lost by it is proved:
`WholeSpec` of `DeskProofs` lets access and desk step in any order over the same
roles and clock, and `ReportSpec` is about reports beside backups and uploads.

### Fairness

`MCEvidenceUpload` and `MCClassification` assume some: weak fairness of `Step(s)`, the next
thing a request in progress does when nothing breaks down. A request runs in a
thread of its own, its calls of the gateway have a timeout
(`fabric_timeout_seconds`), and the waits for unique keys are in the guards of
the steps, so a circle of waiting requests would be found. Faults, refused
files and new requests are not fair. `UploadsEnd` holds because the order in
which a request takes keys (number, role key, commit, metadata key) is the same
for all; had `role_key` made every reader wait, two requests would wait for
each other (the mutant of `KeyHeld`).

Acceptances insert tags in the order the officer named them, so they do wait
for each other, and `RequestsEnd` holds because the database finds the circle
(`Deadlock` is fair) and because a flush that fails ends its request (the
mutant of `Flush`, which tries again, does not).

### Findings

1. Overlapping requests fork the ledger (`ledger.py:41`), and in the same way the
   trail of a case (`services.py:250`); verification then reports tampering that
   never was.
2. An upload whose classification fails at its flush deletes the file of the
    version it has already committed (`services.py:433`). The officer is told that
   the upload failed, and no other upload can lose those bytes
   (`LossesAreRefused`, proved for every fault).

What follows shows in the models, and limits what the properties say, but no
document promises otherwise or it is plain from one line:

* `update_case` commits before it seals (`api.py:200`), so an edit stays untold if
  the gateway refuses (`EditsAreTold` proves that nothing else leaves it untold:
  a request that fails or dies is the only reason); it reads the case back after its commit and may tell the
  status that another request has set meanwhile, but never an older one
  (`EventTellsLatest`).
* A transfer may be accepted and rejected at a time, and ends as rejected with the
  recipient holding the grant (`transfers.py:205`); this is the contest that
  `DecidedOnceUntilContested` leaves out.
* A document that is scored while an acceptance is under way is left with a
  suggestion that nobody has seen and the status "accepted"
  (`classification.py:326`).
* `accept_ml_suggestions` catches neither the IntegrityError of two acceptances that
  insert the same tag or metadata row nor the deadlock error of the database
  (`api_ext.py:263`), while tagging by hand answers such a clash with 409 or
  400; two overlapping acceptances may leave the category of one with the tags
  of the other.
* `verify_chain` looks at the oldest `limit` records only (`ledger.py:104`), while its
  docstring says that every broken link is reported.
* Overlapping reviews may leave the verdict of one with the time of the other
  (`services.py:786`), and a reviewed request may be reviewed again, though every
  reviewer is entitled. A complaint goes from any status to any other, while
  `models.py:428` tells one order.
* `list_department_requests` says that administrators see every request
  (`api_ext.py:808`) and calls `list_for_user` for everybody, which shows
  administrators no more than others of their department. "A document they can
  see" is not checked where a request is filed.
* The search ignores department, agency, sensitivity and level of a grant
  (`search.py:44`), while its docstring speaks of the same authorization rules as
  the rest of the API (`search.py:12`); `ChecksAgree` is about plain grants for
  this reason. With plain grants, too, the rest of the API opens more: every case
  for reading, and to auditors and viewers every document, none of which they
  find with the search. This is plain from both functions, and `ChecksAgree` says
  that it is all.
* A new document may be created with the keys of an accepted classification
  (`services.py:317`) and is then shown as confirmed without any acceptance in the
  ledger (`classification.py:289` calls confirmed values the record of truth);
  `ConfirmedIsSealed` says for how long.
* The lineage makes the hash of each event again from its own text, and follows
  neither the links of the events nor the ledger (`api_ext.py:610`), while its
  docstring says that this detects tampering with events and ledger
  (`api_ext.py:582`): an event that was altered together with its hash is found
  only if row or file disagree with it. `LineageTruthful` names this case, and its
  run reaches it.
* An attempt is lost where two wrong codes, or a wrong code and a new one, overlap
  (`auth.py:142`, `email_otp.py:96`); `CountedUntilOverlap` says that nothing else
  loses one. A code may be used again until it expires.
* An account may be made with a password that came with a newer code than the one
  that was compared (`auth.py:149`), where the default roles were made in between;
  this is the second half of `AccountOfProvenCode`.
* A minted grant is for writing, so each request for the level admin mints another
  one (`services.py:508`).
* A version without a case event is only "unanchored" in the lineage, which may
  still say intact: `LineageTruthful` speaks of versions that have one. The summary
  calls a document intact whose bytes are gone, and shows the version as
  unreadable (`api_ext.py:714`); the lineage ends with an error there.
* A restore without `--force` brings back the database but not the files
  (`backup.py:183`), and one that dies leaves the two apart until it is run again:
  `RestoredWhole` is about a forced restore that was completed.

## 4. Proofs

`tlapm` proves each of the following for every set of sessions, documents,
transfers, users, cases and bodies, every bound and both ledger providers. The
assumptions are the ASSUMEs of the modules: bounds are natural numbers, the
provider is one of the two, administrators are users, faults are of the four
kinds, "open" is a status, an event may tell a creation or any status (and no
status is called "case_created"), cases, sensitivities and departments belong to
what they belong to, and clients and officers send metadata and choices of the
right types.

* **AuditLedgerProofs.** `LedgerInv` is inductive. `LinksResolve` alone is not:
  the record a draft links to might be rolled back. `LinksResolveInside` adds
  that it is committed or of the same transaction; `TicksGrow`, `NamesUnique`,
  `RecordsTakeTurns` order the ticks; `LinksNewestSeen` says that a record
  reaches past everything its transaction could see, from which
  `ForkOnlyByOverlap` follows. `GatewayInv` does the same for the gateway.
  The refinement maps the chain to `Unforked`, what was committed before the
  first two requests overlapped; with one request at a time that is the whole
  ledger. It needs `LinksSettled`, inductive next to `LedgerInv`: nothing links
  to a record that was committed after it, so the predecessor of a record of
  `Unforked` is in `Unforked`. Two theorems say what verification makes of it:
  without overlap every record passes (`SerialLedgerVerifies`, which is
  `ForkOnlyByOverlap` turned around and more: failures and rollbacks never
  break a link either), and a link that is broken is reported by every
  verification from then on (`ForksStayReported`, an action property).
* **CaseEventsProofs.** Every step is a step of `AuditLedger` (`EventsUseLedger`),
  so the ledger's theorems carry over (`EventLedgerSound`). `EventInv` adds, for
  events, what `LedgerInv` has for records, and that flushed records and
  flushed events belong together. `SerialTrailsAreChains` is
  `SerialLedgerVerifies` for one case, whatever happens in others.
  For the handlers of `CaseTrail` every step is a step of `CaseEvents`, by the
  way they are written (the lemma `TrailsUseEvents`), so all of this holds of the
  trails they write (`TrailsSealedAndLinked`).
  `TrailInv` adds what the handlers rely on: a case is created by one request
  and is not there before its commit (`JobsFitCases`), what is flushed is the
  event of the request and is a root exactly where the case is being created
  (`FlushedFitsJob`), and so each case has one root (`TrailsRooted`). `EditsShown`
  is what `EventTellsLatest` rests on: the status of a case that was edited is
  that of an edit which no other is after. `EditsRecorded` adds that a case without
  edits is open and that what was told is in the trail; both together give
  `TrailTellsStatusUntilOverlap` (`TrailsTellStatus`): of edits that take turns, the
  newest telling belongs to the newest edit. `EditsAreTold` is proved of the
  behaviours in which no request fails; nothing can be promised of the others.
* **EvidenceUploadProofs.** `UploadInv` is inductive under any faults: fresh
  names, numbers and keys that are held by one open transaction at most, what
  has been flushed at each point. `CleanFailures`, that a request in `failed`
  has not committed, is inductive only without classification and without
  database failures, an assumption of the theorems about bytes, refusals and the
  refinement of `EvidenceVault`; `MCEvidenceUploadLoss` shows why it is needed.
  `LossesAreRefused` is what is left of it under every fault: bytes are lost only
  by their own upload, and it was refused. `UploadsNeverWaitInCircle` is the safety
  half of `UploadsEnd`: whoever is waited for by a request that is itself waited
  for goes on, so no circle of any length can form, and one of the uploads in
  progress can always go on (`SomeUploadGoesOn`).
* **TransfersProofs.** `TransferInv` is inductive. The refinement of
  `TransferOutcome` follows from it: a request that commits the first decision of
  a transfer finds it pending and without a grant; a later one is a stutter, since
  the mapping keeps the first decision of a transfer that is decided twice.
* **ClassificationProofs.** `ClassInv` is inductive. It adds to the properties
  what a request in progress holds and has read: `LinksHeld` (a link flushed and
  not committed is nobody else's, from which links are counted once),
  `TagsApplied`, `RowsLookedUp` (a key of an acceptance exists or will be
  inserted, so a document with an acceptance shows a category and tags of one),
  `DocumentsExist` (requests and rows are of documents that were created), and `ReadsCurrent` (while
  nobody has overlapped, what was read is what is there, so that rows left
  alone already have the value). The proof restates it request by request
  (`Fit` for one, `Apart` for two), so that a step needs to look at the request
  that takes it, and a commit at what it changes for the others.
  `ConfirmedIsShown` is an action property: only `Commit` changes metadata, a
  scoring leaves the confirmed keys alone, and the record of an acceptance is
  new because its request had none before.

* **BackupsProofs.** `BackupInv` is inductive. `KnownStay` is its core: what the
  database, a copy of it or a backup knows of was committed, and its file is there
  unless it was hurt; the copy of the database comes before the walk, so the walk
  comes to the file of every row of the copy (`WalkCovers`), which a manifest then
  tells (`ManifestCovers`), whatever a later backup of the same second writes over
  the directory: then the directory does not verify. `ExtractsVerified` holds
  between the two halves of a restore, and gives `RestoredWhole`.
  A step of reports is a step of `Backups` or none, so its theorems hold beside
  them (`BackupsBesideReports`). `ReportInv` is inductive next to `BackupInv`: the
  stores have no event without its version (`EventsOfVersions`), and as long as
  nothing but uploads goes on, what a report has read is still there
  (`BeginningHolds` for the events, `ListHolds` for the rows) and what it has found
  of a file would be found again (`FindingsHold`). An upload beside a report adds a
  version that the report does not list or that is whole. Both statements about
  the reports follow by comparing, version by version, what was found with what
  is there.
* **AccountsProofs.** `AccountInv` is inductive. `RowsNewest` ties a challenge to the
  last code that was issued, `Proven` carries what was true at the comparison
  through the steps of a request, and `SeenUntilOverlap` says that a request
  reads what is there until another commits, from which the attempts are counted.
* **DeskProofs.** For `Access`, `AccessInv` is inductive: `MintedShape` (what is minted
  has no end and no conditions), `RowsInPast` (rows are valid once committed), and
  `MintsOpen` (a request that mints has begun before any row that it would have
  found), which is `MintedOnceUntilOverlap` for rows that are still to come.
  `ChecksAgree` follows from a comparison of the three decisions grant by grant (a
  plain grant counts for the API and for the database alike, `PlainCounts`), and `AccessBeginsWithRow` from the clock only moving forward. For `Desk`, `DeskInv`
  is inductive: only who may review stamps (`StampsEntitled`; roles are never
  taken away and destinations never change), columns are of stamps
  (`ColumnsStamped`), `SeenUntilOverlap` as above, and `LastStampShown`, which is
  `StampWholeUntilOverlap` without CHOOSE. `WholeSpec` lets both components step over the roles and the
  clock they share: a step of the desk is at most one of the clock to `Access`
  and gives nobody access (`WholeAccessBegins`), one of `Access` takes no role away
  and leaves the desk alone, so the two invariants hold together (`WholeSafe`).

Checked by TLC only: `UploadsEnd` and `RequestsEnd` (liveness under fairness is out
of the provers' reach; that uploads never wait in a circle is proved), and the
two violations, which are counterexamples.

## 5. Not modelled

* Login with TOTP, signed tokens and the setup of MFA: checks of one row and of a
  signature. The reset of a password is one step of `Accounts`; its token is not
  stored anywhere.
* The datasets of the departments (`services.py` 794-886): a constant table of roles,
  look-ups in it, and records that are inserted and never changed.
* Ranking, facets and text extraction of the search (read only, no state), identity
  number formats (data), request schemas, application start.
* The rendering of the frontend. Its client gives up after a timeout and never
  repeats by itself; what a user repeats is one more request, as the models have
  any number of them.
* PostgreSQL in `backup.py`: it is dumped with `pg_dump`, and a restore of it is
  refused. Two backup tools at a time, and a restore under a running application,
  are outside of what the tool is for. The Supabase storage.
* Encryption of stored files, the cryptography of signatures and hashes, and mail
  are taken to do what they say.

## 6. What could follow

1. `Transfers` over `Access`: the grants of acceptances in the checks.
2. The sign endpoint and the verification of signatures over `EvidenceUpload`.
3. A proof that a circle of acceptances (`Classification`) is one that `Deadlock`
   ends.
