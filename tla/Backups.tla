------------------------------- MODULE Backups -------------------------------
(***************************************************************************)
(* The two stores of the evidence and their copies: backend/app/backup.py  *)
(* (create, verify, restore) beside the uploads that go on meanwhile, with *)
(* the files of LocalStorage (backend/app/storage.py) and a database that  *)
(* is one SQLite file.                                                     *)
(*                                                                         *)
(* A backup copies the database first and then walks over the files; its   *)
(* directory is named after the second in which it began, so a second      *)
(* backup in that second writes into the directory of the first.  One      *)
(* backup or restore runs at a time, and a restore while the application   *)
(* is stopped.                                                             *)
(*                                                                         *)
(* Contents are told apart as far as a hash does: "orig" is what was       *)
(* uploaded, "alt" anything else, "part" a file that is being written.  An *)
(* event has a hash over its own text: an "alt" event differs from what    *)
(* that hash was made of, and of a "forged" one it was made again.         *)
(***************************************************************************)
EXTENDS Naturals

CONSTANTS
  Version,     \* ids of document versions; each upload has its own
  Seconds,     \* bound: how many different seconds backups begin in
  MaxFaults    \* bound: how often something is damaged or lost

ASSUME BoundsAssumption == Seconds \in Nat /\ MaxFaults \in Nat

VARIABLES
  stage,     \* how far the upload of each version has come
  db,        \* the database: content_hash and case event of each version
  files,     \* the files of the object storage, by version
  tool,      \* what the backup tool is doing
  dirs,      \* the backup directories, by second
  faults,    \* how many faults there were
  hurt,      \* versions whose bytes were ever damaged or lost in the storage
  restored   \* the last complete forced restore, and what was hurt before or since

vars == <<stage, db, files, tool, dirs, faults, hurt, restored>>

Second == 1 .. Seconds
Bytes == {"none", "part", "orig", "alt"}
Hash == {"none", "orig", "alt"}
Told == Hash \cup {"forged"}

Lost == [kind |-> "lost"]
Torn == [kind |-> "torn"]    \* pages of two moments, or half of a file
Database == [kind : {"whole"}, rows : [Version -> Hash], events : [Version -> Told]]
Archive == [kind : {"whole"}, files : [Version -> Bytes]]

Artifact == [db : Database \cup {Lost, Torn}, archive : Archive \cup {Lost, Torn}]
NoManifest == [db |-> Lost, archive |-> Lost]

\* manifest stands for the hashes in manifest.json; hurt is what the storage
\* had lost when it was written.
Directory == [db : Database \cup {Lost, Torn}, archive : Archive \cup {Lost, Torn},
              manifest : Artifact, hurt : SUBSET Version]

Empty == [db |-> Lost, archive |-> Lost, manifest |-> NoManifest, hurt |-> {}]

\* seen is the database that the pages copied so far are of; walked and left are the files that
\* are in the archive and those that the walk still has to come to.
Resting == [pc |-> "idle"]
Tool == [pc : {"copying"}, dir : Second, seen : Database]
   \cup [pc : {"walking"}, dir : Second, walked : [Version -> Bytes], left : SUBSET Version]
   \cup [pc : {"closing", "extracting"}, dir : Second]

TypeOK ==
  /\ stage \in [Version -> {"new", "putting", "put", "committed", "done"}]
  /\ db \in Database \cup {Lost, Torn}
  /\ files \in [Version -> Bytes]
  /\ tool \in Tool \cup {Resting}
  /\ dirs \in [Second -> Directory]
  /\ faults \in Nat
  /\ hurt \subseteq Version
  /\ restored \in [on : BOOLEAN, hurt : SUBSET Version]

Init ==
  /\ stage = [v \in Version |-> "new"]
  /\ db = [kind |-> "whole", rows |-> [v \in Version |-> "none"],
           events |-> [v \in Version |-> "none"]]
  /\ files = [v \in Version |-> "none"]
  /\ tool = Resting
  /\ dirs = [d \in Second |-> Empty]
  /\ faults = 0
  /\ hurt = {}
  /\ restored = [on |-> FALSE, hurt |-> {}]

-----------------------------------------------------------------------------
(* Uploads, as far as the stores see them; the whole handler is the subject *)
(* of EvidenceUpload                                                       *)

Running == db.kind = "whole" /\ tool.pc # "extracting"
Present == {v \in Version : files[v] # "none"}
Committed == {v \in Version : db.kind = "whole" /\ db.rows[v] # "none"}

\* storage.put() opens the file and copies into it ...
Open(v) ==
  /\ Running /\ stage[v] = "new"
  /\ stage' = [stage EXCEPT ![v] = "putting"]
  /\ files' = [files EXCEPT ![v] = "part"]
  /\ UNCHANGED <<db, tool, dirs, faults, hurt, restored>>

Put(v) ==
  /\ Running /\ stage[v] = "putting"
  /\ stage' = [stage EXCEPT ![v] = "put"]
  /\ files' = [files EXCEPT ![v] = "orig"]
  /\ UNCHANGED <<db, tool, dirs, faults, hurt, restored>>

\* ... then one commit makes the version and its case event.
Commit(v) ==
  /\ Running /\ stage[v] = "put"
  /\ stage' = [stage EXCEPT ![v] = "committed"]
  /\ db' = [db EXCEPT !.rows[v] = "orig", !.events[v] = "orig"]
  /\ UNCHANGED <<files, tool, dirs, faults, hurt, restored>>

Finish(v) ==
  /\ Running /\ stage[v] = "committed"
  /\ stage' = [stage EXCEPT ![v] = "done"]
  /\ UNCHANGED <<db, files, tool, dirs, faults, hurt, restored>>

\* The storage loses or alters bytes.
Harm(S, contents) ==
  /\ files' = [v \in Version |-> IF v \in S THEN contents ELSE files[v]]
  /\ hurt' = hurt \cup S
  /\ restored' = [restored EXCEPT !.hurt = @ \cup S]

\* The except clause deletes the file, also when the version is committed and
\* what fails is its classification; or the process dies and leaves it.
FailUpload(v) ==
  /\ stage[v] \in {"putting", "put", "committed"}
  /\ stage' = [stage EXCEPT ![v] = "done"]
  /\ Harm({v}, "none") \/ UNCHANGED <<files, hurt, restored>>
  /\ UNCHANGED <<db, tool, dirs, faults>>

-----------------------------------------------------------------------------
(* Backup *)

\* create_backup() as far as it begins to copy the database: there has to be
\* one.  The second d is that of the last backup or a later one.
CreateBackup(d) ==
  /\ tool = Resting
  /\ db.kind = "whole"
  /\ \A later \in Second : later > d => dirs[later] = Empty
  /\ tool' = [pc |-> "copying", dir |-> d, seen |-> db]
  /\ dirs' = [dirs EXCEPT ![d].db = Torn]
  /\ UNCHANGED <<stage, db, files, faults, hurt, restored>>

Walk(d) == [pc |-> "walking", dir |-> d, walked |-> [v \in Version |-> "none"], left |-> Present]

\* Something was committed, but to none of the pages that are copied: they are
\* as well of the database as it is now.
CopyPages ==
  /\ tool.pc = "copying"
  /\ db.kind = "whole" /\ db # tool.seen
  /\ tool' = [tool EXCEPT !.seen = db]
  /\ UNCHANGED <<stage, db, files, dirs, faults, hurt, restored>>

\* The copy is there: of the database as its pages were seen, or as it is now,
\* or of both and torn.  Then the archive is begun.
CopyDatabase ==
  /\ tool.pc = "copying"
  /\ tool' = Walk(tool.dir)
  /\ \E copy \in {tool.seen, db, Torn} :
       /\ copy # Lost
       /\ copy = Torn => db # tool.seen
       /\ dirs' = [dirs EXCEPT ![tool.dir].db = copy, ![tool.dir].archive = Torn]
  /\ UNCHANGED <<stage, db, files, faults, hurt, restored>>

\* The walk comes to a file; it must come to those that were there when it
\* began, and one that has gone is passed over.
WalkFile(v) ==
  /\ tool.pc = "walking"
  /\ v \in tool.left \/ (v \in Present /\ tool.walked[v] = "none")
  /\ tool' = [tool EXCEPT !.walked[v] = files[v], !.left = @ \ {v}]
  /\ UNCHANGED <<stage, db, files, dirs, faults, hurt, restored>>

\* Mutant of CloseArchive: the database is copied after the files.
CloseArchiveFirst ==
  /\ tool.pc = "walking" /\ tool.left = {} /\ db # Lost
  /\ dirs' = [dirs EXCEPT ![tool.dir].archive = [kind |-> "whole", files |-> tool.walked],
                          ![tool.dir].db = db]
  /\ tool' = [pc |-> "closing", dir |-> tool.dir]
  /\ UNCHANGED <<stage, db, files, faults, hurt, restored>>

CloseArchive ==
  /\ tool.pc = "walking" /\ tool.left = {}
  /\ dirs' = [dirs EXCEPT ![tool.dir].archive = [kind |-> "whole", files |-> tool.walked]]
  /\ tool' = [pc |-> "closing", dir |-> tool.dir]
  /\ UNCHANGED <<stage, db, files, faults, hurt, restored>>

WriteManifest ==
  /\ tool.pc = "closing"
  /\ dirs' = [dirs EXCEPT
       ![tool.dir].manifest = [db |-> dirs[tool.dir].db, archive |-> dirs[tool.dir].archive],
       ![tool.dir].hurt = hurt]
  /\ tool' = Resting
  /\ UNCHANGED <<stage, db, files, faults, hurt, restored>>

(* Restore *)

\* Mutant of Verified: only the database is hashed again.
VerifiedDatabase(d) == dirs[d].manifest # NoManifest /\ dirs[d].manifest.db = dirs[d].db

\* verify_backup() finds a manifest and no problem.
Verified(d) ==
  /\ dirs[d].manifest # NoManifest
  /\ dirs[d].manifest = [db |-> dirs[d].db, archive |-> dirs[d].archive]

\* restore_backup() copies the database, over another one only if forced ...
RestoreDatabase(d, force) ==
  /\ tool = Resting
  /\ \A v \in Version : stage[v] \in {"new", "done"}
  /\ Verified(d)
  /\ db = Lost \/ force
  /\ db' = dirs[d].db
  /\ tool' = IF force THEN [pc |-> "extracting", dir |-> d] ELSE Resting
  /\ restored' = [on |-> FALSE, hurt |-> {}]
  /\ UNCHANGED <<stage, files, dirs, faults, hurt>>

\* Mutant of Extracted: a file that is there is kept.
ExtractedMissing(S, archive) ==
  [v \in Version |-> IF v \in S /\ archive[v] # "none" /\ files[v] = "none"
                     THEN archive[v] ELSE files[v]]

\* The files after the members S of an archive were extracted over them.
Extracted(S, archive) ==
  [v \in Version |-> IF v \in S /\ archive[v] # "none" THEN archive[v] ELSE files[v]]

\* What is extracted and is not what was uploaded.
Worse(archive) == {v \in Version : archive[v] \notin {"none", "orig"}}

\* ... and then, if forced, extracts the archive.
Extract ==
  /\ tool.pc = "extracting"
  /\ LET bundle == dirs[tool.dir] IN
       /\ bundle.archive.kind = "whole"
       /\ files' = Extracted(Version, bundle.archive.files)
       /\ hurt' = hurt \cup Worse(bundle.archive.files)
       /\ restored' = [on |-> TRUE, hurt |-> bundle.hurt]
  /\ tool' = Resting
  /\ UNCHANGED <<stage, db, dirs, faults>>

\* The tool dies: what it was writing stays as it is.
Die ==
  /\ tool # Resting
  /\ tool' = Resting
  /\ \/ UNCHANGED <<db, files, hurt>>
     \/ tool.pc = "extracting" /\ db' = Torn /\ UNCHANGED <<files, hurt>>
     \/ /\ tool.pc = "extracting" /\ dirs[tool.dir].archive.kind = "whole"
        /\ \E S \in SUBSET Version : files' = Extracted(S, dirs[tool.dir].archive.files)
        /\ hurt' = hurt \cup Worse(dirs[tool.dir].archive.files)
        /\ UNCHANGED db
  /\ UNCHANGED <<stage, dirs, faults, restored>>

-----------------------------------------------------------------------------
(* What a report or a restore is for *)

Fault == faults < MaxFaults /\ faults' = faults + 1

\* A file is altered, or it is lost, or all of them are.
HurtFiles(S, contents) ==
  /\ Fault
  /\ S = Version \/ \E v \in Version : S = {v}
  /\ S \cap Present # {}
  /\ Harm(S \cap Present, contents)
  /\ UNCHANGED <<stage, db, tool, dirs>>

HurtRow(v) ==
  /\ Fault
  /\ v \in Committed
  /\ db' = [db EXCEPT !.rows[v] = "alt"]
  /\ UNCHANGED <<stage, files, tool, dirs, hurt, restored>>

HurtEvent(v, contents) ==
  /\ Fault
  /\ v \in Committed
  /\ db' = [db EXCEPT !.events[v] = contents]
  /\ UNCHANGED <<stage, files, tool, dirs, hurt, restored>>

LoseDatabase ==
  /\ Fault
  /\ db' = Lost
  /\ UNCHANGED <<stage, files, tool, dirs, hurt, restored>>

\* A part of a backup is damaged or lost where no tool is at work.
HurtBackup(d) ==
  /\ Fault
  /\ tool = Resting
  /\ \E damage \in {Lost, Torn} :
       \/ dirs[d].db \notin {Lost, damage} /\ dirs' = [dirs EXCEPT ![d].db = damage]
       \/ dirs[d].archive \notin {Lost, damage} /\ dirs' = [dirs EXCEPT ![d].archive = damage]
  /\ UNCHANGED <<stage, db, files, tool, hurt, restored>>

UploadStep ==
  \E v \in Version : Open(v) \/ Put(v) \/ Commit(v) \/ Finish(v) \/ FailUpload(v)

ToolStep ==
  \/ CopyPages \/ CopyDatabase \/ CloseArchive \/ WriteManifest
  \/ \E v \in Version : WalkFile(v)
  \/ \E d \in Second : CreateBackup(d) \/ \E force \in BOOLEAN : RestoreDatabase(d, force)
  \/ Extract \/ Die

HurtStore ==
  \E S \in SUBSET Version, contents \in {"alt", "none"} : HurtFiles(S, contents)

HurtCopies == LoseDatabase \/ \E d \in Second : HurtBackup(d)

HurtRecord ==
  \E v \in Version :
    HurtRow(v) \/ \E contents \in {"alt", "forged", "none"} : HurtEvent(v, contents)

Next == UploadStep \/ ToolStep \/ HurtStore \/ HurtCopies \/ HurtRecord

Spec == Init /\ [][Next]_vars

-----------------------------------------------------------------------------
(* Properties *)

Rows(copy) == {v \in Version : copy.kind = "whole" /\ copy.rows[v] # "none"}

\* A backup that verifies, and whose copy of the database is not torn, holds
\* the bytes of every version that its database knows of, also when uploads
\* went on while it was made (backup.py:107) and when another backup of the
\* same second died in its directory (backup.py:97): all but those that the
\* storage had lost before.
BackupCovers ==
  \A d \in Second : Verified(d) =>
    \A v \in Rows(dirs[d].db) :
      v \in dirs[d].hurt
        \/ (dirs[d].archive.kind = "whole" /\ dirs[d].archive.files[v] = "orig")

\* After a complete forced restore, on whatever was left of the stores and of
\* a restore that died halfway (backup.py:183), the bytes of every version are
\* there, of those uploaded since too, but for those that were lost before the
\* backup or after the restore.
RestoredWhole ==
  restored.on => \A v \in Committed : v \in restored.hurt \/ files[v] = "orig"

-----------------------------------------------------------------------------
(* The inductive invariant behind these properties *)

\* What any database knows of is in the storage until it is hurt.
Known(v) ==
  \/ v \in Rows(db)
  \/ tool.pc = "copying" /\ v \in Rows(tool.seen)
  \/ \E d \in Second : v \in Rows(dirs[d].db)
KnownStay ==
  \A v \in Version : Known(v) =>
    /\ stage[v] \in {"committed", "done"}
    /\ v \in hurt \/ files[v] = "orig"

\* A file that is put is whole, unless it was hurt; after a restore, since then.
PutWhole ==
  \A v \in Version : stage[v] = "put" =>
    files[v] = "orig" \/ (v \in hurt /\ (restored.on => v \in restored.hurt))

\* What is behind the walk is in the archive.
WalkCovers ==
  tool.pc = "walking" => \A v \in Rows(dirs[tool.dir].db) :
    v \in tool.left \/ v \in hurt \/ tool.walked[v] = "orig"
ClosedCovers ==
  tool.pc = "closing" =>
    /\ dirs[tool.dir].archive.kind = "whole"
    /\ \A v \in Rows(dirs[tool.dir].db) :
         v \in hurt \/ dirs[tool.dir].archive.files[v] = "orig"

\* A manifest tells of a complete backup, whatever became of the copies.
ManifestCovers ==
  \A d \in Second : dirs[d].manifest # NoManifest =>
    /\ dirs[d].manifest.archive.kind = "whole"
    /\ \A v \in Rows(dirs[d].manifest.db) :
         v \in dirs[d].hurt \/ dirs[d].manifest.archive.files[v] = "orig"

\* Files are extracted over the database of the same backup, and nothing is
\* uploaded meanwhile.
ExtractsVerified ==
  tool.pc = "extracting" =>
    /\ Verified(tool.dir) /\ Rows(db) \subseteq Rows(dirs[tool.dir].db)
    /\ \A v \in Version : stage[v] \in {"new", "done"}
    /\ ~restored.on

BackupInv ==
  /\ TypeOK
  /\ KnownStay
  /\ PutWhole
  /\ WalkCovers
  /\ ClosedCovers
  /\ ManifestCovers
  /\ ExtractsVerified
  /\ RestoredWhole
=============================================================================
