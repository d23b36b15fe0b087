---------------------------- MODULE BackupsProofs ----------------------------
(***************************************************************************)
(* Theorems about Backups, and about the Reports on its stores, for any    *)
(* set of versions and any bounds.                                         *)
(***************************************************************************)
EXTENDS Reports, TLAPS

\* A database that is not there, or torn, knows of no version.
LEMMA NoRows == Rows(Lost) = {} /\ Rows(Torn) = {}
BY DEF Rows, Lost, Torn

\* A directory is a record of four things that are written one at a time.
LEMMA DirectoryFields ==
  ASSUME TypeOK, NEW d \in Second
  PROVE  /\ dirs[d].db \in Database \cup {Lost, Torn}
         /\ dirs[d].archive \in Archive \cup {Lost, Torn}
         /\ dirs[d].manifest \in Artifact
         /\ dirs[d].hurt \in SUBSET Version
<1>1. dirs[d] \in Directory
  BY DEF TypeOK
<1> QED
  BY <1>1 DEF Directory

\* What the tool holds at each point.
LEMMA ToolFields ==
  ASSUME TypeOK
  PROVE  /\ tool.pc = "copying" => tool.dir \in Second /\ tool.seen \in Database
         /\ tool.pc = "walking" =>
              /\ tool.dir \in Second
              /\ tool.walked \in [Version -> Bytes] /\ tool.left \in SUBSET Version
         /\ tool.pc \in {"closing", "extracting"} => tool.dir \in Second
         /\ tool.pc \in {"idle", "copying", "walking", "closing", "extracting"}
BY DEF TypeOK, Tool, Resting

-----------------------------------------------------------------------------
(* Types *)

LEMMA TypeInit == Init => TypeOK
BY DEF Init, TypeOK, Database, Hash, Told, Bytes, Empty, NoManifest, Directory, Artifact, Resting

LEMMA HarmTyped ==
  ASSUME TypeOK, NEW S \in SUBSET Version, NEW c \in Bytes, Harm(S, c)
  PROVE  /\ files' \in [Version -> Bytes] /\ hurt' \in SUBSET Version
         /\ restored' \in [on : BOOLEAN, hurt : SUBSET Version]
BY DEF TypeOK, Harm

LEMMA TypeNext == ASSUME TypeOK, [Next]_vars PROVE TypeOK'
<1>1. CASE UNCHANGED vars
  BY <1>1 DEF vars, TypeOK
<1>2. ASSUME NEW v \in Version, Open(v) PROVE TypeOK'
  BY <1>2 DEF TypeOK, Open, Bytes
<1>3. ASSUME NEW v \in Version, Put(v) PROVE TypeOK'
  BY <1>3 DEF TypeOK, Put, Bytes
<1>4. ASSUME NEW v \in Version, Commit(v) PROVE TypeOK'
  <2>1. db \in Database
    BY <1>4 DEF TypeOK, Commit, Running, Lost, Torn
  <2>2. db' \in Database
    BY <1>4, <2>1 DEF Commit, Database, Hash, Told
  <2> QED
    BY <1>4, <2>2 DEF TypeOK, Commit
<1>5. ASSUME NEW v \in Version, Finish(v) PROVE TypeOK'
  BY <1>5 DEF TypeOK, Finish
<1>6. ASSUME NEW v \in Version, FailUpload(v) PROVE TypeOK'
  <2>1. CASE Harm({v}, "none")
    BY <1>6, <2>1, HarmTyped DEF TypeOK, FailUpload, Bytes
  <2>2. CASE UNCHANGED <<files, hurt, restored>>
    BY <1>6, <2>2 DEF TypeOK, FailUpload
  <2> QED
    BY <1>6, <2>1, <2>2 DEF FailUpload
<1>7. ASSUME NEW d \in Second, CreateBackup(d) PROVE TypeOK'
  <2>1. tool' \in Tool
    BY <1>7 DEF TypeOK, CreateBackup, Tool, Lost, Torn
  <2>2. dirs' \in [Second -> Directory]
    BY <1>7 DEF TypeOK, CreateBackup, Directory
  <2> QED
    BY <1>7, <2>1, <2>2 DEF TypeOK, CreateBackup
<1>8. ASSUME CopyDatabase PROVE TypeOK'
  <2>1. tool.dir \in Second /\ tool.seen \in Database
    BY <1>8, ToolFields DEF CopyDatabase
  <2>2. tool' \in Tool
    BY <1>8, <2>1 DEF TypeOK, CopyDatabase, Walk, Tool, Present, Bytes
  <2>3. dirs' \in [Second -> Directory]
    <3>1. PICK copy \in {tool.seen, db, Torn} :
            dirs' = [dirs EXCEPT ![tool.dir].db = copy, ![tool.dir].archive = Torn]
      BY <1>8 DEF CopyDatabase
    <3>2. copy \in Database \cup {Lost, Torn}
      BY <2>1 DEF TypeOK
    <3> QED
      BY <2>1, <3>1, <3>2 DEF TypeOK, Directory
  <2> QED
    BY <1>8, <2>2, <2>3 DEF TypeOK, CopyDatabase
<1>8a. ASSUME CopyPages PROVE TypeOK'
  <2>1. tool \in [pc : {"copying"}, dir : Second, seen : Database]
    BY <1>8a DEF TypeOK, CopyPages, Tool, Resting
  <2>2. db \in Database
    BY <1>8a DEF TypeOK, CopyPages, Lost, Torn
  <2>3. tool' \in Tool
    BY <1>8a, <2>1, <2>2 DEF CopyPages, Tool
  <2> QED
    BY <1>8a, <2>3 DEF TypeOK, CopyPages
<1>9. ASSUME NEW v \in Version, WalkFile(v) PROVE TypeOK'
  <2>1. tool \in [pc : {"walking"}, dir : Second, walked : [Version -> Bytes], left : SUBSET Version]
    BY <1>9 DEF TypeOK, WalkFile, Tool, Resting
  <2>2. /\ tool' = [tool EXCEPT !.walked = [tool.walked EXCEPT ![v] = files[v]],
                                !.left = tool.left \ {v}]
        /\ [tool.walked EXCEPT ![v] = files[v]] \in [Version -> Bytes]
        /\ tool.left \ {v} \in SUBSET Version
    BY <1>9, <2>1 DEF TypeOK, WalkFile
  <2>3. tool' \in Tool
    BY <2>1, <2>2 DEF Tool
  <2> QED
    BY <1>9, <2>3 DEF TypeOK, WalkFile
<1>10. ASSUME CloseArchive PROVE TypeOK'
  <2>1. tool.dir \in Second /\ tool.walked \in [Version -> Bytes]
    BY <1>10, ToolFields DEF CloseArchive
  <2>2. dirs' \in [Second -> Directory]
    BY <1>10, <2>1 DEF TypeOK, CloseArchive, Directory, Archive
  <2> QED
    BY <1>10, <2>1, <2>2 DEF TypeOK, CloseArchive, Tool
<1>11. ASSUME WriteManifest PROVE TypeOK'
  <2>1. tool.dir \in Second
    BY <1>11, ToolFields DEF WriteManifest
  <2>2. [db |-> dirs[tool.dir].db, archive |-> dirs[tool.dir].archive] \in Artifact
    BY <2>1, DirectoryFields DEF Artifact
  <2>3. dirs' \in [Second -> Directory]
    BY <1>11, <2>1, <2>2 DEF TypeOK, WriteManifest, Directory
  <2> QED
    BY <1>11, <2>3 DEF TypeOK, WriteManifest
<1>12. ASSUME NEW d \in Second, NEW force \in BOOLEAN, RestoreDatabase(d, force) PROVE TypeOK'
  <2>1. tool' \in Tool \cup {Resting}
    BY <1>12 DEF RestoreDatabase, Tool
  <2>2. db' \in Database \cup {Lost, Torn}
    BY <1>12, DirectoryFields DEF RestoreDatabase
  <2> QED
    BY <1>12, <2>1, <2>2 DEF TypeOK, RestoreDatabase
<1>13. ASSUME NEW d \in Second, dirs[d].archive.kind = "whole"
       PROVE  dirs[d].archive.files \in [Version -> Bytes]
  BY <1>13, DirectoryFields DEF Archive, Lost, Torn
<1>14. ASSUME Extract PROVE TypeOK'
  <2>1. tool.dir \in Second /\ dirs[tool.dir].archive.files \in [Version -> Bytes]
    BY <1>13, <1>14, ToolFields DEF Extract
  <2>2. files' \in [Version -> Bytes]
    BY <1>14, <2>1 DEF TypeOK, Extract, Extracted
  <2>3. hurt' \in SUBSET Version
    BY <1>14 DEF TypeOK, Extract, Worse
  <2>4. restored' \in [on : BOOLEAN, hurt : SUBSET Version]
    BY <1>14, <2>1, DirectoryFields DEF Extract
  <2> QED
    BY <1>14, <2>2, <2>3, <2>4 DEF TypeOK, Extract
<1>15. ASSUME Die PROVE TypeOK'
  <2>1. CASE \/ UNCHANGED <<db, files, hurt>>
             \/ db' = Torn /\ UNCHANGED <<files, hurt>>
    BY <1>15, <2>1 DEF TypeOK, Die
  <2>2. CASE /\ tool.pc = "extracting" /\ dirs[tool.dir].archive.kind = "whole"
             /\ \E S \in SUBSET Version : files' = Extracted(S, dirs[tool.dir].archive.files)
             /\ hurt' = hurt \cup Worse(dirs[tool.dir].archive.files)
             /\ UNCHANGED db
    <3>1. tool.dir \in Second /\ dirs[tool.dir].archive.files \in [Version -> Bytes]
      BY <1>13, <2>2, ToolFields
    <3>2. files' \in [Version -> Bytes]
      BY <2>2, <3>1 DEF TypeOK, Extracted
    <3>3. hurt' \in SUBSET Version
      BY <2>2 DEF TypeOK, Worse
    <3> QED
      BY <1>15, <2>2, <3>2, <3>3 DEF TypeOK, Die
  <2> QED
    BY <1>15, <2>1, <2>2 DEF Die
<1>16. ASSUME NEW S \in SUBSET Version, NEW c \in {"alt", "none"}, HurtFiles(S, c) PROVE TypeOK'
  <2>1. Harm(S \cap Present, c) /\ S \cap Present \in SUBSET Version /\ c \in Bytes
    BY <1>16 DEF HurtFiles, Bytes
  <2>2. /\ files' \in [Version -> Bytes] /\ hurt' \in SUBSET Version
        /\ restored' \in [on : BOOLEAN, hurt : SUBSET Version]
    BY <2>1, HarmTyped
  <2> QED
    BY <1>16, <2>2 DEF TypeOK, HurtFiles, Fault
<1>17. ASSUME NEW v \in Version, NEW c \in {"alt", "forged", "none"}, HurtRow(v) \/ HurtEvent(v, c)
       PROVE  TypeOK'
  <2>1. db \in Database
    BY <1>17 DEF TypeOK, HurtRow, HurtEvent, Committed, Lost, Torn
  <2>2. db' \in Database
    BY <1>17, <2>1 DEF HurtRow, HurtEvent, Database, Hash, Told
  <2> QED
    BY <1>17, <2>2 DEF TypeOK, HurtRow, HurtEvent, Fault
<1>18. ASSUME LoseDatabase PROVE TypeOK'
  BY <1>18 DEF TypeOK, LoseDatabase, Fault
<1>19. ASSUME NEW d \in Second, HurtBackup(d) PROVE TypeOK'
  <2>1. dirs' \in [Second -> Directory]
    BY <1>19 DEF TypeOK, HurtBackup, Directory
  <2> QED
    BY <1>19, <2>1 DEF TypeOK, HurtBackup, Fault
<1> QED
  BY <1>1, <1>2, <1>3, <1>4, <1>5, <1>6, <1>7, <1>8, <1>8a, <1>9, <1>10, <1>11, <1>12, <1>14, <1>15,
     <1>16, <1>17, <1>18, <1>19
  DEF Next, UploadStep, ToolStep, HurtStore, HurtCopies, HurtRecord

-----------------------------------------------------------------------------
(* What steps have in common *)

\* Versions stay settled, and what is whole stays so unless it is hurt.
Keeps ==
  /\ hurt \subseteq hurt'
  /\ \A v \in Version : stage[v] \in {"committed", "done"} =>
       /\ stage'[v] \in {"committed", "done"}
       /\ files[v] = "orig" => files'[v] = "orig" \/ v \in hurt'

LEMMA KnownKept ==
  ASSUME KnownStay, Keeps,
         \A v \in Version : Known(v)' =>
           \/ Known(v)
           \/ stage'[v] \in {"committed", "done"} /\ (files'[v] = "orig" \/ v \in hurt')
  PROVE  KnownStay'
BY DEF KnownStay, Keeps

\* A step that leaves the tool and the backups alone.
LEMMA CopiesUntouched ==
  ASSUME WalkCovers, ClosedCovers, ManifestCovers,
         tool' = tool, dirs' = dirs, hurt \subseteq hurt'
  PROVE  WalkCovers' /\ ClosedCovers' /\ ManifestCovers'
<1>1. WalkCovers'
  BY DEF WalkCovers
<1>2. ClosedCovers'
  BY DEF ClosedCovers
<1>3. ManifestCovers'
  BY DEF ManifestCovers
<1> QED
  BY <1>1, <1>2, <1>3

\* A step that touches neither the stores nor what was restored.
LEMMA StoresUntouched ==
  ASSUME PutWhole, RestoredWhole, UNCHANGED <<stage, db, files, hurt, restored>>
  PROVE  PutWhole' /\ RestoredWhole'
BY DEF PutWhole, RestoredWhole, Committed

LEMMA HarmKeeps ==
  ASSUME TypeOK, NEW S \in SUBSET Version, NEW c \in Bytes, Harm(S, c)
  PROVE  /\ \A v \in Version : files'[v] = IF v \in S THEN c ELSE files[v]
         /\ hurt' = hurt \cup S
         /\ restored'.on = restored.on /\ restored'.hurt = restored.hurt \cup S
BY DEF TypeOK, Harm

-----------------------------------------------------------------------------
(* Uploads *)

\* An upload is never at work while files are extracted.
LEMMA UploadStepKeeps ==
  ASSUME BackupInv, NEW v \in Version,
         Open(v) \/ Put(v) \/ Commit(v) \/ Finish(v) \/ FailUpload(v)
  PROVE  KnownStay' /\ PutWhole' /\ RestoredWhole' /\ ExtractsVerified' /\ Keeps
<1> USE DEF BackupInv
<1>1. CASE Open(v)
  <2>1. Keeps
    BY <1>1 DEF Open, Keeps, TypeOK
  <2>2. \A w \in Version : Known(w)' => Known(w)
    BY <1>1 DEF Open, Known
  <2>3. KnownStay'
    BY <2>1, <2>2, KnownKept
  <2>4. PutWhole'
    BY <1>1 DEF Open, PutWhole, TypeOK
  <2>5. RestoredWhole'
    <3>1. Committed' = Committed /\ v \notin Committed
      BY <1>1 DEF Open, Committed, KnownStay, Known, Rows
    <3> QED
      BY <1>1, <3>1 DEF Open, RestoredWhole, Committed, TypeOK
  <2>6. ExtractsVerified'
    BY <1>1 DEF Open, Running, ExtractsVerified
  <2> QED
    BY <2>1, <2>3, <2>4, <2>5, <2>6
<1>2. CASE Put(v)
  <2>1. Keeps
    BY <1>2 DEF Put, Keeps, TypeOK
  <2>2. \A w \in Version : Known(w)' => Known(w)
    BY <1>2 DEF Put, Known
  <2>3. KnownStay'
    BY <2>1, <2>2, KnownKept
  <2>4. PutWhole'
    BY <1>2 DEF Put, PutWhole, TypeOK
  <2>5. RestoredWhole'
    BY <1>2 DEF Put, RestoredWhole, Committed, TypeOK
  <2>6. ExtractsVerified'
    BY <1>2 DEF Put, Running, ExtractsVerified
  <2> QED
    BY <2>1, <2>3, <2>4, <2>5, <2>6
<1>3. CASE Commit(v)
  <2>1. Keeps
    BY <1>3 DEF Commit, Keeps, TypeOK
  <2>2. db \in Database /\ db' = [db EXCEPT !.rows = [db.rows EXCEPT ![v] = "orig"],
                                            !.events = [db.events EXCEPT ![v] = "orig"]]
    BY <1>3 DEF Commit, Running, TypeOK, Lost, Torn
  <2>3. db'.kind = "whole" /\ \A w \in Version : w # v => db'.rows[w] = db.rows[w]
    BY <2>2 DEF Database
  <2>4. \A w \in Version : w \in Rows(db)' => w \in Rows(db) \/ w = v
    BY <1>3, <2>3 DEF Rows, Commit, Running
  <2>5. files[v] = "orig" \/ (v \in hurt /\ (restored.on => v \in restored.hurt))
    BY <1>3 DEF Commit, PutWhole
  <2>6. KnownStay'
    <3>1. ASSUME NEW w \in Version, Known(w)'
          PROVE  Known(w) \/ w = v
      BY <1>3, <2>4, <3>1 DEF Known, Commit
    <3>2. stage'[v] = "committed" /\ files' = files /\ hurt' = hurt
      BY <1>3 DEF Commit, TypeOK
    <3> QED
      BY <2>1, <2>5, <3>1, <3>2, KnownKept
  <2>7. PutWhole'
    BY <1>3 DEF Commit, PutWhole, TypeOK
  <2>8. RestoredWhole'
    BY <1>3, <2>4, <2>5 DEF Commit, RestoredWhole, Committed, Rows
  <2>9. ExtractsVerified'
    BY <1>3 DEF Commit, Running, ExtractsVerified
  <2> QED
    BY <2>1, <2>6, <2>7, <2>8, <2>9
<1>4. CASE Finish(v)
  <2>1. Keeps
    BY <1>4 DEF Finish, Keeps, TypeOK
  <2>2. \A w \in Version : Known(w)' => Known(w)
    BY <1>4 DEF Finish, Known
  <2>3. KnownStay'
    BY <2>1, <2>2, KnownKept
  <2>4. PutWhole'
    BY <1>4 DEF Finish, PutWhole, TypeOK
  <2>5. RestoredWhole'
    BY <1>4 DEF Finish, RestoredWhole, Committed
  <2>6. ExtractsVerified'
    BY <1>4 DEF Finish, Running, ExtractsVerified
  <2> QED
    BY <2>1, <2>3, <2>4, <2>5, <2>6
<1>5. CASE FailUpload(v)
  <2>1. \/ UNCHANGED <<files, hurt, restored>>
        \/ /\ \A w \in Version : files'[w] = IF w = v THEN "none" ELSE files[w]
           /\ hurt' = hurt \cup {v}
           /\ restored'.on = restored.on /\ restored'.hurt = restored.hurt \cup {v}
    BY <1>5, HarmKeeps DEF FailUpload, Bytes
  <2>2. /\ UNCHANGED <<db, tool, dirs>>
        /\ stage' = [stage EXCEPT ![v] = "done"] /\ stage[v] \in {"putting", "put", "committed"}
    BY <1>5 DEF FailUpload
  <2>3. Keeps
    BY <2>1, <2>2 DEF Keeps, TypeOK
  <2>4. \A w \in Version : Known(w)' => Known(w)
    BY <2>2 DEF Known
  <2>5. KnownStay'
    BY <2>3, <2>4, KnownKept
  <2>6. PutWhole'
    BY <2>1, <2>2 DEF PutWhole, TypeOK
  <2>7. RestoredWhole'
    <3>1. Committed' = Committed /\ Committed \subseteq Version
      BY <2>2 DEF Committed
    <3> QED
      BY <2>1, <3>1 DEF RestoredWhole
  <2>8. ExtractsVerified'
    <3> SUFFICES ASSUME tool.pc = "extracting" PROVE FALSE
      BY <2>2 DEF ExtractsVerified
    <3> QED
      BY <2>2 DEF ExtractsVerified
  <2> QED
    BY <2>3, <2>5, <2>6, <2>7, <2>8
<1> QED
  BY <1>1, <1>2, <1>3, <1>4, <1>5

LEMMA UploadStepInductive ==
  ASSUME BackupInv, UploadStep
  PROVE  BackupInv'
<1>1. PICK v \in Version : Open(v) \/ Put(v) \/ Commit(v) \/ Finish(v) \/ FailUpload(v)
  BY DEF UploadStep
<1>2. KnownStay' /\ PutWhole' /\ RestoredWhole' /\ ExtractsVerified' /\ hurt \subseteq hurt'
  BY <1>1, UploadStepKeeps DEF Keeps
<1>3. tool' = tool /\ dirs' = dirs
  BY <1>1 DEF Open, Put, Commit, Finish, FailUpload
<1>4. WalkCovers' /\ ClosedCovers' /\ ManifestCovers'
  BY <1>2, <1>3, CopiesUntouched DEF BackupInv
<1>5. TypeOK'
  BY TypeNext DEF BackupInv, Next
<1> QED
  BY <1>2, <1>4, <1>5 DEF BackupInv

-----------------------------------------------------------------------------
(* The backup tool *)

LEMMA KeepsWhereUntouched ==
  ASSUME UNCHANGED <<stage, files, hurt>>
  PROVE  Keeps
BY DEF Keeps

LEMMA CreateBackupInductive ==
  ASSUME BackupInv, NEW d \in Second, CreateBackup(d)
  PROVE  BackupInv'
<1> USE DEF BackupInv
<1>1. /\ tool' = [pc |-> "copying", dir |-> d, seen |-> db]
      /\ UNCHANGED <<stage, db, files, faults, hurt, restored>>
  BY DEF CreateBackup
<1>2. \A e \in Second : /\ dirs'[e].db = IF e = d THEN Torn ELSE dirs[e].db
                        /\ dirs'[e].manifest = dirs[e].manifest
                        /\ dirs'[e].hurt = dirs[e].hurt
  BY DEF CreateBackup, TypeOK, Directory
<1>3. KnownStay'
  <2>1. \A w \in Version : Known(w)' => Known(w)
    BY <1>1, <1>2, NoRows DEF Known
  <2> QED
    BY <1>1, <2>1, KnownKept, KeepsWhereUntouched
<1>4. PutWhole' /\ RestoredWhole'
  BY <1>1, StoresUntouched
<1>5. WalkCovers' /\ ClosedCovers' /\ ExtractsVerified'
  BY <1>1 DEF WalkCovers, ClosedCovers, ExtractsVerified
<1>6. ManifestCovers'
  BY <1>2 DEF ManifestCovers
<1>7. TypeOK'
  BY TypeNext DEF Next, ToolStep
<1> QED
  BY <1>3, <1>4, <1>5, <1>6, <1>7

LEMMA CopyPagesInductive ==
  ASSUME BackupInv, CopyPages
  PROVE  BackupInv'
<1> USE DEF BackupInv
<1>1. tool.pc = "copying" /\ tool'.pc = "copying" /\ tool'.seen = db
  BY DEF CopyPages, TypeOK, Tool, Resting
<1>2. UNCHANGED <<stage, db, files, dirs, faults, hurt, restored>>
  BY DEF CopyPages
<1>3. KnownStay'
  <2>1. \A w \in Version : Known(w)' => Known(w)
    BY <1>1, <1>2 DEF Known
  <2> QED
    BY <1>2, <2>1, KnownKept, KeepsWhereUntouched
<1>4. PutWhole' /\ RestoredWhole'
  BY <1>2, StoresUntouched
<1>5. WalkCovers' /\ ClosedCovers' /\ ExtractsVerified'
  BY <1>1 DEF WalkCovers, ClosedCovers, ExtractsVerified
<1>6. ManifestCovers'
  BY <1>2 DEF ManifestCovers
<1>7. TypeOK'
  BY TypeNext DEF Next, ToolStep
<1> QED
  BY <1>3, <1>4, <1>5, <1>6, <1>7

LEMMA CopyDatabaseInductive ==
  ASSUME BackupInv, CopyDatabase
  PROVE  BackupInv'
<1> USE DEF BackupInv
<1>1. tool.pc = "copying" /\ tool.dir \in Second /\ tool' = Walk(tool.dir)
  BY ToolFields DEF CopyDatabase
<1>2. UNCHANGED <<stage, db, files, faults, hurt, restored>>
  BY DEF CopyDatabase
<1>3. PICK copy \in {tool.seen, db, Torn} :
        \A e \in Second : /\ dirs'[e].db = IF e = tool.dir THEN copy ELSE dirs[e].db
                          /\ dirs'[e].manifest = dirs[e].manifest
                          /\ dirs'[e].hurt = dirs[e].hurt
  BY <1>1 DEF CopyDatabase, TypeOK, Directory
<1>4. \A w \in Version : w \in Rows(copy) => Known(w)
  BY <1>1, NoRows DEF Known
<1>5. KnownStay'
  <2>1. \A w \in Version : Known(w)' => Known(w)
    BY <1>1, <1>2, <1>3, <1>4 DEF Known, Walk
  <2> QED
    BY <1>2, <2>1, KnownKept, KeepsWhereUntouched
<1>6. PutWhole' /\ RestoredWhole'
  BY <1>2, StoresUntouched
<1>7. WalkCovers'
  <2>1. \A w \in Version : w \in Rows(copy) => w \in Present \/ w \in hurt
    BY <1>4 DEF KnownStay, Present
  <2>2. tool'.dir = tool.dir /\ tool'.left = Present
    BY <1>1 DEF Walk
  <2>3. Rows(dirs'[tool.dir].db) \subseteq Version /\ dirs'[tool.dir].db = copy
    BY <1>1, <1>3 DEF Rows
  <2> QED
    BY <1>2, <2>1, <2>2, <2>3 DEF WalkCovers
<1>8. ClosedCovers' /\ ExtractsVerified'
  BY <1>1 DEF ClosedCovers, ExtractsVerified, Walk
<1>9. ManifestCovers'
  BY <1>3 DEF ManifestCovers
<1>10. TypeOK'
  BY TypeNext DEF Next, ToolStep
<1> QED
  BY <1>5, <1>6, <1>7, <1>8, <1>9, <1>10

LEMMA WalkFileInductive ==
  ASSUME BackupInv, NEW v \in Version, WalkFile(v)
  PROVE  BackupInv'
<1> USE DEF BackupInv
<1>1. /\ tool.pc = "walking" /\ tool'.pc = "walking" /\ tool'.dir = tool.dir
      /\ tool'.left = tool.left \ {v}
      /\ \A w \in Version : tool'.walked[w] = IF w = v THEN files[v] ELSE tool.walked[w]
  BY ToolFields DEF WalkFile, TypeOK, Tool, Resting
<1>2. UNCHANGED <<stage, db, files, dirs, faults, hurt, restored>>
  BY DEF WalkFile
<1>3. KnownStay'
  <2>1. \A w \in Version : Known(w)' => Known(w)
    BY <1>1, <1>2 DEF Known
  <2> QED
    BY <1>2, <2>1, KnownKept, KeepsWhereUntouched
<1>4. PutWhole' /\ RestoredWhole'
  BY <1>2, StoresUntouched
<1>5. WalkCovers'
  <2>1. tool.dir \in Second
    BY <1>1, ToolFields
  <2>2. \A w \in Rows(dirs[tool.dir].db) : w \in hurt \/ files[w] = "orig"
    BY <2>1 DEF KnownStay, Known, Rows
  <2>3. Rows(dirs[tool.dir].db) \subseteq Version
    BY DEF Rows
  <2> QED
    BY <1>1, <1>2, <2>2, <2>3 DEF WalkCovers
<1>6. ClosedCovers' /\ ExtractsVerified'
  BY <1>1 DEF ClosedCovers, ExtractsVerified
<1>7. ManifestCovers'
  BY <1>2 DEF ManifestCovers
<1>8. TypeOK'
  BY TypeNext DEF Next, ToolStep
<1> QED
  BY <1>3, <1>4, <1>5, <1>6, <1>7, <1>8

LEMMA CloseArchiveInductive ==
  ASSUME BackupInv, CloseArchive
  PROVE  BackupInv'
<1> USE DEF BackupInv
<1>1. /\ tool.pc = "walking" /\ tool.dir \in Second /\ tool.left = {}
      /\ tool' = [pc |-> "closing", dir |-> tool.dir]
  BY ToolFields DEF CloseArchive
<1>2. UNCHANGED <<stage, db, files, faults, hurt, restored>>
  BY DEF CloseArchive
<1>3. /\ \A e \in Second : /\ dirs'[e].db = dirs[e].db
                           /\ dirs'[e].manifest = dirs[e].manifest
                           /\ dirs'[e].hurt = dirs[e].hurt
      /\ dirs'[tool.dir].archive = [kind |-> "whole", files |-> tool.walked]
  BY <1>1 DEF CloseArchive, TypeOK, Directory
<1>4. KnownStay'
  <2>1. \A w \in Version : Known(w)' => Known(w)
    BY <1>1, <1>2, <1>3 DEF Known
  <2> QED
    BY <1>2, <2>1, KnownKept, KeepsWhereUntouched
<1>5. PutWhole' /\ RestoredWhole'
  BY <1>2, StoresUntouched
<1>6. ClosedCovers'
  BY <1>1, <1>2, <1>3 DEF WalkCovers, ClosedCovers
<1>7. WalkCovers' /\ ExtractsVerified'
  BY <1>1 DEF WalkCovers, ExtractsVerified
<1>8. ManifestCovers'
  BY <1>3 DEF ManifestCovers
<1>9. TypeOK'
  BY TypeNext DEF Next, ToolStep
<1> QED
  BY <1>4, <1>5, <1>6, <1>7, <1>8, <1>9

LEMMA WriteManifestInductive ==
  ASSUME BackupInv, WriteManifest
  PROVE  BackupInv'
<1> USE DEF BackupInv
<1>1. tool.pc = "closing" /\ tool.dir \in Second /\ tool' = Resting
  BY ToolFields DEF WriteManifest
<1>2. UNCHANGED <<stage, db, files, faults, hurt, restored>>
  BY DEF WriteManifest
<1>3. /\ \A e \in Second : dirs'[e].db = dirs[e].db
      /\ \A e \in Second \ {tool.dir} : dirs'[e] = dirs[e]
      /\ dirs'[tool.dir].manifest = [db |-> dirs[tool.dir].db, archive |-> dirs[tool.dir].archive]
      /\ dirs'[tool.dir].hurt = hurt
  BY <1>1 DEF WriteManifest, TypeOK, Directory
<1>4. KnownStay'
  <2>1. \A w \in Version : Known(w)' => Known(w)
    BY <1>1, <1>2, <1>3 DEF Known, Resting
  <2> QED
    BY <1>2, <2>1, KnownKept, KeepsWhereUntouched
<1>5. PutWhole' /\ RestoredWhole'
  BY <1>2, StoresUntouched
<1>6. WalkCovers' /\ ClosedCovers' /\ ExtractsVerified'
  BY <1>1 DEF WalkCovers, ClosedCovers, ExtractsVerified, Resting
<1>7. ManifestCovers'
  <2> SUFFICES ASSUME NEW e \in Second, dirs'[e].manifest # NoManifest
               PROVE  /\ dirs'[e].manifest.archive.kind = "whole"
                      /\ \A v \in Rows(dirs'[e].manifest.db) :
                           v \in dirs'[e].hurt \/ dirs'[e].manifest.archive.files[v] = "orig"
    BY DEF ManifestCovers
  <2>1. CASE e = tool.dir
    <3>1. /\ dirs'[e].manifest.db = dirs[e].db /\ dirs'[e].manifest.archive = dirs[e].archive
          /\ dirs'[e].hurt = hurt
      BY <1>3, <2>1
    <3> QED
      BY <1>1, <2>1, <3>1 DEF ClosedCovers
  <2>2. CASE e # tool.dir
    BY <1>3, <2>2 DEF ManifestCovers
  <2> QED
    BY <2>1, <2>2
<1>8. TypeOK'
  BY TypeNext DEF Next, ToolStep
<1> QED
  BY <1>4, <1>5, <1>6, <1>7, <1>8

LEMMA RestoreDatabaseInductive ==
  ASSUME BackupInv, NEW d \in Second, NEW force \in BOOLEAN, RestoreDatabase(d, force)
  PROVE  BackupInv'
<1> USE DEF BackupInv
<1>1. /\ Verified(d) /\ db' = dirs[d].db
      /\ \A v \in Version : stage[v] \in {"new", "done"}
      /\ tool' = Resting \/ tool' = [pc |-> "extracting", dir |-> d]
      /\ ~restored'.on
      /\ UNCHANGED <<stage, files, dirs, hurt>>
  BY DEF RestoreDatabase
<1>2. KnownStay'
  <2>1. \A w \in Version : Known(w)' => Known(w)
    BY <1>1 DEF Known, Resting
  <2> QED
    BY <1>1, <2>1, KnownKept, KeepsWhereUntouched
<1>3. PutWhole' /\ RestoredWhole'
  BY <1>1 DEF PutWhole, RestoredWhole
<1>4. WalkCovers' /\ ClosedCovers'
  BY <1>1 DEF WalkCovers, ClosedCovers, Resting
<1>5. ManifestCovers'
  BY <1>1 DEF ManifestCovers
<1>6. ExtractsVerified'
  BY <1>1 DEF ExtractsVerified, Verified, Rows, Resting
<1>7. TypeOK'
  BY TypeNext DEF Next, ToolStep
<1> QED
  BY <1>2, <1>3, <1>4, <1>5, <1>6, <1>7

\* Extracting members of an archive harms nothing but what the archive has
\* in another form than it was uploaded in.
LEMMA ExtractedKeeps ==
  ASSUME TypeOK, NEW S \in SUBSET Version, NEW archive \in [Version -> Bytes],
         files' = Extracted(S, archive), hurt' = hurt \cup Worse(archive), stage' = stage
  PROVE  Keeps
<1>1. \A v \in Version : files'[v] = files[v] \/ files'[v] = "orig" \/ v \in hurt'
  BY DEF Extracted, Worse
<1> QED
  BY <1>1 DEF Keeps

LEMMA ArchiveTyped ==
  ASSUME TypeOK, NEW d \in Second, dirs[d].archive.kind = "whole"
  PROVE  dirs[d].archive.files \in [Version -> Bytes]
BY DirectoryFields DEF Archive, Lost, Torn

LEMMA ExtractInductive ==
  ASSUME BackupInv, Extract
  PROVE  BackupInv'
<1> USE DEF BackupInv
<1> DEFINE bundle == dirs[tool.dir]
<1>1. /\ tool.pc = "extracting" /\ tool.dir \in Second /\ bundle.archive.kind = "whole"
      /\ bundle.archive.files \in [Version -> Bytes]
  BY ToolFields, ArchiveTyped DEF Extract
<1>2. /\ files' = Extracted(Version, bundle.archive.files)
      /\ hurt' = hurt \cup Worse(bundle.archive.files)
      /\ restored' = [on |-> TRUE, hurt |-> bundle.hurt]
      /\ tool' = Resting
      /\ UNCHANGED <<stage, db, dirs, faults>>
  BY DEF Extract
<1>3. KnownStay'
  <2>1. \A w \in Version : Known(w)' => Known(w)
    BY <1>2 DEF Known, Resting
  <2>2. Keeps
    BY <1>1, <1>2, ExtractedKeeps
  <2> QED
    BY <2>1, <2>2, KnownKept
<1>4. /\ \A v \in Version : stage[v] \in {"new", "done"}
      /\ Verified(tool.dir) /\ Rows(db) \subseteq Rows(bundle.db)
  BY <1>1 DEF ExtractsVerified
<1>5. PutWhole'
  BY <1>2, <1>4 DEF PutWhole
<1>6. RestoredWhole'
  <2>1. bundle.manifest # NoManifest
        /\ bundle.manifest.db = bundle.db /\ bundle.manifest.archive = bundle.archive
    BY <1>4 DEF Verified
  <2>2. \A v \in Rows(bundle.db) : v \in bundle.hurt \/ bundle.archive.files[v] = "orig"
    BY <1>1, <2>1 DEF ManifestCovers
  <2>3. \A v \in Version : bundle.archive.files[v] = "orig" => files'[v] = "orig"
    BY <1>2 DEF Extracted
  <2>4. Committed' = Rows(db)
    BY <1>2 DEF Committed, Rows
  <2>5. Rows(db) \subseteq Version
    BY DEF Rows
  <2>6. restored'.hurt = bundle.hurt
    BY <1>2
  <2> QED
    BY <1>4, <2>2, <2>3, <2>4, <2>5, <2>6 DEF RestoredWhole
<1>7. WalkCovers' /\ ClosedCovers' /\ ExtractsVerified'
  BY <1>2 DEF WalkCovers, ClosedCovers, ExtractsVerified, Resting
<1>8. ManifestCovers'
  BY <1>2 DEF ManifestCovers
<1>9. TypeOK'
  BY TypeNext DEF Next, ToolStep
<1> QED
  BY <1>3, <1>5, <1>6, <1>7, <1>8, <1>9

LEMMA DieInductive ==
  ASSUME BackupInv, Die
  PROVE  BackupInv'
<1> USE DEF BackupInv
<1>1. tool # Resting /\ tool' = Resting /\ UNCHANGED <<stage, dirs, faults, restored>>
  BY DEF Die
<1>2. /\ db' = db \/ (tool.pc = "extracting" /\ db' = Torn)
      /\ UNCHANGED <<files, hurt>> \/ tool.pc = "extracting"
  BY DEF Die
<1>3. Keeps
  <2>1. CASE UNCHANGED <<files, hurt>>
    BY <1>1, <2>1, KeepsWhereUntouched
  <2>2. CASE /\ tool.pc = "extracting" /\ dirs[tool.dir].archive.kind = "whole"
             /\ \E S \in SUBSET Version : files' = Extracted(S, dirs[tool.dir].archive.files)
             /\ hurt' = hurt \cup Worse(dirs[tool.dir].archive.files)
    <3>1. tool.dir \in Second
      BY <2>2, ToolFields
    <3>2. dirs[tool.dir].archive.files \in [Version -> Bytes]
      BY <2>2, <3>1, ArchiveTyped
    <3> QED
      BY <1>1, <2>2, <3>2, ExtractedKeeps
  <2> QED
    BY <2>1, <2>2 DEF Die
<1>4. KnownStay'
  <2>1. \A w \in Version : Known(w)' => Known(w)
    BY <1>1, <1>2, NoRows DEF Known, Resting
  <2> QED
    BY <1>3, <2>1, KnownKept
<1>5. PutWhole' /\ RestoredWhole'
  <2>1. CASE tool.pc = "extracting"
    BY <1>1, <2>1 DEF ExtractsVerified, PutWhole, RestoredWhole
  <2>2. CASE tool.pc # "extracting"
    BY <1>1, <1>2, <2>2, StoresUntouched
  <2> QED
    BY <2>1, <2>2
<1>6. WalkCovers' /\ ClosedCovers' /\ ExtractsVerified'
  BY <1>1 DEF WalkCovers, ClosedCovers, ExtractsVerified, Resting
<1>7. ManifestCovers'
  BY <1>1 DEF ManifestCovers
<1>8. TypeOK'
  BY TypeNext DEF Next, ToolStep
<1> QED
  BY <1>4, <1>5, <1>6, <1>7, <1>8

LEMMA ToolStepInductive ==
  ASSUME BackupInv, ToolStep
  PROVE  BackupInv'
BY CreateBackupInductive, CopyPagesInductive, CopyDatabaseInductive, WalkFileInductive, CloseArchiveInductive,
   WriteManifestInductive, RestoreDatabaseInductive, ExtractInductive, DieInductive
DEF ToolStep

-----------------------------------------------------------------------------
(* Faults *)

LEMMA HurtStoreInductive ==
  ASSUME BackupInv, HurtStore
  PROVE  BackupInv'
<1> USE DEF BackupInv
<1>1. PICK S \in SUBSET Version, c \in {"alt", "none"} : HurtFiles(S, c)
  BY DEF HurtStore
<1> DEFINE H == S \cap Present
<1>2. /\ \A v \in Version : files'[v] = IF v \in H THEN c ELSE files[v]
      /\ hurt' = hurt \cup H
      /\ restored'.on = restored.on /\ restored'.hurt = restored.hurt \cup H
      /\ UNCHANGED <<stage, db, tool, dirs>>
  <2>1. Harm(H, c) /\ H \in SUBSET Version /\ c \in Bytes
    BY <1>1 DEF HurtFiles, Bytes
  <2> HIDE DEF H
  <2>2. /\ \A v \in Version : files'[v] = IF v \in H THEN c ELSE files[v]
        /\ hurt' = hurt \cup H
        /\ restored'.on = restored.on /\ restored'.hurt = restored.hurt \cup H
    BY <2>1, HarmKeeps
  <2> QED
    BY <1>1, <2>2 DEF HurtFiles
<1> HIDE DEF H
<1>3. KnownStay'
  <2>1. \A w \in Version : Known(w)' => Known(w)
    BY <1>2 DEF Known
  <2>2. Keeps
    BY <1>2 DEF Keeps
  <2> QED
    BY <2>1, <2>2, KnownKept
<1>4. PutWhole'
  BY <1>2 DEF PutWhole
<1>5. RestoredWhole'
  <2>1. Committed' = Committed /\ Committed \subseteq Version
    BY <1>2 DEF Committed
  <2> QED
    BY <1>2, <2>1 DEF RestoredWhole
<1>6. WalkCovers' /\ ClosedCovers' /\ ManifestCovers'
  BY <1>2, CopiesUntouched
<1>7. ExtractsVerified'
  BY <1>2 DEF ExtractsVerified, Verified
<1>8. TypeOK'
  BY TypeNext DEF Next
<1> QED
  BY <1>3, <1>4, <1>5, <1>6, <1>7, <1>8

\* A fault of the database: it knows of no version that it did not know of.
LEMMA DatabaseFaultInductive ==
  ASSUME BackupInv, TypeOK', Rows(db') \subseteq Rows(db),
         UNCHANGED <<stage, files, tool, dirs, hurt, restored>>
  PROVE  BackupInv'
<1> USE DEF BackupInv
<1>1. KnownStay'
  <2>1. \A w \in Version : Known(w)' => Known(w)
    BY DEF Known
  <2> QED
    BY <2>1, KnownKept, KeepsWhereUntouched
<1>2. PutWhole'
  BY DEF PutWhole
<1>3. RestoredWhole'
  BY DEF RestoredWhole, Committed, Rows
<1>4. WalkCovers' /\ ClosedCovers' /\ ManifestCovers'
  BY CopiesUntouched
<1>5. ExtractsVerified'
  BY DEF ExtractsVerified, Verified
<1> QED
  BY <1>1, <1>2, <1>3, <1>4, <1>5

LEMMA HurtRecordInductive ==
  ASSUME BackupInv, HurtRecord
  PROVE  BackupInv'
<1>1. PICK v \in Version, c \in {"alt", "forged", "none"} : HurtRow(v) \/ HurtEvent(v, c)
  BY DEF HurtRecord
<1>2. db \in Database /\ v \in Rows(db)
  BY <1>1 DEF BackupInv, TypeOK, HurtRow, HurtEvent, Committed, Rows, Lost, Torn
<1>3. Rows(db') \subseteq Rows(db)
  BY <1>1, <1>2 DEF HurtRow, HurtEvent, Rows, Database
<1>4. TypeOK'
  BY TypeNext DEF BackupInv, Next
<1> QED
  BY <1>1, <1>3, <1>4, DatabaseFaultInductive DEF HurtRow, HurtEvent

LEMMA HurtCopiesInductive ==
  ASSUME BackupInv, HurtCopies
  PROVE  BackupInv'
<1>1. TypeOK'
  BY TypeNext DEF BackupInv, Next
<1>2. CASE LoseDatabase
  BY <1>1, <1>2, NoRows, DatabaseFaultInductive DEF LoseDatabase
<1>3. ASSUME NEW d \in Second, HurtBackup(d) PROVE BackupInv'
  <2> USE DEF BackupInv
  <2>1. tool = Resting /\ UNCHANGED <<stage, db, files, tool, hurt, restored>>
    BY <1>3 DEF HurtBackup
  <2>2. \A e \in Second : /\ dirs'[e].db = dirs[e].db \/ dirs'[e].db \in {Lost, Torn}
                          /\ dirs'[e].manifest = dirs[e].manifest
                          /\ dirs'[e].hurt = dirs[e].hurt
    BY <1>3 DEF HurtBackup, TypeOK, Directory
  <2>3. KnownStay'
    <3>1. \A w \in Version : Known(w)' => Known(w)
      BY <2>1, <2>2, NoRows DEF Known
    <3> QED
      BY <2>1, <3>1, KnownKept, KeepsWhereUntouched
  <2>4. PutWhole' /\ RestoredWhole'
    BY <2>1, StoresUntouched
  <2>5. WalkCovers' /\ ClosedCovers' /\ ExtractsVerified'
    BY <2>1 DEF WalkCovers, ClosedCovers, ExtractsVerified, Resting
  <2>6. ManifestCovers'
    BY <2>2 DEF ManifestCovers
  <2> QED
    BY <1>1, <2>3, <2>4, <2>5, <2>6
<1> QED
  BY <1>2, <1>3 DEF HurtCopies

-----------------------------------------------------------------------------
(* The theorems *)

\* The inductive invariant of the two stores and their copies: what any copy of
\* the database knows of is in the storage until it is hurt, the walk of a
\* backup misses none of it, and nothing moves while a restore extracts.
THEOREM BackupInvariant == Spec => []BackupInv
<1>1. Init => BackupInv
  <2> SUFFICES ASSUME Init PROVE BackupInv
    OBVIOUS
  <2>1. Rows(db) = {} /\ \A d \in Second : Rows(dirs[d].db) = {} /\ dirs[d].manifest = NoManifest
    BY NoRows DEF Init, Rows, Empty
  <2>2. KnownStay /\ ManifestCovers
    BY <2>1 DEF Init, KnownStay, Known, ManifestCovers, Resting
  <2>3. PutWhole /\ WalkCovers /\ ClosedCovers /\ ExtractsVerified /\ RestoredWhole
    BY DEF Init, PutWhole, WalkCovers, ClosedCovers, ExtractsVerified, RestoredWhole, Resting
  <2> QED
    BY <2>2, <2>3, TypeInit DEF BackupInv
<1>2. BackupInv /\ [Next]_vars => BackupInv'
  <2> SUFFICES ASSUME BackupInv, [Next]_vars PROVE BackupInv'
    OBVIOUS
  <2>1. CASE UNCHANGED vars
    <3>1. KnownStay' /\ PutWhole' /\ RestoredWhole'
      BY <2>1 DEF vars, BackupInv, KnownStay, Known, PutWhole, RestoredWhole, Committed
    <3>2. WalkCovers' /\ ClosedCovers' /\ ManifestCovers' /\ ExtractsVerified'
      BY <2>1 DEF vars, BackupInv, WalkCovers, ClosedCovers, ManifestCovers, ExtractsVerified,
                  Verified
    <3> QED
      BY <3>1, <3>2, TypeNext DEF BackupInv
  <2> QED
    BY <2>1, UploadStepInductive, ToolStepInductive, HurtStoreInductive, HurtCopiesInductive,
       HurtRecordInductive DEF Next
<1> QED
  BY <1>1, <1>2, PTL DEF Spec

\* A backup that verifies holds the bytes of every version that its copy of the
\* database knows of, however the uploads went on beside create_backup().
THEOREM BackupsCover == Spec => []BackupCovers
<1>1. BackupInv => BackupCovers
  <2> SUFFICES ASSUME BackupInv, NEW d \in Second, Verified(d), NEW v \in Rows(dirs[d].db)
               PROVE  v \in dirs[d].hurt
                        \/ (dirs[d].archive.kind = "whole" /\ dirs[d].archive.files[v] = "orig")
    BY DEF BackupCovers
  <2>1. /\ dirs[d].manifest # NoManifest
        /\ dirs[d].manifest.db = dirs[d].db /\ dirs[d].manifest.archive = dirs[d].archive
    BY DEF Verified
  <2> QED
    BY <2>1 DEF BackupInv, ManifestCovers
<1> QED
  BY <1>1, BackupInvariant, PTL

\* After a complete forced restore_backup() the bytes of every version of the
\* database are there but for those that were lost before the backup or since.
THEOREM RestoresWhole == Spec => []RestoredWhole
<1>1. BackupInv => RestoredWhole
  BY DEF BackupInv
<1> QED
  BY <1>1, BackupInvariant, PTL

-----------------------------------------------------------------------------
(* Reports: what they read *)

\* A report only looks on, and what it looks on are steps of Backups.
LEMMA ReportsLookOn ==
  ASSUME [ReportNext]_<<vars, report>>
  PROVE  [Next]_vars
<1>1. CASE UNCHANGED <<vars, report>>
  BY <1>1
<1>2. CASE ReportStep
  BY <1>2 DEF ReportStep, BeginReport, ListVersions, HashFile, Answer, Hangup
<1>3. CASE UploadBeside
  BY <1>3 DEF UploadBeside, Next, UploadStep
<1>4. CASE FaultBeside \/ ((ToolStep \/ HurtCopies) /\ Disturb)
  BY <1>4 DEF FaultBeside, Next
<1> QED
  BY <1>1, <1>2, <1>3, <1>4 DEF ReportNext

\* What is proved of the stores holds where reports are made, too.
LEMMA ReportsOnBackups == ReportSpec => Spec
<1>1. [ReportNext]_<<vars, report>> => [Next]_vars
  BY ReportsLookOn
<1> QED
  BY <1>1, PTL DEF ReportSpec, Spec

LEMMA NotAnchored == Anchored(Lost) /\ Anchored(Torn)
BY DEF Anchored, Lost, Torn

\* Events are committed with their versions, and copied with them.
LEMMA EventsOfVersionsInit == Init => EventsOfVersions
BY NotAnchored DEF Init, EventsOfVersions, Anchored, Resting, Empty

\* A step that leaves the database alone, and makes no copy of it.
LEMMA AnchoredUntouched ==
  ASSUME EventsOfVersions, Anchored(db'),
         tool' = tool \/ tool'.pc # "copying",
         \A d \in Second : dirs'[d].db \in {dirs[d].db, Lost, Torn}
  PROVE  EventsOfVersions'
<1>1. Anchored(db)'
  BY DEF Anchored
<1>2. (tool.pc = "copying" => Anchored(tool.seen))'
  BY DEF EventsOfVersions, Anchored
<1>3. ASSUME NEW d \in Second
      PROVE  Anchored(dirs[d].db)'
  <2>1. Anchored(dirs'[d].db)
    BY NotAnchored DEF EventsOfVersions
  <2> QED
    BY <2>1 DEF Anchored
<1> QED
  BY <1>1, <1>2, <1>3 DEF EventsOfVersions

LEMMA EventsOfVersionsStep ==
  ASSUME TypeOK, EventsOfVersions, [Next]_vars
  PROVE  EventsOfVersions'
<1>1. CASE UNCHANGED vars
  BY <1>1, AnchoredUntouched DEF vars, EventsOfVersions
<1>2. ASSUME NEW v \in Version, Open(v) \/ Put(v) \/ Finish(v) \/ FailUpload(v)
      PROVE  EventsOfVersions'
  BY <1>2, AnchoredUntouched DEF Open, Put, Finish, FailUpload, EventsOfVersions
<1>3. ASSUME NEW v \in Version, Commit(v) PROVE EventsOfVersions'
  <2>1. db \in Database /\ db' = [db EXCEPT !.rows = [db.rows EXCEPT ![v] = "orig"],
                                            !.events = [db.events EXCEPT ![v] = "orig"]]
    BY <1>3 DEF Commit, Running, TypeOK, Lost, Torn
  <2>2. Anchored(db')
    BY <2>1 DEF Anchored, Database, EventsOfVersions
  <2> QED
    BY <1>3, <2>2, AnchoredUntouched DEF Commit
<1>4. ASSUME NEW d \in Second, CreateBackup(d) PROVE EventsOfVersions'
  <2>1. /\ tool' = [pc |-> "copying", dir |-> d, seen |-> db] /\ db' = db
        /\ \A e \in Second : dirs'[e].db \in {dirs[e].db, Torn}
    BY <1>4 DEF CreateBackup, TypeOK, Directory
  <2>2. \A e \in Second : Anchored(dirs'[e].db)
    BY <2>1, NotAnchored DEF EventsOfVersions
  <2>3. Anchored(db') /\ Anchored(tool'.seen)
    BY <2>1 DEF EventsOfVersions
  <2> QED
    BY <2>2, <2>3 DEF EventsOfVersions, Anchored
<1>5. CASE CopyDatabase
  <2>1. PICK copy \in {tool.seen, db, Torn} :
          dirs' = [dirs EXCEPT ![tool.dir].db = copy, ![tool.dir].archive = Torn]
    BY <1>5 DEF CopyDatabase
  <2>2. Anchored(copy) /\ tool.dir \in Second
    BY <1>5, <2>1, NotAnchored, ToolFields DEF CopyDatabase, EventsOfVersions
  <2>3. \A e \in Second : dirs'[e].db \in {dirs[e].db, copy}
    BY <2>1, <2>2 DEF TypeOK, Directory
  <2>4. \A e \in Second : Anchored(dirs'[e].db)
    BY <2>2, <2>3 DEF EventsOfVersions
  <2>5. tool'.pc # "copying" /\ db' = db
    BY <1>5 DEF CopyDatabase, Walk
  <2> QED
    BY <2>4, <2>5 DEF EventsOfVersions, Anchored
<1>5a. CASE CopyPages
  <2>1. tool'.seen = db /\ UNCHANGED <<db, dirs>>
    BY <1>5a DEF CopyPages, TypeOK, Tool, Resting
  <2> QED
    BY <2>1 DEF EventsOfVersions, Anchored
<1>6. ASSUME NEW v \in Version, WalkFile(v) PROVE EventsOfVersions'
  <2>1. tool'.pc # "copying"
    BY <1>6 DEF WalkFile, TypeOK, Tool, Resting
  <2> QED
    BY <1>6, <2>1, AnchoredUntouched DEF WalkFile, EventsOfVersions
<1>7. CASE CloseArchive \/ WriteManifest
  <2>1. tool.dir \in Second
    BY <1>7, ToolFields DEF CloseArchive, WriteManifest
  <2>2. \A e \in Second : dirs'[e].db = dirs[e].db
    BY <1>7, <2>1 DEF CloseArchive, WriteManifest, TypeOK, Directory
  <2> QED
    BY <1>7, <2>2, AnchoredUntouched DEF CloseArchive, WriteManifest, Resting, EventsOfVersions
<1>8. ASSUME NEW d \in Second, NEW force \in BOOLEAN, RestoreDatabase(d, force)
      PROVE  EventsOfVersions'
  BY <1>8, AnchoredUntouched DEF RestoreDatabase, Resting, EventsOfVersions
<1>9. CASE Extract \/ Die
  <2>1. db' \in {db, Torn} /\ tool' = Resting /\ dirs' = dirs
    BY <1>9 DEF Extract, Die
  <2> QED
    BY <2>1, NotAnchored, AnchoredUntouched DEF Resting, EventsOfVersions
<1>10. CASE HurtStore \/ LoseDatabase
  <2>1. db' \in {db, Lost} /\ tool' = tool /\ dirs' = dirs
    BY <1>10 DEF HurtStore, HurtFiles, LoseDatabase
  <2> QED
    BY <2>1, NotAnchored, AnchoredUntouched DEF EventsOfVersions
<1>11. ASSUME NEW v \in Version, NEW c \in {"alt", "forged", "none"}, HurtRow(v) \/ HurtEvent(v, c)
       PROVE  EventsOfVersions'
  <2>1. db \in Database /\ db.rows[v] # "none" /\ tool' = tool /\ dirs' = dirs
    BY <1>11 DEF HurtRow, HurtEvent, Committed, TypeOK, Lost, Torn
  <2>2. \/ db' = [db EXCEPT !.rows = [db.rows EXCEPT ![v] = "alt"]]
        \/ db' = [db EXCEPT !.events = [db.events EXCEPT ![v] = c]]
    BY <1>11 DEF HurtRow, HurtEvent
  <2>3. Anchored(db')
    BY <2>1, <2>2 DEF Anchored, Database, EventsOfVersions
  <2> QED
    BY <2>1, <2>3, AnchoredUntouched
<1>12. ASSUME NEW d \in Second, HurtBackup(d) PROVE EventsOfVersions'
  <2>1. \A e \in Second : dirs'[e].db \in {dirs[e].db, Lost, Torn}
    BY <1>12 DEF HurtBackup, TypeOK, Directory
  <2> QED
    BY <1>12, <2>1, AnchoredUntouched DEF HurtBackup, EventsOfVersions
<1> QED
  BY <1>1, <1>2, <1>3, <1>4, <1>5, <1>5a, <1>6, <1>7, <1>8, <1>9, <1>10, <1>11, <1>12
  DEF Next, UploadStep, ToolStep, HurtStore, HurtCopies, HurtRecord

-----------------------------------------------------------------------------
(* Reports: what they find *)

\* A report that is being made, or was, has all its parts.
LEMMA ReportFields ==
  ASSUME ReportTypeOK, report # NoReport
  PROVE  /\ report \in Reading
         /\ report.pc \in {"listing", "hashing", "answered", "raised"}
         /\ report.events \in [Version -> Told] /\ report.rows \in [Version -> Hash]
         /\ report.status \in [Version -> Status]
         /\ report.were \subseteq Version
BY DEF ReportTypeOK, Reading

LEMMA IdleIsNoReport ==
  ASSUME ReportTypeOK
  PROVE  At({"idle"}) <=> report = NoReport
BY DEF ReportTypeOK, Reading, At, NoReport

\* After a disturbance nothing is claimed until the next report begins.
LEMMA DisturbStep ==
  ASSUME ReportTypeOK, Disturb
  PROVE  ReportTypeOK' /\ ~Undisturbed'
<1>1. CASE At({"idle"})
  BY <1>1, IdleIsNoReport DEF Disturb, Undisturbed, ReportTypeOK
<1>2. CASE ~At({"idle"})
  <2>1. report \in Reading /\ report' = [report EXCEPT !.disturbed = TRUE]
    BY <1>2, IdleIsNoReport, ReportFields DEF Disturb
  <2>2. report' \in Reading /\ report'.disturbed
    BY <2>1 DEF Reading
  <2> QED
    BY <2>2 DEF ReportTypeOK, Undisturbed
<1> QED
  BY <1>1, <1>2

\* A whole database has a hash or none for each version, and only those with a
\* row have an event.
LEMMA WholeDatabase ==
  ASSUME TypeOK, db.kind = "whole"
  PROVE  /\ db \in Database
         /\ db.rows \in [Version -> Hash] /\ db.events \in [Version -> Told]
         /\ Committed = {v \in Version : db.rows[v] # "none"}
BY DEF TypeOK, Database, Lost, Torn, Committed

LEMMA BeginReportStep ==
  ASSUME BackupInv, ReportInv, NEW kind \in {"lineage", "summary"}, BeginReport(kind)
  PROVE  /\ ReportTypeOK'
         /\ (BeginningHolds /\ ListHolds /\ FindingsHold)'
<1> USE DEF BackupInv, ReportInv
<1>1. /\ db.kind = "whole" /\ UNCHANGED vars
      /\ report' = [pc |-> "listing", kind |-> kind, events |-> db.events,
                    rows |-> [v \in Version |-> "none"],
                    status |-> [v \in Version |-> "unlisted"],
                    were |-> Committed, sound |-> {v \in Committed : Sound(v)},
                    sealed |-> {v \in Committed : db.events[v] # "none"}, disturbed |-> FALSE]
  BY DEF BeginReport, Running
<1>2. /\ db.rows \in [Version -> Hash] /\ db.events \in [Version -> Told]
      /\ Committed = {v \in Version : db.rows[v] # "none"}
  BY <1>1, WholeDatabase
<1>3. ReportTypeOK'
  BY <1>1, <1>2 DEF ReportTypeOK, Reading, Hash, Told, Status
<1>4. /\ report'.pc = "listing" /\ report'.events = db.events /\ report'.were = Committed
      /\ report'.status = [v \in Version |-> "unlisted"]
      /\ report'.sound = {v \in Committed : Sound(v)}
      /\ report'.sealed = {v \in Committed : db.events[v] # "none"}
  BY <1>1
<1>5. /\ db' = db /\ files' = files /\ Committed' = Committed
      /\ \A v \in Version : Sound(v)' <=> Sound(v)
  BY <1>1 DEF vars, Committed, Sound
<1>6. \A v \in Version : db.events[v] = IF v \in Committed THEN db.events[v] ELSE "none"
  BY <1>1, <1>2 DEF EventsOfVersions, Anchored
<1>7. BeginningHolds'
  BY <1>1, <1>2, <1>4, <1>5, <1>6 DEF BeginningHolds
<1>8. Listed' = {}
  BY <1>4 DEF Listed
<1>9. ListHolds'
  BY <1>4, <1>8 DEF ListHolds, At
<1>10. FindingsHold'
  BY <1>4 DEF FindingsHold, At
<1> QED
  BY <1>3, <1>7, <1>9, <1>10

\* A step of the report that touches neither the stores nor what it began with.
LEMMA BeginningKept ==
  ASSUME BeginningHolds, UNCHANGED vars,
         report'.were = report.were, report'.events = report.events,
         report'.sound = report.sound, report'.sealed = report.sealed
  PROVE  BeginningHolds'
<1>1. /\ db' = db /\ files' = files /\ Committed' = Committed /\ Committed \subseteq Version
      /\ \A v \in Version : Sound(v)' <=> Sound(v)
  BY DEF vars, Committed, Sound
<1> QED
  BY <1>1 DEF BeginningHolds

LEMMA ListVersionsStep ==
  ASSUME BackupInv, ReportInv, ListVersions
  PROVE  /\ ReportTypeOK'
         /\ Undisturbed' => (BeginningHolds /\ ListHolds /\ FindingsHold)'
<1> USE DEF BackupInv, ReportInv
<1> DEFINE found == [v \in Version |-> IF v \in Committed THEN "unread" ELSE "unlisted"]
<1>1. /\ report \in Reading /\ report.pc = "listing" /\ db.kind = "whole" /\ UNCHANGED vars
      /\ report' = [report EXCEPT !.pc = "hashing", !.rows = db.rows, !.status = found]
  BY ReportFields DEF ListVersions, Running, At, NoReport
<1>2. db.rows \in [Version -> Hash] /\ found \in [Version -> Status] /\ Committed \subseteq Version
  BY <1>1, WholeDatabase DEF Status
<1>3. /\ report' \in Reading /\ report'.pc = "hashing" /\ report'.rows = db.rows
      /\ report'.status = found /\ report'.disturbed = report.disturbed
      /\ report'.were = report.were /\ report'.events = report.events
      /\ report'.sound = report.sound /\ report'.sealed = report.sealed
  <2> HIDE DEF found
  <2> QED
    BY <1>1, <1>2 DEF Reading
<1>4. ASSUME Undisturbed'
      PROVE  (BeginningHolds /\ ListHolds /\ FindingsHold)'
  <2>1. BeginningHolds
    BY <1>1, <1>3, <1>4 DEF Undisturbed, NoReport
  <2>2. BeginningHolds'
    BY <1>1, <1>3, <2>1, BeginningKept
  <2>3. Listed' = Committed /\ Committed' = Committed /\ db' = db
    BY <1>1, <1>2, <1>3 DEF Listed, vars, Committed
  <2>4. ListHolds'
    BY <1>3, <2>1, <2>3 DEF ListHolds, At, BeginningHolds
  <2>5. FindingsHold'
    BY <1>3 DEF FindingsHold, At
  <2> QED
    BY <2>2, <2>4, <2>5
<1> QED
  BY <1>3, <1>4 DEF ReportTypeOK

\* A file is hashed, or it is gone.
LEMMA HashFileStep ==
  ASSUME BackupInv, ReportInv, NEW v \in Version, HashFile(v)
  PROVE  /\ ReportTypeOK'
         /\ Undisturbed' => (BeginningHolds /\ ListHolds /\ FindingsHold)'
<1> USE DEF BackupInv, ReportInv
<1>1. /\ report \in Reading /\ report.pc = "hashing" /\ report.status[v] = "unread"
      /\ UNCHANGED vars /\ files' = files /\ db' = db
  BY ReportFields DEF HashFile, At, NoReport, vars
<1>2. report.status \in [Version -> Status]
  BY <1>1 DEF Reading
<1>3. PICK st \in Status :
        /\ report' = [report EXCEPT !.status = [report.status EXCEPT ![v] = st]]
           \/ (report' = [report EXCEPT !.pc = "raised"] /\ files[v] = "none"
                 /\ report.kind = "lineage" /\ st = "unread")
        /\ st = "verified" => files[v] = report.rows[v]
        /\ st = "tampered" => files[v] \notin {"none", report.rows[v]}
        /\ st = "unreadable" => files[v] = "none" /\ report.kind = "summary"
        /\ st # "unlisted"
  <2>1. CASE files[v] # "none"
    <3>1. report' = [report EXCEPT !.status = [report.status EXCEPT ![v] = Hashed(v)]]
      BY <1>1, <2>1 DEF HashFile
    <3> QED
      BY <2>1, <3>1 DEF Hashed, Status
  <2>2. CASE files[v] = "none" /\ report.kind = "summary"
    <3>1. report' = [report EXCEPT !.status = [report.status EXCEPT ![v] = "unreadable"]]
      BY <1>1, <2>2 DEF HashFile
    <3> QED
      BY <2>2, <3>1 DEF Status
  <2>3. CASE files[v] = "none" /\ report.kind # "summary"
    <3>1. report' = [report EXCEPT !.pc = "raised"] /\ report.kind = "lineage"
      BY <1>1, <2>3 DEF HashFile, Reading
    <3> QED
      BY <2>3, <3>1 DEF Status
  <2> QED
    BY <2>1, <2>2, <2>3
<1>4. /\ report' \in Reading /\ report'.rows = report.rows /\ report'.kind = report.kind
      /\ report'.disturbed = report.disturbed
      /\ report'.were = report.were /\ report'.events = report.events
      /\ report'.sound = report.sound /\ report'.sealed = report.sealed
      /\ report'.pc = "hashing" \/ (report'.pc = "raised" /\ files[v] = "none")
      /\ \A w \in Version : report'.status[w] = IF w = v THEN st ELSE report.status[w]
  <2>1. CASE report' = [report EXCEPT !.status = [report.status EXCEPT ![v] = st]]
    <3>1. [report.status EXCEPT ![v] = st] \in [Version -> Status]
      BY <1>2
    <3> QED
      BY <1>1, <1>2, <2>1, <3>1 DEF Reading
  <2>2. CASE report' = [report EXCEPT !.pc = "raised"] /\ files[v] = "none" /\ st = "unread"
    BY <1>1, <2>2 DEF Reading
  <2> QED
    BY <1>3, <2>1, <2>2
<1>5. ASSUME Undisturbed'
      PROVE  (BeginningHolds /\ ListHolds /\ FindingsHold)'
  <2>1. BeginningHolds /\ ListHolds /\ FindingsHold
    BY <1>1, <1>4, <1>5 DEF Undisturbed, NoReport
  <2>2. BeginningHolds'
    BY <1>1, <1>4, <2>1, BeginningKept
  <2>3. Listed' = Listed /\ Committed' = Committed /\ v \in Listed
    BY <1>1, <1>3, <1>4 DEF Listed, Committed
  <2>4. ListHolds'
    BY <1>1, <1>4, <2>1, <2>3 DEF ListHolds, At
  <2>5. FindingsHold'
    BY <1>1, <1>3, <1>4, <2>1, <2>3 DEF FindingsHold, At
  <2> QED
    BY <2>2, <2>4, <2>5
<1> QED
  BY <1>4, <1>5 DEF ReportTypeOK

LEMMA AnswerStep ==
  ASSUME ReportInv, Answer
  PROVE  /\ ReportTypeOK'
         /\ Undisturbed' => (BeginningHolds /\ ListHolds /\ FindingsHold)'
<1> USE DEF ReportInv
<1>1. /\ report \in Reading /\ report.pc = "hashing" /\ UNCHANGED vars
      /\ report' = [report EXCEPT !.pc = "answered"]
      /\ \A v \in Version : report.status[v] # "unread"
  BY ReportFields DEF Answer, At, NoReport
<1>2. /\ report' \in Reading /\ report'.rows = report.rows /\ report'.kind = report.kind
      /\ report'.disturbed = report.disturbed /\ report'.status = report.status
      /\ report'.were = report.were /\ report'.events = report.events
      /\ report'.sound = report.sound /\ report'.sealed = report.sealed
      /\ report'.pc = "answered"
  BY <1>1 DEF Reading
<1>3. ASSUME Undisturbed'
      PROVE  (BeginningHolds /\ ListHolds /\ FindingsHold)'
  <2>1. BeginningHolds /\ ListHolds /\ FindingsHold
    BY <1>1, <1>2, <1>3 DEF Undisturbed, NoReport
  <2>2. BeginningHolds'
    BY <1>1, <1>2, <2>1, BeginningKept
  <2>3. Listed' = Listed /\ Committed' = Committed /\ db' = db /\ files' = files
    BY <1>1, <1>2 DEF Listed, vars, Committed
  <2>4. ListHolds'
    BY <1>1, <1>2, <2>1, <2>3 DEF ListHolds, At
  <2>5. FindingsHold'
    BY <1>1, <1>2, <2>1, <2>3 DEF FindingsHold, At
  <2> QED
    BY <2>2, <2>4, <2>5
<1> QED
  BY <1>2, <1>3 DEF ReportTypeOK

\* An upload that goes as it should adds a whole version at most, and leaves
\* what is committed as it is.
LEMMA UploadAdds ==
  ASSUME BackupInv, NEW v \in Version, db.kind = "whole",
         Open(v) \/ Put(v) \/ Finish(v) \/ (Commit(v) /\ files[v] = "orig")
  PROVE  /\ db'.kind = "whole" /\ Committed \subseteq Committed'
         /\ \A w \in Committed :
              files'[w] = files[w] /\ db'.rows[w] = db.rows[w] /\ db'.events[w] = db.events[w]
         /\ \A w \in Committed' \ Committed : files'[w] = "orig" /\ db'.rows[w] = "orig"
<1>1. /\ db \in Database /\ db.rows \in [Version -> Hash] /\ db.events \in [Version -> Told]
      /\ Committed = {w \in Version : db.rows[w] # "none"}
  BY WholeDatabase DEF BackupInv
<1>2. v \in Committed => stage[v] \in {"committed", "done"}
  BY <1>1 DEF BackupInv, KnownStay, Known, Rows
<1>3. CASE Open(v) \/ Put(v) \/ Finish(v)
  <2>1. /\ db' = db /\ Committed' = Committed
        /\ \A w \in Version : w # v => files'[w] = files[w]
        /\ v \in Committed => files' = files
    BY <1>2, <1>3 DEF Open, Put, Finish, Committed, BackupInv, TypeOK
  <2> QED
    BY <1>1, <2>1
<1>4. CASE Commit(v) /\ files[v] = "orig"
  <2>1. /\ files' = files /\ v \notin Committed
        /\ db' = [db EXCEPT !.rows = [db.rows EXCEPT ![v] = "orig"],
                            !.events = [db.events EXCEPT ![v] = "orig"]]
    BY <1>2, <1>4 DEF Commit
  <2>2. /\ db'.kind = "whole"
        /\ \A w \in Version : /\ db'.rows[w] = IF w = v THEN "orig" ELSE db.rows[w]
                              /\ db'.events[w] = IF w = v THEN "orig" ELSE db.events[w]
    BY <1>1, <2>1 DEF Database
  <2>3. Committed' = Committed \cup {v}
    BY <1>1, <2>2 DEF Committed
  <2> QED
    BY <1>1, <1>4, <2>1, <2>2, <2>3
<1> QED
  BY <1>3, <1>4

LEMMA UploadBesideStep ==
  ASSUME BackupInv, ReportInv, NEW v \in Version, UNCHANGED report,
         Open(v) \/ Put(v) \/ Finish(v) \/ (Commit(v) /\ files[v] = "orig")
  PROVE  /\ ReportTypeOK'
         /\ Undisturbed' => (BeginningHolds /\ ListHolds /\ FindingsHold)'
<1> USE DEF ReportInv
<1>1. ReportTypeOK'
  BY DEF ReportTypeOK
<1>2. ASSUME Undisturbed'
      PROVE  (BeginningHolds /\ ListHolds /\ FindingsHold)'
  <2>1. BeginningHolds /\ ListHolds /\ FindingsHold
    BY <1>2 DEF Undisturbed
  <2>2. /\ db'.kind = "whole" /\ Committed \subseteq Committed'
        /\ \A w \in Committed :
             files'[w] = files[w] /\ db'.rows[w] = db.rows[w] /\ db'.events[w] = db.events[w]
        /\ \A w \in Committed' \ Committed : files'[w] = "orig" /\ db'.rows[w] = "orig"
    BY <2>1, UploadAdds DEF BeginningHolds
  <2>3. /\ \A w \in report.were : w \in Committed
        /\ \A w \in report.were : Sound(w)' <=> Sound(w)
    BY <2>1, <2>2 DEF BeginningHolds, Sound
  <2>4. BeginningHolds'
    <3>1. /\ report.were \subseteq Committed'
          /\ report.sound = {w \in report.were : Sound(w)'}
          /\ report.sealed = {w \in report.were : report.events[w] # "none"}
      BY <2>1, <2>2, <2>3 DEF BeginningHolds
    <3>2. \A w \in Version :
            report.events[w] = IF w \in report.were THEN db'.events[w] ELSE "none"
      BY <2>1, <2>2, <2>3 DEF BeginningHolds
    <3>3. \A w \in Committed' \ report.were : files'[w] = "orig" /\ db'.rows[w] = "orig"
      BY <2>1, <2>2 DEF BeginningHolds
    <3> QED
      BY <2>2, <3>1, <3>2, <3>3 DEF BeginningHolds
  <2>5. Listed' = Listed /\ Listed \subseteq Committed
    BY <2>1 DEF Listed, ListHolds
  <2>6. ListHolds'
    BY <2>1, <2>2, <2>5 DEF ListHolds, At
  <2>7. FindingsHold'
    <3>1. \A w \in Version : report.status[w] # "unlisted" => files'[w] = files[w]
      BY <2>2, <2>5 DEF Listed
    <3> QED
      BY <2>1, <2>5, <3>1 DEF FindingsHold, At, Listed
  <2> QED
    BY <2>4, <2>6, <2>7
<1> QED
  BY <1>1, <1>2

LEMMA ReportInvStep ==
  ASSUME BackupInv, ReportInv, [ReportNext]_<<vars, report>>
  PROVE  ReportInv'
<1>1. EventsOfVersions'
  BY ReportsLookOn, EventsOfVersionsStep DEF ReportInv, BackupInv
<1> DEFINE Rest == /\ ReportTypeOK'
                   /\ Undisturbed' => (BeginningHolds /\ ListHolds /\ FindingsHold)'
<1>2. CASE UNCHANGED <<vars, report>>
  <2>1. /\ Undisturbed' <=> Undisturbed
        /\ BeginningHolds' <=> BeginningHolds
    BY <1>2 DEF vars, Undisturbed, BeginningHolds, Committed, Sound
  <2>2. (ListHolds' <=> ListHolds) /\ (FindingsHold' <=> FindingsHold)
    BY <1>2 DEF vars, ListHolds, FindingsHold, Listed, Committed, At
  <2> QED
    BY <1>1, <1>2, <2>1, <2>2 DEF ReportInv, ReportTypeOK
<1>3. CASE ReportStep
  <2>1. CASE Hangup
    <3>1. report' = NoReport
      BY <2>1 DEF Hangup
    <3> QED
      BY <1>1, <3>1 DEF ReportInv, ReportTypeOK, Undisturbed
  <2>2. ASSUME Rest PROVE ReportInv'
    BY <1>1, <2>2 DEF ReportInv
  <2> QED
    BY <1>3, <2>1, <2>2, BeginReportStep, ListVersionsStep, HashFileStep, AnswerStep
    DEF ReportStep
<1>4. CASE Disturb
  BY <1>1, <1>4, DisturbStep DEF ReportInv
<1>5. CASE UploadBeside
  <2>1. CASE \E v \in Version : /\ UNCHANGED report
                                /\ \/ Open(v) \/ Put(v) \/ Finish(v)
                                   \/ Commit(v) /\ files[v] = "orig"
    BY <1>1, <2>1, UploadBesideStep DEF ReportInv
  <2> QED
    BY <1>4, <1>5, <2>1 DEF UploadBeside
<1> QED
  BY <1>2, <1>3, <1>4, <1>5 DEF ReportNext, FaultBeside

-----------------------------------------------------------------------------
(* Reports: the theorems *)

\* What a report has read and found, while nothing is disturbed, can be read
\* and found again: uploads beside it only add whole versions.
THEOREM ReportInvariant == ReportSpec => []ReportInv
<1>1. Init /\ ReportInit => ReportInv
  BY EventsOfVersionsInit DEF ReportInit, ReportInv, ReportTypeOK, Undisturbed
<1>2. BackupInv /\ ReportInv /\ [ReportNext]_<<vars, report>> => ReportInv'
  BY ReportInvStep
<1> QED
  BY <1>1, <1>2, ReportsOnBackups, BackupInvariant, PTL DEF ReportSpec

\* Every variable keeps its type, also where reports are made.
THEOREM ReportTypes == ReportSpec => [](TypeOK /\ ReportTypeOK)
<1>1. BackupInv /\ ReportInv => TypeOK /\ ReportTypeOK
  BY DEF BackupInv, ReportInv
<1> QED
  BY <1>1, ReportInvariant, ReportsOnBackups, BackupInvariant, PTL

\* Backups and restores keep their promises while reports are made.
THEOREM BackupsBesideReports == ReportSpec => [](BackupCovers /\ RestoredWhole)
BY ReportsOnBackups, BackupsCover, RestoresWhole, PTL

\* What the lineage says of a document is so: intact only where every version
\* that had an event is as it was uploaded or was rewritten in file, row and
\* event, the hash of the event too, and intact wherever all of them are.
THEOREM LineageAlwaysTruthful == ReportSpec => []LineageTruthful
<1>1. ASSUME ReportInv PROVE LineageTruthful
  <2> USE DEF ReportInv
  <2> SUFFICES ASSUME Undisturbed, report.kind = "lineage"
               PROVE  /\ At({"answered"}) /\ SaysIntact =>
                           \A v \in report.were \cap report.sealed :
                             v \in report.sound \/ Rewritten(v)
                      /\ report.were = report.sound =>
                           ~At({"raised"}) /\ (At({"answered"}) => SaysIntact)
    BY DEF LineageTruthful
  <2>1. /\ BeginningHolds /\ ListHolds /\ FindingsHold
        /\ report.events \in [Version -> Told] /\ report.status \in [Version -> Status]
        /\ report.were \subseteq Version /\ Listed \subseteq Version
    BY <1>1, ReportFields DEF Undisturbed, Listed
  <2>2. ASSUME At({"answered"}), SaysIntact, NEW v \in report.were, v \in report.sealed
        PROVE  v \in report.sound \/ Rewritten(v)
    <3>1. v \in Version /\ report.status[v] # "unlisted"
      BY <2>1, <2>2 DEF ListHolds, Listed, At
    <3>2. /\ report.events[v] \notin {"none", "alt"} /\ report.events[v] = db.events[v]
      BY <2>1, <2>2, <3>1 DEF SaysIntact, ChainBroken, BeginningHolds
    <3>3. report.status[v] = "verified" /\ Anchor(report.events[v]) = report.rows[v]
      BY <2>2, <3>1, <3>2 DEF SaysIntact, RecordTampered
    <3>4. files[v] = report.rows[v] /\ report.rows[v] = db.rows[v]
      BY <2>1, <3>1, <3>3 DEF FindingsHold, ListHolds, Listed
    <3>5. report.events[v] \in {"orig", "forged"}
      BY <2>1, <3>1, <3>2 DEF Hash, Told
    <3>6. CASE report.events[v] = "orig"
      BY <2>1, <2>2, <3>2, <3>3, <3>4, <3>6 DEF BeginningHolds, Sound, Anchor
    <3>7. CASE report.events[v] = "forged"
      BY <3>2, <3>3, <3>4, <3>7 DEF Anchor, Rewritten
    <3> QED
      BY <3>5, <3>6, <3>7
  <2>3. ASSUME report.were = report.sound, NEW w \in Listed
        PROVE  /\ files[w] = "orig" /\ report.rows[w] = "orig"
               /\ report.events[w] \in {"none", "orig"}
    <3>1. w \in Version /\ w \in Committed /\ report.rows[w] = db.rows[w]
      BY <2>1, <2>3 DEF ListHolds
    <3>2. CASE w \in report.were
      <4>1. w \in {v \in report.were : Sound(v)} /\ report.events[w] = db.events[w]
        BY <2>1, <2>3, <3>1, <3>2 DEF BeginningHolds
      <4> QED
        BY <3>1, <4>1 DEF Sound
    <3>3. CASE w \notin report.were
      BY <2>1, <3>1, <3>3 DEF BeginningHolds
    <3> QED
      BY <3>2, <3>3
  <2>4. ASSUME report.were = report.sound PROVE ~At({"raised"})
    BY <2>1, <2>3, <2>4 DEF FindingsHold
  <2>5. ASSUME report.were = report.sound, At({"answered"}) PROVE SaysIntact
    <3>1. ~ChainBroken
      BY <2>1, <2>5 DEF ChainBroken, BeginningHolds, Sound
    <3>2. ASSUME NEW v \in Version, report.status[v] # "unlisted"
          PROVE  report.status[v] = "verified" /\ ~RecordTampered(v)
      <4>1. v \in Listed
        BY <3>2 DEF Listed
      <4>2. report.status[v] \notin {"unread", "tampered", "unreadable"}
        BY <2>1, <2>3, <2>5, <4>1 DEF FindingsHold
      <4>3. report.status[v] = "verified"
        BY <2>1, <3>2, <4>2 DEF Status
      <4> QED
        BY <2>3, <2>5, <4>1, <4>3 DEF RecordTampered, Anchor
    <3> QED
      BY <3>1, <3>2 DEF SaysIntact
  <2> QED
    BY <2>2, <2>4, <2>5
<1> QED
  BY <1>1, ReportInvariant, PTL

\* The summary raises no false alarm, and says intact only of damage that shows
\* as unreadable or that the bytes cannot show.
THEOREM SummaryAlwaysTruthful == ReportSpec => []SummaryTruthful
<1>1. ASSUME TypeOK, ReportInv PROVE SummaryTruthful
  <2> USE DEF ReportInv
  <2> SUFFICES ASSUME Undisturbed, report.kind = "summary", At({"answered"})
               PROVE  /\ report.were = report.sound => SaysIntact
                      /\ SaysIntact => \A v \in report.were \ report.sound :
                           \/ report.status[v] = "unreadable" /\ files[v] = "none"
                           \/ /\ files[v] = report.rows[v]
                              /\ report.rows[v] = "alt" \/ report.events[v] # "orig"
    BY DEF SummaryTruthful
  <2>1. /\ BeginningHolds /\ ListHolds /\ FindingsHold
        /\ report.status \in [Version -> Status]
        /\ report.were \subseteq Version /\ Listed \subseteq Version
    BY <1>1, ReportFields DEF Undisturbed, Listed
  <2>2. ASSUME report.were = report.sound, NEW v \in Version
        PROVE  report.status[v] # "tampered"
    <3> SUFFICES ASSUME report.status[v] = "tampered" PROVE FALSE
      OBVIOUS
    <3>1. v \in Listed /\ v \in Committed /\ report.rows[v] = db.rows[v]
      BY <2>1 DEF Listed, ListHolds
    <3>2. files[v] = "orig" /\ db.rows[v] = "orig"
      BY <2>1, <2>2, <3>1 DEF BeginningHolds, Sound
    <3> QED
      BY <2>1, <3>1, <3>2 DEF FindingsHold
  <2>3. ASSUME SaysIntact, NEW v \in report.were \ report.sound
        PROVE  \/ report.status[v] = "unreadable" /\ files[v] = "none"
               \/ /\ files[v] = report.rows[v]
                  /\ report.rows[v] = "alt" \/ report.events[v] # "orig"
    <3>1. /\ v \in Version /\ report.status[v] # "unlisted"
          /\ report.rows[v] = db.rows[v] /\ report.events[v] = db.events[v] /\ ~Sound(v)
      BY <2>1, <2>3 DEF ListHolds, Listed, At, BeginningHolds
    <3>2. report.status[v] \notin {"unread", "tampered"}
      BY <2>1, <2>3, <3>1 DEF SaysIntact, FindingsHold
    <3>3. report.status[v] \in {"verified", "unreadable"}
      BY <2>1, <3>1, <3>2 DEF Status
    <3>4. db.rows[v] \in {"orig", "alt"}
      BY <1>1, <2>1, <2>3, <3>1, WholeDatabase DEF BeginningHolds, Hash
    <3>5. CASE report.status[v] = "unreadable"
      BY <2>1, <3>1, <3>5 DEF FindingsHold
    <3>6. CASE report.status[v] = "verified"
      BY <2>1, <3>1, <3>4, <3>6 DEF FindingsHold, Sound
    <3> QED
      BY <3>3, <3>5, <3>6
  <2> QED
    BY <2>2, <2>3 DEF SaysIntact
<1> QED
  BY <1>1, ReportInvariant, ReportTypes, PTL
=============================================================================
