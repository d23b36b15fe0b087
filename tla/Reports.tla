------------------------------- MODULE Reports -------------------------------
(***************************************************************************)
(* The two reports on the integrity of a document (backend/app/api_ext.py):*)
(* the lineage, which compares files, rows and case events, and the        *)
(* summary, which hashes the files again; both with verify_integrity() of  *)
(* services.py.                                                            *)
(*                                                                         *)
(* A report reads the events, then the rows, then one file after another,  *)
(* while uploads go on and the things that it reports on get lost.  All    *)
(* versions are of one document; a report changes nothing, so one at a     *)
(* time shows all there is to see.                                         *)
(***************************************************************************)
EXTENDS Backups

VARIABLE report

\* events and rows are what was read; status is what is found of each version;
\* sound and sealed are the versions that were whole, and those that had their
\* event, when the report began; disturbed tells that something was lost or
\* restored since.
NoReport == [pc |-> "idle"]
Status == {"unlisted", "unread", "verified", "tampered", "unreadable"}
Reading == [pc : {"listing", "hashing", "answered", "raised"}, kind : {"lineage", "summary"},
            events : [Version -> Told], rows : [Version -> Hash], status : [Version -> Status],
            were : SUBSET Version, sound : SUBSET Version, sealed : SUBSET Version,
            disturbed : BOOLEAN]

ReportTypeOK == report \in Reading \cup {NoReport}

-----------------------------------------------------------------------------
\* Bytes, row and event are what they were when the version was uploaded.
Sound(v) == files[v] = "orig" /\ db.rows[v] = "orig" /\ db.events[v] = "orig"

At(points) == report.pc \in points

\* The lineage reads the events of the case first.
BeginReport(kind) ==
  /\ At({"idle", "answered", "raised"})
  /\ Running
  /\ report' = [pc |-> "listing", kind |-> kind, events |-> db.events,
                rows |-> [v \in Version |-> "none"], status |-> [v \in Version |-> "unlisted"],
                were |-> Committed, sound |-> {v \in Committed : Sound(v)},
                sealed |-> {v \in Committed : db.events[v] # "none"}, disturbed |-> FALSE]
  /\ UNCHANGED vars

\* list_versions(); what is compared with the events and shown is this reading.
ListVersions ==
  /\ At({"listing"})
  /\ Running
  /\ report' = [report EXCEPT !.pc = "hashing", !.rows = db.rows,
                  !.status = [v \in Version |-> IF v \in Committed THEN "unread" ELSE "unlisted"]]
  /\ UNCHANGED vars

\* Mutant of Hashed: the bytes are held against the event instead of the row.
HashedAnchored(v) == IF files[v] = report.events[v] THEN "verified" ELSE "tampered"

\* verify_integrity(): what the bytes of a version, which are there, tell.
Hashed(v) == IF files[v] = report.rows[v] THEN "verified" ELSE "tampered"

\* A file that is gone ends the lineage with an error; the summary goes on.
HashFile(v) ==
  /\ At({"hashing"})
  /\ report.status[v] = "unread"
  /\ report' = IF files[v] # "none" THEN [report EXCEPT !.status[v] = Hashed(v)]
               ELSE IF report.kind = "summary"
                    THEN [report EXCEPT !.status[v] = "unreadable"]
                    ELSE [report EXCEPT !.pc = "raised"]
  /\ UNCHANGED vars

Answer ==
  /\ At({"hashing"})
  /\ \A v \in Version : report.status[v] # "unread"
  /\ report' = [report EXCEPT !.pc = "answered"]
  /\ UNCHANGED vars

\* The client hangs up.
Hangup ==
  /\ At({"listing", "hashing"})
  /\ report' = NoReport
  /\ UNCHANGED vars

\* The content hash that an event tells.
Anchor(told) == IF told = "forged" THEN "alt" ELSE told

\* Mutant of RecordTampered: a version without an event counts as altered.
RecordTamperedUnanchored(v) == Anchor(report.events[v]) # report.rows[v]

\* The row of v differs from what its event tells.
RecordTampered(v) == report.events[v] # "none" /\ Anchor(report.events[v]) # report.rows[v]

\* The hash of each event is made again from its own text; neither the links
\* from event to event nor the ledger are looked at.
ChainBroken == \E v \in Version : report.events[v] = "alt"

\* Does the answer say that the document is intact?
SaysIntact ==
  IF report.kind = "summary"
  THEN \A v \in Version : report.status[v] # "tampered"
  ELSE /\ ~ChainBroken
       /\ \A v \in Version : report.status[v] # "unlisted" =>
            report.status[v] = "verified" /\ ~RecordTampered(v)

\* A step that takes away or gives back what is reported on.
Disturb ==
  report' = IF At({"idle"}) THEN report ELSE [report EXCEPT !.disturbed = TRUE]

ReportStep ==
  \/ \E kind \in {"lineage", "summary"} : BeginReport(kind)
  \/ ListVersions
  \/ \E v \in Version : HashFile(v)
  \/ Answer
  \/ Hangup

\* So do an upload that fails, and one that commits a file that is hurt already.
UploadBeside ==
  \E v \in Version :
    \/ (Open(v) \/ Put(v) \/ Finish(v)) /\ UNCHANGED report
    \/ Commit(v) /\ (IF files[v] = "orig" THEN UNCHANGED report ELSE Disturb)
    \/ FailUpload(v) /\ Disturb

FaultBeside == (HurtStore \/ HurtRecord) /\ Disturb

ReportNext ==
  \/ ReportStep
  \/ UploadBeside
  \/ FaultBeside
  \/ (ToolStep \/ HurtCopies) /\ Disturb

ReportInit == report = NoReport
ReportSpec == Init /\ ReportInit /\ [][ReportNext]_<<vars, report>>

-----------------------------------------------------------------------------
(* Properties *)

Undisturbed == report # NoReport /\ ~report.disturbed

\* "Cross-version tamper verification" (api_ext.py:580): while nothing is lost
\* or altered, and whatever uploads go on, a lineage that says intact means that
\* every version that has an event is as it was uploaded, file, row and event,
\* or that all three were rewritten to agree, the event together with its hash;
\* and if every version was as uploaded, the lineage says so, and does not raise.
Rewritten(v) == files[v] = "alt" /\ db.rows[v] = "alt" /\ db.events[v] = "forged"
LineageTruthful ==
  Undisturbed /\ report.kind = "lineage" =>
    /\ At({"answered"}) /\ SaysIntact =>
         \A v \in report.were \cap report.sealed : v \in report.sound \/ Rewritten(v)
    /\ report.were = report.sound => ~At({"raised"}) /\ (At({"answered"}) => SaysIntact)

\* The summary raises no false alarm either, and it is intact only if what is
\* damaged is gone, which it shows as unreadable (api_ext.py:714), or does not
\* show in the bytes: the row was altered with them, or the event only.
SummaryTruthful ==
  Undisturbed /\ report.kind = "summary" /\ At({"answered"}) =>
    /\ report.were = report.sound => SaysIntact
    /\ SaysIntact => \A v \in report.were \ report.sound :
         \/ report.status[v] = "unreadable" /\ files[v] = "none"
         \/ files[v] = report.rows[v] /\ (report.rows[v] = "alt" \/ report.events[v] # "orig")

-----------------------------------------------------------------------------
(* The inductive invariant behind these properties *)

\* In no copy of the database is there an event without its version.
Anchored(copy) ==
  copy.kind = "whole" =>
    \A v \in Version : copy.rows[v] = "none" => copy.events[v] = "none"
EventsOfVersions ==
  /\ Anchored(db)
  /\ tool.pc = "copying" => Anchored(tool.seen)
  /\ \A d \in Second : Anchored(dirs[d].db)

Listed == {v \in Version : report.status[v] # "unlisted"}

\* What a report knew at its beginning is so still, and what was committed
\* since is whole.
BeginningHolds ==
  /\ db.kind = "whole"
  /\ report.were \subseteq Committed
  /\ report.sound = {v \in report.were : Sound(v)}
  /\ report.sealed = {v \in report.were : report.events[v] # "none"}
  /\ \A v \in Version :
       report.events[v] = IF v \in report.were THEN db.events[v] ELSE "none"
  /\ \A v \in Committed \ report.were : files[v] = "orig" /\ db.rows[v] = "orig"

\* The list has every version of the beginning, and is as the rows are.
ListHolds ==
  /\ IF At({"listing"}) THEN Listed = {} ELSE report.were \subseteq Listed
  /\ Listed \subseteq Committed
  /\ \A v \in Listed : report.rows[v] = db.rows[v]

\* What was found of a file can be found again.
FindingsHold ==
  /\ \A v \in Version :
       /\ report.status[v] = "verified" => files[v] = report.rows[v]
       /\ report.status[v] = "tampered" => files[v] \notin {"none", report.rows[v]}
       /\ report.status[v] = "unreadable" => files[v] = "none" /\ report.kind = "summary"
  /\ At({"answered"}) => \A v \in Version : report.status[v] # "unread"
  /\ At({"raised"}) => \E v \in Listed : files[v] = "none"

ReportInv ==
  /\ ReportTypeOK
  /\ EventsOfVersions
  /\ Undisturbed => BeginningHolds /\ ListHolds /\ FindingsHold
=============================================================================
