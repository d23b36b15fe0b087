------------------------------ MODULE MCReports ------------------------------
(***************************************************************************)
(* Model checking Backups and Reports.  A report looks only at the stores, *)
(* in states that faults reach without the backup tool too, so each        *)
(* behaviour of this model has the one or the other: part says which.      *)
(***************************************************************************)
EXTENDS Reports, TLC

CONSTANT BackupFaults   \* bound: faults where the backup tool works

VARIABLE part

Symmetry == Permutations(Version)

MCInit == Init /\ ReportInit /\ part \in {"backups", "reports"}
MCNext ==
  /\ UNCHANGED part
  /\ \/ /\ part = "backups"
        /\ UploadStep \/ ToolStep \/ HurtStore \/ HurtCopies
        /\ faults' <= BackupFaults
        /\ UNCHANGED report
     \/ /\ part = "reports"
        /\ \/ ReportStep
           \/ UploadBeside
           \/ FaultBeside
MCSpec == MCInit /\ [][MCNext]_<<vars, report, part>>
=============================================================================
