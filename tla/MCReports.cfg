CONSTANTS
  Version = {v1, v2}
  Seconds = 1
  MaxFaults = 3
  BackupFaults = 2
SPECIFICATION MCSpec
INVARIANTS BackupCovers RestoredWhole LineageTruthful SummaryTruthful
SYMMETRY Symmetry
CHECK_DEADLOCK FALSE
