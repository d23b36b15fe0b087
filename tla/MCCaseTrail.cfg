CONSTANTS
  Session = {s1, s2}
  Case = {c1}
  Provider = "fabric"
  Status = {"open", "closed"}
  MaxClock = 9
  MaxEdits = 3
  About = {"case_created", "open", "closed"}
  OtherKind = {}
  OtherRef = {}
SYMMETRY Symmetry
SPECIFICATION TrailSpec
INVARIANTS CreationRootsTrail EventTellsLatest TrailTellsStatusUntilOverlap
CHECK_DEADLOCK FALSE
