CONSTANTS
  Session = {s1, s2}
  Case = {c1, c2}
  About = {a1}
  OtherKind = {"document_downloaded"}
  Provider = "fabric"
  OtherRef = {0}
  MaxClock = 7
SPECIFICATION Spec
INVARIANTS EventInv EventsSealedOnce EventForkOnlyByOverlap
PROPERTY UsesLedger
CHECK_DEADLOCK FALSE
