CONSTANTS
  Session = {s1, s2}
  Body = {b1}
  Provider = "fabric"
  MaxClock = 9
SPECIFICATION Spec
INVARIANTS LedgerInv ForkOnlyByOverlap GatewayBacksLedger
PROPERTY ChainUntilOverlap
SYMMETRY Symmetry
CHECK_DEADLOCK FALSE
