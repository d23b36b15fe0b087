CONSTANTS
  Session = {s1, s2}
  Email = {e1}
  Prototype <- MCPrototype
  Password = {w1, w2}
  MaxAttempts = 2
  Ttl = 2
  MaxClock = 5
SPECIFICATION Spec
INVARIANTS AcceptedCodes CountedUntilOverlap AccountOfProvenCode
SYMMETRY Symmetry
CHECK_DEADLOCK FALSE
