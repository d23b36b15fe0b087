CONSTANTS
  Session = {s1, s2, s3}
  Transfer = {t1, t2}
  User = {u1, u2}
  Admin = {u1}
  MaxClock = 7
SPECIFICATION Spec
INVARIANTS TransferInv GrantsFollowAcceptance
PROPERTY DecidedOnceUntilContested
SYMMETRY Symmetry
CHECK_DEADLOCK FALSE
