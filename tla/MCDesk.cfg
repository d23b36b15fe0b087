CONSTANTS
  u1 = u1
  u2 = u2
  c1 = c1
  d1 = d1
  dept = dept
  low = low
  high = high
  Session = {s1, s2}
  User = {u1, u2}
  RoleName = {"user", "admin", "viewer"}
  Case = {c1}
  Document = {d1}
  CaseOf <- MCCaseOf
  Sensitivity = {low, high}
  SensitivityOf <- MCSensitivityOf
  Department = {dept}
  DepartmentOf <- MCDepartmentOf
  Offer <- MCOffer
  MaxAccess = 3
  Request = {r1}
  Complaint = {p1}
  MaxDesk = 5
SPECIFICATION MCSpec
INVARIANTS OpenedCaseStaysOpen MintedOnceUntilOverlap ChecksAgree
  ReviewerEntitled StampWholeUntilOverlap
PROPERTY AccessBeginsWithRow
CHECK_DEADLOCK FALSE
