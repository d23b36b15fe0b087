CONSTANTS
  c1 = c1
  c2 = c2
  t1 = t1
  t2 = t2
  Session = {s1, s2}
  Document = {d1}
  Category = {c1, c2}
  Tag = {t1, t2}
  Given <- MCGiven
  Choice <- MCChoice
  MaxRequests = 3
SPECIFICATION FairSpec
INVARIANTS ClassInv ClassifiedUntilContested
PROPERTIES ConfirmedIsShown RequestsEnd
CHECK_DEADLOCK FALSE
