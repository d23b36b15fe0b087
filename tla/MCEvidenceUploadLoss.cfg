CONSTANTS
  Session = {s1, s2}
  Document = {d1}
  Role = {r1}
  ClassifyOnUpload = TRUE
  Faults = {}
  MaxUploads = 3
SPECIFICATION Spec
INVARIANTS BytesPreserved
CHECK_DEADLOCK FALSE
