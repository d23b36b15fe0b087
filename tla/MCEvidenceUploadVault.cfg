CONSTANTS
  Session = {s1, s2, s3}
  Document = {d1, d2}
  Role = {r1}
  ClassifyOnUpload = FALSE
  Faults = {"gateway"}
  MaxUploads = 4
SYMMETRY Symmetry
SPECIFICATION Spec
INVARIANTS BytesPreserved NoOrphans
PROPERTY UploadsFillVault
CHECK_DEADLOCK FALSE
