CONSTANTS
  Session = {s1, s2}
  Document = {d1, d2}
  Role = {r1}
  ClassifyOnUpload = TRUE
  Faults = {"gateway", "database", "storage", "crash"}
  MaxUploads = 3
SPECIFICATION FairSpec
INVARIANTS UploadInv VersionsContiguous VersionSealed AckedIsDurable
PROPERTY UploadsEnd
CHECK_DEADLOCK FALSE
