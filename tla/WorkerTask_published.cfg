\* A renewal beside a publication: one image, one attempt.
CONSTANTS
  Jobs = {j1}
  ImageJobs = {j1}
  Workers = {w1}
  Priority <- AllNormal
  MaxAttempts = 1
  ItemCount = 1
  LeaseTerm = 1
  NoWorker = NoWorker
  NoJob = NoJob
SPECIFICATION TaskSpec
INVARIANTS
  PublishedFilesKept
CHECK_DEADLOCK FALSE
