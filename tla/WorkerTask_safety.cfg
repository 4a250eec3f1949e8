\* An image job of two items or a demo job, two attempts: a late task beside its successor.
CONSTANTS
  Jobs = {j1, j2}
  ImageJobs = {j1}
  Workers = {w1}
  Priority <- AllNormal
  MaxAttempts = 2
  ItemCount = 2
  LeaseTerm = 1
  NoWorker = NoWorker
  NoJob = NoJob
SPECIFICATION TaskSpec
CONSTRAINT OneJob
INVARIANTS
  TaskTypeOK
  PublishedOrDisowned
  TidyEnd
  LockHasTask
\* A worker may be stopped for good.
CHECK_DEADLOCK FALSE
