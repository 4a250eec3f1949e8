\* One image job of two items and one attempt, and a worker whose hung tasks are restarted.
CONSTANTS
  Jobs = {j1}
  ImageJobs = {j1}
  Workers = {w1}
  Priority <- AllNormal
  MaxAttempts = 1
  ItemCount = 2
  LeaseTerm = 1
  NoWorker = NoWorker
  NoJob = NoJob
SPECIFICATION RestartedTaskSpec
PROPERTIES
  AttemptCloses
  CancellationCompletes
\* A worker may be stopped for good.
CHECK_DEADLOCK FALSE
