\* Two demo jobs of one attempt each, two workers: claims race, retries take the free identifier.
CONSTANTS
  Jobs = {j1, j2}
  ImageJobs = {}
  Workers = {w1, w2}
  Priority <- AllNormal
  MaxAttempts = 1
  ItemCount = 1
  LeaseTerm = 1
  NoWorker = NoWorker
  NoJob = NoJob
SPECIFICATION Spec
SYMMETRY WorkerSymmetry
INVARIANTS
  LocksGuardRows
  RetryKeepsSource
\* Every identifier may end in a state nobody can leave.
CHECK_DEADLOCK FALSE
