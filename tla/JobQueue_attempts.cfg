\* One image job with the default of three attempts and two inputs, one worker, so that a late task and its successor may share it.
CONSTANTS
  Jobs = {j1}
  ImageJobs = {j1}
  Workers = {w1}
  Priority <- AllNormal
  MaxAttempts = 3
  ItemCount = 2
  LeaseTerm = 2
  NoWorker = NoWorker
  NoJob = NoJob
SPECIFICATION Spec
INVARIANTS
  TypeOK
  OneExecution
  AttemptHistory
  AttemptLeft
  ManifestIntegrity
  ProgressOfExecution
PROPERTIES
  EndedStaysEnded
  CancellationWins
  ImplementsLifecycle
\* Every identifier may end in a state nobody can leave.
CHECK_DEADLOCK FALSE
