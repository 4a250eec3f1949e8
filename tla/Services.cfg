\* A window that a call's wait can straddle; a session, a login beside it and two
\* credentials; two requests with one key; one schedule, two schedulers and an edit that
\* may start late.
CONSTANTS
  Callers = {c1, c2}
  Keys = {k1, k2}
  AttemptLimit = 2
  Window = 3
  MaxTrackedKeys = 1
  MaxWait = 1
  LastInstant = 5
  NoCall = NoCall
  Sessions = {n1}
  Requests = {r1, r2}
  Credentials = {g1, g2}
  MaxToken = 2
  MaxStarts = 2
  Bootstrap = Bootstrap
  NoCredentials = NoCredentials
  NoSession = NoSession
  NoRequest = NoRequest
  UploadRequests = {u1, u2}
  IdempotencyKeys = {i1}
  shortBody = shortBody
  longBody = longBody
  Bodies = {shortBody, longBody}
  BodySize <- TwoSizes
  StorageBudget = 3
  MaxActiveJobs = 1
  MaxWriters = 2
  MaxBypassing = 1
  NoKey = NoKey
  NoUpload = NoUpload
  Schedules = {s1}
  Schedulers = {c1, c2}
  Editors = {e1}
  Intervals = {1, 2}
  Anchors = {0, 1}
  Horizon = 3
  Idle = Idle
  NoSchedule = NoSchedule
SYMMETRY Alike
SPECIFICATION ServicesSpec
INVARIANTS
  ServicesTypeOK
  WindowLimit
  SessionMatchesOwner
  CommittedInputsKept
  AdmissionLimits
  NoOverlap
  CursorOnGrid
  HistoryHasJobs
PROPERTIES
  ImplementsSubmissions
  ImplementsRecurrence
  RefusalsHonest
  CsrfRepaired
  LatestSlotOnly
\* Every part may come to rest: out of requests or starts, or at the end of its clock.
CHECK_DEADLOCK FALSE
