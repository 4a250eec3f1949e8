---------------------------- MODULE JobQueueProofs ----------------------------
(***************************************************************************)
(* Theorems about JobQueue, for every set of jobs and workers and every    *)
(* number of attempts, inputs and lease ticks.                             *)
(***************************************************************************)
EXTENDS JobQueue, TLAPS

\* The value sets the type invariant is built from, named so that a proof can
\* expand them without the rest.
USE DEF JobStates, AttemptStates, Claimable, Active, Terminal, FencedWrites

-----------------------------------------------------------------------------
\* Every statement of crates/adapters writes values its column can hold: the
\* states of the CHECK constraints, progress within progress_total, attempt
\* numbers within max_attempts.
LEMMA TypeInit == Init => TypeOK
  BY QueueAssumption DEF Init, TypeOK, AttemptNumbers

LEMMA CloseFailedType ==
  ASSUME TypeOK, NEW j \in Jobs, NEW n \in AttemptNumbers, NEW again \in BOOLEAN,
         CloseFailed(j, n, again)
  PROVE  /\ attState' \in [Jobs -> [AttemptNumbers -> AttemptStates]]
         /\ jobState' \in [Jobs -> JobStates]
         /\ jobProgress' \in [Jobs -> 0..ItemCount]
         /\ due' \in [Jobs -> BOOLEAN]
<1> USE QueueAssumption DEF TypeOK, CloseFailed
<1>1. CASE again
  BY <1>1
<1>2. CASE ~again
  BY <1>2
<1> QED BY <1>1, <1>2

LEMMA CloseCancelledType ==
  ASSUME TypeOK, NEW j \in Jobs, NEW n \in AttemptNumbers, CloseCancelled(j, n)
  PROVE  /\ attState' \in [Jobs -> [AttemptNumbers -> AttemptStates]]
         /\ jobState' \in [Jobs -> JobStates]
         /\ jobProgress' \in [Jobs -> 0..ItemCount]
         /\ due' \in [Jobs -> BOOLEAN]
  BY DEF TypeOK, CloseCancelled

LEMMA TypeNext == TypeOK /\ [Next]_vars => TypeOK'
<1> SUFFICES ASSUME TypeOK, [Next]_vars PROVE TypeOK'
  OBVIOUS
<1> USE QueueAssumption DEF TypeOK, jobVars, attVars, workerVars
<1>1. CASE ClientStep
  <2>1. ASSUME NEW j \in Jobs, NEW now \in BOOLEAN, CreateJob(j, now) PROVE TypeOK'
    BY <2>1 DEF CreateJob
  <2>2. ASSUME NEW j \in Jobs, RequestCancel(j) PROVE TypeOK'
    <3>1. \/ jobState' = [jobState EXCEPT ![j] = "cancelled"]
          \/ jobState' = [jobState EXCEPT ![j] = "cancel_requested"]
          \/ jobState' = jobState
      BY <2>2 DEF RequestCancel
    <3>2. jobState' \in [Jobs -> JobStates]
      BY <3>1
    <3> QED BY <2>2, <3>2 DEF RequestCancel
  <2>3. ASSUME NEW j \in Jobs, NEW k \in Jobs, ManualRetry(j, k) PROVE TypeOK'
    BY <2>3 DEF ManualRetry
  <2> QED BY <1>1, <2>1, <2>2, <2>3 DEF ClientStep
<1>2. CASE WorkerStep
  <2>1. ASSUME NEW w \in Workers, RegisterWorker(w) PROVE TypeOK'
    BY <2>1 DEF RegisterWorker
  <2>2. ASSUME NEW w \in Workers, HeartbeatWorker(w) PROVE TypeOK'
    BY <2>2 DEF HeartbeatWorker
  <2>3. ASSUME NEW w \in Workers, StopWorker(w) PROVE TypeOK'
    BY <2>3 DEF StopWorker
  <2>4. ASSUME NEW w \in Workers, AbortClaim(w) PROVE TypeOK'
    BY <2>4 DEF AbortClaim
  <2>5. ASSUME NEW w \in Workers, NEW j \in Jobs, LockCandidate(w, j) PROVE TypeOK'
    BY <2>5 DEF LockCandidate
  <2>6. ASSUME NEW w \in Workers, NEW j \in Jobs, NEW n \in AttemptNumbers, ClaimNext(w, j, n)
        PROVE TypeOK'
    BY <2>6 DEF ClaimNext
  <2> QED BY <1>2, <2>1, <2>2, <2>3, <2>4, <2>5, <2>6 DEF WorkerStep
<1>3. CASE HolderStep
  <2>1. ASSUME NEW j \in Jobs, Rollback(j) PROVE TypeOK'
    BY <2>1 DEF Rollback
  <2>2. ASSUME NEW j \in Jobs, NEW n \in AttemptNumbers, RenewLease(j, n) PROVE TypeOK'
    BY <2>2 DEF RenewLease
  <2>9. ASSUME NEW j \in Jobs, NEW n \in AttemptNumbers, AwaitRowLock(j, n) \/ AbandonRenewal(j, n)
        PROVE TypeOK'
    <3>1. CASE AwaitRowLock(j, n)
      BY <3>1 DEF AwaitRowLock
    <3>2. CASE AbandonRenewal(j, n)
      BY <3>2 DEF AbandonRenewal
    <3> QED BY <2>9, <3>1, <3>2
  <2>10. ASSUME NEW j \in Jobs, NEW n \in AttemptNumbers, RenewAfterWait(j, n) PROVE TypeOK'
    <3>1. lease' \in [Jobs -> [AttemptNumbers -> 0..LeaseTerm]]
      <4>1. ASSUME NEW t \in lease[j][n]..LeaseTerm, lease' = [lease EXCEPT ![j][n] = t]
            PROVE  lease' \in [Jobs -> [AttemptNumbers -> 0..LeaseTerm]]
        <5>1. lease[j][n] \in 0..LeaseTerm
          OBVIOUS
        <5>2. t \in 0..LeaseTerm
          BY <5>1
        <5> QED BY <4>1, <5>2
      <4>2. CASE UNCHANGED lease
        BY <4>2
      <4> QED BY <2>10, <4>1, <4>2 DEF RenewAfterWait
    <3> QED BY <2>10, <3>1 DEF RenewAfterWait
  <2>3. ASSUME NEW j \in Jobs, NEW n \in AttemptNumbers, NEW op \in FencedWrites, OpenWrite(j, n, op)
        PROVE TypeOK'
    BY <2>3 DEF OpenWrite
  <2>4. ASSUME NEW j \in Jobs, NEW n \in AttemptNumbers, NEW p \in 0..ItemCount, UpdateProgress(j, n, p)
        PROVE TypeOK'
    BY <2>4 DEF UpdateProgress, Commit
  <2>5. ASSUME NEW j \in Jobs, NEW n \in AttemptNumbers, Complete(j, n) PROVE TypeOK'
    BY <2>5 DEF Complete, Commit, Succeed
  <2>6. ASSUME NEW j \in Jobs, NEW n \in AttemptNumbers, CompleteImageJob(j, n) PROVE TypeOK'
    BY <2>6 DEF CompleteImageJob, Commit, Succeed
  <2>7. ASSUME NEW j \in Jobs, NEW n \in AttemptNumbers, NEW transient \in BOOLEAN,
               RecordFailure(j, n, transient)
        PROVE TypeOK'
    <3> DEFINE again == transient /\ n < MaxAttempts
    <3>1. again \in BOOLEAN /\ CloseFailed(j, n, again)
      BY <2>7 DEF RecordFailure
    <3> HIDE DEF again
    <3> QED BY <2>7, <3>1, CloseFailedType DEF RecordFailure, Commit
  <2>8. ASSUME NEW j \in Jobs, NEW n \in AttemptNumbers, FinishCancelled(j, n) PROVE TypeOK'
    BY <2>8, CloseCancelledType DEF FinishCancelled, Commit
  <2> HIDE DEF TypeOK
  <2> QED BY <1>3, <2>1, <2>2, <2>3, <2>4, <2>5, <2>6, <2>7, <2>8, <2>9, <2>10 DEF HolderStep
<1>4. CASE RecoveryStep
  <2>1. ASSUME NEW j \in Jobs, NEW n \in AttemptNumbers, ReclaimNextExpiredAttempt(j, n)
        PROVE TypeOK'
    <3> DEFINE again == n < MaxAttempts
    <3>1. again \in BOOLEAN
      BY DEF AttemptNumbers
    <3>2. CASE CloseFailed(j, n, again)
      <4> HIDE DEF again
      <4> QED BY <2>1, <3>1, <3>2, CloseFailedType DEF ReclaimNextExpiredAttempt
    <3>3. CASE CloseCancelled(j, n)
      BY <2>1, <3>3, CloseCancelledType DEF ReclaimNextExpiredAttempt
    <3> QED BY <2>1, <3>2, <3>3 DEF ReclaimNextExpiredAttempt
  <2>2. ASSUME NEW old \in SUBSET Jobs, ExpireOutputArtifacts(old) PROVE TypeOK'
    BY <2>2 DEF ExpireOutputArtifacts
  <2> QED BY <1>4, <2>1, <2>2 DEF RecoveryStep
<1>5. CASE TimeStep
  <2>1. ASSUME NEW j \in Jobs, NEW n \in AttemptNumbers, LeaseTick(j, n) PROVE TypeOK'
    BY <2>1 DEF LeaseTick
  <2>2. ASSUME NEW w \in Workers, HeartbeatLapses(w) PROVE TypeOK'
    BY <2>2 DEF HeartbeatLapses
  <2>3. ASSUME NEW j \in Jobs, JobDue(j) PROVE TypeOK'
    BY <2>3 DEF JobDue
  <2> QED BY <1>5, <2>1, <2>2, <2>3 DEF TimeStep
<1>6. CASE UNCHANGED vars
  BY <1>6 DEF vars
<1> QED BY <1>1, <1>2, <1>3, <1>4, <1>5, <1>6 DEF Next

THEOREM TypeCorrect == Spec => []TypeOK
  BY TypeInit, TypeNext, PTL DEF Spec

-----------------------------------------------------------------------------
\* The statements that change a job's state or its attempts.  Every invariant
\* below is about these, so its proof has one step per disjunct.
LEMMA StateChanges ==
  ASSUME [Next]_vars
  PROVE  \/ UNCHANGED <<jobState, jobProgress, attState, attProgress, owner>>
         \/ \E j \in Jobs, now \in BOOLEAN : CreateJob(j, now)
         \/ \E j \in Jobs : RequestCancel(j)
         \/ \E j, k \in Jobs : ManualRetry(j, k)
         \/ \E w \in Workers, j \in Jobs, n \in AttemptNumbers : ClaimNext(w, j, n)
         \/ \E j \in Jobs, n \in AttemptNumbers, p \in 0..ItemCount : UpdateProgress(j, n, p)
         \/ \E j \in Jobs, n \in AttemptNumbers : Complete(j, n) \/ CompleteImageJob(j, n)
         \/ \E j \in Jobs, n \in AttemptNumbers, transient \in BOOLEAN : RecordFailure(j, n, transient)
         \/ \E j \in Jobs, n \in AttemptNumbers : FinishCancelled(j, n)
         \/ \E j \in Jobs, n \in AttemptNumbers : ReclaimNextExpiredAttempt(j, n)
<1>1. CASE ClientStep
  BY <1>1 DEF ClientStep
<1>2. CASE WorkerStep
  BY <1>2 DEF WorkerStep, RegisterWorker, HeartbeatWorker, StopWorker, AbortClaim, LockCandidate,
              jobVars, attVars
<1>3. CASE HolderStep
  BY <1>3 DEF HolderStep, Rollback, RenewLease, AwaitRowLock, RenewAfterWait, AbandonRenewal, OpenWrite, jobVars, attVars
<1>4. CASE RecoveryStep
  BY <1>4 DEF RecoveryStep, ExpireOutputArtifacts, attVars
<1>5. CASE TimeStep
  BY <1>5 DEF TimeStep, LeaseTick, HeartbeatLapses, JobDue, jobVars, attVars
<1>6. CASE UNCHANGED vars
  BY <1>6 DEF vars, jobVars, attVars
<1> QED BY <1>1, <1>2, <1>3, <1>4, <1>5, <1>6 DEF Next

\* How a running attempt is closed, whoever closes it: it succeeds with its job,
\* fails with a retry while an attempt is left or with the job, or is cancelled
\* with the job, which is the only way out of a requested cancellation.
Closes(j, n, attempt, job) ==
  /\ attState[j][n] = "running"
  /\ attState' = [attState EXCEPT ![j][n] = attempt]
  /\ jobState[j] \in Active
  /\ jobState[j] = "cancel_requested" <=> job = "cancelled"
  /\ jobState' = [jobState EXCEPT ![j] = job]
  /\ \A k \in Jobs : k # j => jobProgress'[k] = jobProgress[k] /\ attProgress'[k] = attProgress[k]
  /\ \A m \in AttemptNumbers : m # n => attProgress'[j][m] = attProgress[j][m]
  /\ job = "succeeded" => jobProgress'[j] = ItemCount
  /\ job = "retry_waiting" => jobProgress'[j] = 0
  /\ job = "cancelled" => jobProgress'[j] = jobProgress[j]
  /\ UNCHANGED <<owner, retryOf, claiming>>
  /\ \/ attempt = "succeeded" /\ job = "succeeded"
     \/ attempt = "failed" /\ job = "failed"
     \/ attempt = "failed" /\ job = "retry_waiting" /\ n < MaxAttempts
     \/ attempt = "cancelled" /\ job = "cancelled"

LEMMA ClosingSteps ==
  ASSUME TypeOK, NEW j \in Jobs, NEW n \in AttemptNumbers,
         \/ Complete(j, n)
         \/ CompleteImageJob(j, n)
         \/ \E transient \in BOOLEAN : RecordFailure(j, n, transient)
         \/ FinishCancelled(j, n)
         \/ ReclaimNextExpiredAttempt(j, n)
  PROVE  \E attempt \in AttemptStates, job \in JobStates : Closes(j, n, attempt, job)
<1> USE DEF TypeOK
<1>1. CASE Complete(j, n) \/ CompleteImageJob(j, n)
  <2>1. Closes(j, n, "succeeded", "succeeded")
    BY <1>1 DEF Complete, CompleteImageJob, Commit, Succeed, Closes
  <2> QED BY <2>1
<1>2. ASSUME NEW again \in BOOLEAN, CloseFailed(j, n, again), again => n < MaxAttempts,
             attState[j][n] = "running",
             jobState[j] = "running", UNCHANGED <<owner, attProgress, retryOf, claiming>>
      PROVE  \E attempt \in AttemptStates, job \in JobStates : Closes(j, n, attempt, job)
  <2>1. CASE again
    <3>1. Closes(j, n, "failed", "retry_waiting")
      BY <1>2, <2>1 DEF CloseFailed, Closes
    <3> QED BY <3>1
  <2>2. CASE ~again
    <3>1. Closes(j, n, "failed", "failed")
      BY <1>2, <2>2 DEF CloseFailed, Closes
    <3> QED BY <3>1
  <2> QED BY <2>1, <2>2
<1>3. ASSUME CloseCancelled(j, n), attState[j][n] = "running", jobState[j] = "cancel_requested",
             UNCHANGED <<owner, attProgress, retryOf, claiming>>
      PROVE  \E attempt \in AttemptStates, job \in JobStates : Closes(j, n, attempt, job)
  <2>1. Closes(j, n, "cancelled", "cancelled")
    BY <1>3 DEF CloseCancelled, Closes
  <2> QED BY <2>1
<1>4. ASSUME NEW transient \in BOOLEAN, RecordFailure(j, n, transient)
      PROVE  \E attempt \in AttemptStates, job \in JobStates : Closes(j, n, attempt, job)
  <2> DEFINE again == transient /\ n < MaxAttempts
  <2>1. again \in BOOLEAN /\ CloseFailed(j, n, again) /\ (again => n < MaxAttempts)
    BY <1>4 DEF RecordFailure
  <2> HIDE DEF again
  <2> QED BY <1>2, <1>4, <2>1 DEF RecordFailure, Commit
<1>5. CASE FinishCancelled(j, n)
  BY <1>3, <1>5 DEF FinishCancelled, Commit
<1>6. CASE ReclaimNextExpiredAttempt(j, n)
  <2> DEFINE again == n < MaxAttempts
  <2>1. again \in BOOLEAN /\ (again => n < MaxAttempts)
    BY DEF AttemptNumbers
  <2>2. \/ CloseCancelled(j, n) /\ jobState[j] = "cancel_requested"
        \/ CloseFailed(j, n, again) /\ jobState[j] = "running"
    BY <1>6 DEF ReclaimNextExpiredAttempt
  <2> HIDE DEF again
  <2> QED BY <1>2, <1>3, <1>6, <2>1, <2>2 DEF ReclaimNextExpiredAttempt
<1> QED BY <1>1, <1>4, <1>5, <1>6

-----------------------------------------------------------------------------
\* The history of a job: one execution at a time, no gaps, an attempt left while
\* it waits.  Creation and retry start an empty one, a claim extends it by one
\* running attempt, Closes ends that attempt.

\* A row that becomes claimable or cancelled without a worker: its attempts do
\* not change, and none of them is running.
LEMMA AttemptsAreIntegers ==
  /\ MaxAttempts \in AttemptNumbers
  /\ AttemptNumbers \subseteq Int
  /\ \A n \in AttemptNumbers : 1..(n - 1) \subseteq AttemptNumbers
  BY QueueAssumption DEF AttemptNumbers

LEMMA HistoryOfClientStep ==
  ASSUME TypeOK, AbsentIsFresh, OneExecution, AttemptHistory, AttemptLeft,
         NEW j \in Jobs, NEW new \in {"queued", "cancelled", "cancel_requested"},
         jobState' = [jobState EXCEPT ![j] = new],
         UNCHANGED <<attState, owner>>,
         \/ new = "queued" /\ jobState[j] = "absent"
         \/ new = "cancelled" /\ jobState[j] \in Claimable
         \/ new = "cancel_requested" /\ jobState[j] = "running"
  PROVE  OneExecution' /\ AttemptHistory' /\ AttemptLeft'
<1> USE QueueAssumption DEF TypeOK
<1>1. MaxAttempts \in AttemptNumbers
  BY DEF AttemptNumbers
<1>2. OneExecution'
  BY DEF OneExecution, AbsentIsFresh, AttemptHistory
<1>3. AttemptHistory'
  BY DEF OneExecution, AbsentIsFresh, AttemptHistory
<1>4. AttemptLeft'
  BY <1>1 DEF AttemptLeft, AbsentIsFresh
<1> QED BY <1>2, <1>3, <1>4

LEMMA HistoryOfClaim ==
  ASSUME TypeOK, OneExecution, AttemptHistory, AttemptLeft,
         NEW w \in Workers, NEW j \in Jobs, NEW n \in AttemptNumbers, ClaimNext(w, j, n)
  PROVE  OneExecution' /\ AttemptHistory' /\ AttemptLeft'
<1> USE QueueAssumption DEF TypeOK
<1>1. /\ jobState[j] \in Claimable
      /\ jobState' = [jobState EXCEPT ![j] = "running"]
      /\ attState' = [attState EXCEPT ![j][n] = "running"]
      /\ owner' = [owner EXCEPT ![j][n] = w]
  BY DEF ClaimNext
<1>2. \A m \in AttemptNumbers : m >= n => attState[j][m] = "none"
  BY DEF ClaimNext, IsNextAttempt, AttemptNumbers
<1>3. \A m \in AttemptNumbers : attState[j][m] \in {"none", "failed"}
  <2> SUFFICES ASSUME NEW m \in AttemptNumbers PROVE attState[j][m] \in {"none", "failed"}
    OBVIOUS
  <2>1. attState[j][m] # "running"
    BY <1>1 DEF OneExecution
  <2>2. attState[j][m] # "succeeded" /\ attState[j][m] # "cancelled"
    BY <1>1 DEF AttemptHistory
  <2> QED BY <2>1, <2>2
<1>4. \A m \in 1..(n - 1) : attState[j][m] = "failed"
  <2>1. CASE n = 1
    BY <2>1
  <2>2. CASE n > 1
    <3>1. n - 1 \in AttemptNumbers /\ attState[j][n - 1] # "none"
      BY <2>2 DEF ClaimNext, IsNextAttempt, AttemptNumbers
    <3>2. attState[j][n - 1] = "failed"
      BY <1>3, <3>1
    <3>3. \A m \in 1..(n - 2) : attState[j][m] = "failed"
      BY <3>1 DEF AttemptHistory, AttemptNumbers
    <3> QED BY <3>1, <3>2, <3>3 DEF AttemptNumbers
  <2> QED BY <2>1, <2>2 DEF AttemptNumbers
<1>5. \A k \in Jobs : k # j =>
        jobState'[k] = jobState[k] /\ attState'[k] = attState[k] /\ owner'[k] = owner[k]
  BY <1>1
<1>6. /\ jobState'[j] = "running" /\ attState'[j][n] = "running" /\ owner'[j][n] = w
      /\ \A m \in AttemptNumbers : m # n => attState'[j][m] = attState[j][m]
  BY <1>1
<1>7. OneExecution'
  <2> SUFFICES ASSUME NEW k \in Jobs
               PROVE  /\ jobState'[k] \in Active <=> \E m \in AttemptNumbers : attState'[k][m] = "running"
                      /\ \A m \in AttemptNumbers : attState'[k][m] = "running" =>
                           /\ owner'[k][m] \in Workers
                           /\ \A l \in AttemptNumbers : l > m => attState'[k][l] = "none"
    BY DEF OneExecution
  <2>1. CASE k # j
    BY <1>5, <2>1 DEF OneExecution
  <2>2. CASE k = j
    <3>1. \A m \in AttemptNumbers : attState'[j][m] = "running" => m = n
      BY <1>3, <1>6
    <3>2. \A l \in AttemptNumbers : l > n => attState'[j][l] = "none"
      BY <1>2, <1>6, AttemptsAreIntegers
    <3> QED BY <1>6, <2>2, <3>1, <3>2
  <2> QED BY <2>1, <2>2
<1>8. AttemptHistory'
  <2> SUFFICES ASSUME NEW k \in Jobs, NEW m \in AttemptNumbers
               PROVE  /\ attState'[k][m] # "none" => \A l \in 1..(m - 1) : attState'[k][l] = "failed"
                      /\ attState'[k][m] = "succeeded" => jobState'[k] = "succeeded"
                      /\ attState'[k][m] = "cancelled" => jobState'[k] = "cancelled"
                      /\ jobState'[k] = "succeeded" => \E l \in AttemptNumbers : attState'[k][l] = "succeeded"
    BY DEF AttemptHistory
  <2>1. CASE k # j
    BY <1>5, <2>1 DEF AttemptHistory
  <2>2. CASE k = j /\ m = n
    <3>1. \A l \in 1..(n - 1) : l \in AttemptNumbers /\ l # n
      BY DEF AttemptNumbers
    <3> QED BY <1>4, <1>6, <2>2, <3>1
  <2>3. CASE k = j /\ m # n
    <3>1. attState'[j][m] # "none" => m < n
      <4>1. m >= n => attState'[j][m] = "none"
        BY <1>2, <1>6, <2>3
      <4> QED BY <4>1, AttemptsAreIntegers
    <3>2. m < n => \A l \in 1..(m - 1) : attState[j][l] = "failed" /\ l \in AttemptNumbers /\ l # n
      BY <1>4 DEF AttemptNumbers
    <3> QED BY <1>3, <1>6, <2>3, <3>1, <3>2
  <2> QED BY <2>1, <2>2, <2>3
<1>9. AttemptLeft'
  BY <1>5, <1>6 DEF AttemptLeft
<1> QED BY <1>7, <1>8, <1>9

LEMMA HistoryOfClosing ==
  ASSUME TypeOK, OneExecution, AttemptHistory, AttemptLeft,
         NEW j \in Jobs, NEW n \in AttemptNumbers,
         NEW attempt \in AttemptStates, NEW job \in JobStates, Closes(j, n, attempt, job)
  PROVE  OneExecution' /\ AttemptHistory' /\ AttemptLeft'
<1> USE QueueAssumption DEF TypeOK
<1>1. MaxAttempts \in AttemptNumbers
  BY DEF AttemptNumbers
<1>2. /\ jobState[j] \in Active
      /\ \A m \in AttemptNumbers : m > n => attState[j][m] = "none"
      /\ \A m \in 1..(n - 1) : attState[j][m] = "failed"
  <2>1. attState[j][n] = "running"
    BY DEF Closes
  <2>2. attState[j][n] # "none"
    BY <2>1
  <2>3. \A m \in 1..(n - 1) : attState[j][m] = "failed"
    BY <2>2 DEF AttemptHistory
  <2> QED BY <2>1, <2>3 DEF OneExecution
<1>3. \A m \in AttemptNumbers : m # n => attState[j][m] \in {"none", "failed"}
  BY <1>2 DEF AttemptNumbers
<1>4. \A k \in Jobs : k # j =>
        jobState'[k] = jobState[k] /\ attState'[k] = attState[k] /\ owner'[k] = owner[k]
  BY DEF Closes
<1>5. /\ jobState'[j] = job /\ attState'[j][n] = attempt
      /\ \A m \in AttemptNumbers : m # n => attState'[j][m] = attState[j][m]
  BY DEF Closes
<1>6. attempt # "running" /\ attempt # "none" /\ job \notin Active
  BY DEF Closes
<1>7. OneExecution'
  <2> SUFFICES ASSUME NEW k \in Jobs
               PROVE  /\ jobState'[k] \in Active <=> \E m \in AttemptNumbers : attState'[k][m] = "running"
                      /\ \A m \in AttemptNumbers : attState'[k][m] = "running" =>
                           /\ owner'[k][m] \in Workers
                           /\ \A l \in AttemptNumbers : l > m => attState'[k][l] = "none"
    BY DEF OneExecution
  <2>1. CASE k # j
    BY <1>4, <2>1 DEF OneExecution
  <2>2. CASE k = j
    BY <1>3, <1>5, <1>6, <2>2
  <2> QED BY <2>1, <2>2
<1>8. AttemptHistory'
  <2> SUFFICES ASSUME NEW k \in Jobs, NEW m \in AttemptNumbers
               PROVE  /\ attState'[k][m] # "none" => \A l \in 1..(m - 1) : attState'[k][l] = "failed"
                      /\ attState'[k][m] = "succeeded" => jobState'[k] = "succeeded"
                      /\ attState'[k][m] = "cancelled" => jobState'[k] = "cancelled"
                      /\ jobState'[k] = "succeeded" => \E l \in AttemptNumbers : attState'[k][l] = "succeeded"
    BY DEF AttemptHistory
  <2>1. CASE k # j
    BY <1>4, <2>1 DEF AttemptHistory
  <2>2. CASE k = j
    <3>1. attState'[j][m] # "none" => m <= n
      <4>1. m > n => m # n
        BY AttemptsAreIntegers
      <4>2. m > n => attState'[j][m] = "none"
        BY <1>2, <1>5, <4>1
      <4> QED BY <4>2, AttemptsAreIntegers
    <3>2. m <= n => \A l \in 1..(m - 1) : attState[j][l] = "failed" /\ l \in AttemptNumbers /\ l # n
      BY <1>2 DEF AttemptNumbers
    <3>3. \/ attempt = "succeeded" /\ job = "succeeded"
          \/ attempt = "failed" /\ job \in {"failed", "retry_waiting"}
          \/ attempt = "cancelled" /\ job = "cancelled"
      BY DEF Closes
    <3> QED BY <1>3, <1>5, <2>2, <3>1, <3>2, <3>3
  <2> QED BY <2>1, <2>2
<1>9. AttemptLeft'
  <2>1. job \in Claimable => MaxAttempts > n /\ MaxAttempts # n
    BY AttemptsAreIntegers DEF Closes
  <2>2. job \in Claimable => attState'[j][MaxAttempts] = "none"
    BY <1>1, <1>2, <1>5, <2>1
  <2> QED BY <1>1, <1>4, <1>5, <2>2 DEF AttemptLeft
<1> QED BY <1>7, <1>8, <1>9

LEMMA HistoryNext ==
  ASSUME TypeOK, AbsentIsFresh, OneExecution, AttemptHistory, AttemptLeft, [Next]_vars
  PROVE  OneExecution' /\ AttemptHistory' /\ AttemptLeft'
<1>1. CASE UNCHANGED <<jobState, attState, owner>>
  BY <1>1 DEF OneExecution, AttemptHistory, AttemptLeft
<1>2. ASSUME NEW j \in Jobs, NEW now \in BOOLEAN, CreateJob(j, now)
      PROVE  OneExecution' /\ AttemptHistory' /\ AttemptLeft'
  BY <1>2, HistoryOfClientStep DEF CreateJob, attVars
<1>3. ASSUME NEW j \in Jobs, RequestCancel(j)
      PROVE  OneExecution' /\ AttemptHistory' /\ AttemptLeft'
  <2>1. UNCHANGED <<attState, owner>>
    BY <1>3 DEF RequestCancel, attVars
  <2>2. CASE UNCHANGED jobState
    BY <1>1, <2>1, <2>2
  <2>3. CASE jobState[j] \in Claimable /\ jobState' = [jobState EXCEPT ![j] = "cancelled"]
    BY <2>1, <2>3, HistoryOfClientStep
  <2>4. CASE jobState[j] = "running" /\ jobState' = [jobState EXCEPT ![j] = "cancel_requested"]
    BY <2>1, <2>4, HistoryOfClientStep
  <2> QED BY <1>3, <2>2, <2>3, <2>4 DEF RequestCancel
<1>4. ASSUME NEW j \in Jobs, NEW k \in Jobs, ManualRetry(j, k)
      PROVE  OneExecution' /\ AttemptHistory' /\ AttemptLeft'
  BY <1>4, HistoryOfClientStep DEF ManualRetry, attVars
<1>5. ASSUME NEW w \in Workers, NEW j \in Jobs, NEW n \in AttemptNumbers, ClaimNext(w, j, n)
      PROVE  OneExecution' /\ AttemptHistory' /\ AttemptLeft'
  BY <1>5, HistoryOfClaim
<1>6. ASSUME NEW j \in Jobs, NEW n \in AttemptNumbers,
             \/ Complete(j, n)
             \/ CompleteImageJob(j, n)
             \/ \E transient \in BOOLEAN : RecordFailure(j, n, transient)
             \/ FinishCancelled(j, n)
             \/ ReclaimNextExpiredAttempt(j, n)
      PROVE  OneExecution' /\ AttemptHistory' /\ AttemptLeft'
  BY <1>6, ClosingSteps, HistoryOfClosing
<1>7. ASSUME NEW j \in Jobs, NEW n \in AttemptNumbers, NEW p \in 0..ItemCount, UpdateProgress(j, n, p)
      PROVE  OneExecution' /\ AttemptHistory' /\ AttemptLeft'
  BY <1>1, <1>7 DEF UpdateProgress
<1> QED BY <1>1, <1>2, <1>3, <1>4, <1>5, <1>6, <1>7, StateChanges

-----------------------------------------------------------------------------
\* The other parts.

\* The steps that create a row, close an attempt or take one, for the cases of
\* the proofs below.
LEMMA StateSteps ==
  ASSUME TypeOK, [Next]_vars
  PROVE  \/ UNCHANGED <<jobState, jobProgress, attState, attProgress, owner>>
         \/ \E j \in Jobs, now \in BOOLEAN : CreateJob(j, now)
         \/ \E j \in Jobs : RequestCancel(j)
         \/ \E j, k \in Jobs : ManualRetry(j, k)
         \/ \E w \in Workers, j \in Jobs, n \in AttemptNumbers : ClaimNext(w, j, n)
         \/ \E j \in Jobs, n \in AttemptNumbers, p \in 0..ItemCount : UpdateProgress(j, n, p)
         \/ \E j \in Jobs, n \in AttemptNumbers, attempt \in AttemptStates, job \in JobStates :
              Closes(j, n, attempt, job)
  BY StateChanges, ClosingSteps

LEMMA OnlyOneRuns ==
  ASSUME OneExecution, NEW j \in Jobs, NEW m \in AttemptNumbers, NEW n \in AttemptNumbers,
         attState[j][m] = "running", attState[j][n] = "running"
  PROVE  m = n
<1>1. ~(m > n) /\ ~(n > m)
  BY DEF OneExecution
<1> QED BY <1>1, AttemptsAreIntegers

LEMMA AbsentNext ==
  ASSUME TypeOK, AbsentIsFresh, [Next]_vars
  PROVE  AbsentIsFresh'
<1> USE DEF TypeOK, AbsentIsFresh
<1>1. CASE UNCHANGED <<jobState, jobProgress, attState, attProgress, owner>>
  BY <1>1
<1>2. ASSUME NEW j \in Jobs, NEW now \in BOOLEAN, CreateJob(j, now) PROVE AbsentIsFresh'
  BY <1>2 DEF CreateJob, attVars
<1>3. ASSUME NEW j \in Jobs, RequestCancel(j) PROVE AbsentIsFresh'
  <2>1. \A k \in Jobs : jobState'[k] = "absent" => jobState[k] = "absent"
    BY <1>3 DEF RequestCancel
  <2> QED BY <1>3, <2>1 DEF RequestCancel, attVars
<1>4. ASSUME NEW j \in Jobs, NEW k \in Jobs, ManualRetry(j, k) PROVE AbsentIsFresh'
  BY <1>4 DEF ManualRetry, attVars
<1>5. ASSUME NEW w \in Workers, NEW j \in Jobs, NEW n \in AttemptNumbers, ClaimNext(w, j, n)
      PROVE  AbsentIsFresh'
  BY <1>5 DEF ClaimNext
<1>6. ASSUME NEW j \in Jobs, NEW n \in AttemptNumbers, NEW p \in 0..ItemCount, UpdateProgress(j, n, p)
      PROVE  AbsentIsFresh'
  BY <1>6 DEF UpdateProgress
<1>7. ASSUME NEW j \in Jobs, NEW n \in AttemptNumbers, NEW attempt \in AttemptStates,
             NEW job \in JobStates, Closes(j, n, attempt, job)
      PROVE  AbsentIsFresh'
  BY <1>7 DEF Closes
<1> QED BY <1>1, <1>2, <1>3, <1>4, <1>5, <1>6, <1>7, StateSteps

LEMMA ProgressNext ==
  ASSUME TypeOK, AbsentIsFresh, OneExecution, ProgressOfExecution, [Next]_vars
  PROVE  ProgressOfExecution'
<1> USE DEF TypeOK, ProgressOfExecution
<1>1. CASE UNCHANGED <<jobState, jobProgress, attState, attProgress, owner>>
  BY <1>1
<1>2. ASSUME NEW j \in Jobs, NEW now \in BOOLEAN, CreateJob(j, now) PROVE ProgressOfExecution'
  BY <1>2 DEF CreateJob, attVars, AbsentIsFresh
<1>3. ASSUME NEW j \in Jobs, RequestCancel(j) PROVE ProgressOfExecution'
  <2>1. \A k \in Jobs : /\ jobState'[k] \in Claimable => jobState[k] \in Claimable
                       /\ jobState'[k] = "succeeded" => jobState[k] = "succeeded"
    BY <1>3 DEF RequestCancel
  <2> QED BY <1>3, <2>1 DEF RequestCancel, attVars
<1>4. ASSUME NEW j \in Jobs, NEW k \in Jobs, ManualRetry(j, k) PROVE ProgressOfExecution'
  BY <1>4 DEF ManualRetry, attVars, AbsentIsFresh
<1>5. ASSUME NEW w \in Workers, NEW j \in Jobs, NEW n \in AttemptNumbers, ClaimNext(w, j, n)
      PROVE  ProgressOfExecution'
  <2>1. \A m \in AttemptNumbers : attState[j][m] # "running"
    <3>1. jobState[j] \notin Active
      BY <1>5 DEF ClaimNext
    <3> QED BY <3>1 DEF OneExecution
  <2>2. \A k \in Jobs : k # j => /\ jobState'[k] = jobState[k] /\ jobProgress'[k] = jobProgress[k]
                               /\ attState'[k] = attState[k] /\ attProgress'[k] = attProgress[k]
    BY <1>5 DEF ClaimNext
  <2>3. /\ jobState'[j] = "running" /\ jobProgress'[j] = 0 /\ attProgress'[j][n] = 0
        /\ \A m \in AttemptNumbers : m # n => attState'[j][m] = attState[j][m]
    BY <1>5, QueueAssumption DEF ClaimNext
  <2> SUFFICES ASSUME NEW k \in Jobs
               PROVE  /\ jobState'[k] \in Claimable => jobProgress'[k] = 0
                      /\ \A m \in AttemptNumbers : attState'[k][m] = "running" => jobProgress'[k] = attProgress'[k][m]
                      /\ jobState'[k] = "succeeded" => jobProgress'[k] = ItemCount
    OBVIOUS
  <2>4. CASE k # j
    BY <2>2, <2>4
  <2>5. CASE k = j
    BY <2>1, <2>3, <2>5
  <2> QED BY <2>4, <2>5
<1>6. ASSUME NEW j \in Jobs, NEW n \in AttemptNumbers, NEW p \in 0..ItemCount, UpdateProgress(j, n, p)
      PROVE  ProgressOfExecution'
  <2>1. \A k \in Jobs : k # j => jobProgress'[k] = jobProgress[k] /\ attProgress'[k] = attProgress[k]
    BY <1>6 DEF UpdateProgress
  <2>2. jobState[j] = "running" /\ jobProgress'[j] = p /\ attProgress'[j][n] = p
    BY <1>6 DEF UpdateProgress
  <2>3. \A m \in AttemptNumbers : attState[j][m] = "running" => m = n
    BY <1>6, OnlyOneRuns DEF UpdateProgress, Commit
  <2> QED BY <1>6, <2>1, <2>2, <2>3 DEF UpdateProgress
<1>7. ASSUME NEW j \in Jobs, NEW n \in AttemptNumbers, NEW attempt \in AttemptStates,
             NEW job \in JobStates, Closes(j, n, attempt, job)
      PROVE  ProgressOfExecution'
  <2>1. \A k \in Jobs : k # j => /\ jobState'[k] = jobState[k] /\ jobProgress'[k] = jobProgress[k]
                               /\ attState'[k] = attState[k] /\ attProgress'[k] = attProgress[k]
    BY <1>7 DEF Closes
  <2>2. /\ jobState'[j] = job
        /\ job \in Claimable => jobProgress'[j] = 0
        /\ job = "succeeded" => jobProgress'[j] = ItemCount
    BY <1>7 DEF Closes
  <2>3. \A m \in AttemptNumbers : attState'[j][m] # "running"
    BY <1>7, OnlyOneRuns DEF Closes
  <2> SUFFICES ASSUME NEW k \in Jobs
               PROVE  /\ jobState'[k] \in Claimable => jobProgress'[k] = 0
                      /\ \A m \in AttemptNumbers : attState'[k][m] = "running" => jobProgress'[k] = attProgress'[k][m]
                      /\ jobState'[k] = "succeeded" => jobProgress'[k] = ItemCount
    OBVIOUS
  <2>4. CASE k # j
    BY <2>1, <2>4
  <2>5. CASE k = j
    BY <2>2, <2>3, <2>5
  <2> QED BY <2>4, <2>5
<1> QED BY <1>1, <1>2, <1>3, <1>4, <1>5, <1>6, <1>7, StateSteps

-----------------------------------------------------------------------------
\* What has ended.

LEMMA EndedNext ==
  ASSUME TypeOK, [Next]_vars, NEW j \in Jobs
  PROVE  /\ jobState[j] \in Terminal => jobState'[j] = jobState[j] /\ jobProgress'[j] = jobProgress[j]
         /\ \A n \in AttemptNumbers : attState[j][n] \in ClosedAttempt =>
              /\ attState'[j][n] = attState[j][n]
              /\ attProgress'[j][n] = attProgress[j][n]
              /\ owner'[j][n] = owner[j][n]
<1> DEFINE Kept == /\ jobState[j] \in Terminal => jobState'[j] = jobState[j] /\ jobProgress'[j] = jobProgress[j]
                   /\ \A n \in AttemptNumbers : attState[j][n] \in ClosedAttempt =>
                        /\ attState'[j][n] = attState[j][n]
                        /\ attProgress'[j][n] = attProgress[j][n]
                        /\ owner'[j][n] = owner[j][n]
<1> USE DEF TypeOK, ClosedAttempt
<1>1. CASE UNCHANGED <<jobState, jobProgress, attState, attProgress, owner>>
  BY <1>1
<1>2. ASSUME NEW i \in Jobs, NEW now \in BOOLEAN, CreateJob(i, now) PROVE Kept
  BY <1>2 DEF CreateJob, attVars
<1>3. ASSUME NEW i \in Jobs, RequestCancel(i) PROVE Kept
  <2>1. jobState[j] \in Terminal => jobState'[j] = jobState[j]
    BY <1>3 DEF RequestCancel
  <2> QED BY <1>3, <2>1 DEF RequestCancel, attVars
<1>4. ASSUME NEW i \in Jobs, NEW k \in Jobs, ManualRetry(i, k) PROVE Kept
  BY <1>4 DEF ManualRetry, attVars
<1>5. ASSUME NEW w \in Workers, NEW i \in Jobs, NEW m \in AttemptNumbers, ClaimNext(w, i, m) PROVE Kept
  <2>1. attState[i][m] = "none"
    <3>1. attState[i][m] # "none" => m < m
      BY <1>5 DEF ClaimNext, IsNextAttempt
    <3> QED BY <3>1, AttemptsAreIntegers
  <2> QED BY <1>5, <2>1 DEF ClaimNext
<1>6. ASSUME NEW i \in Jobs, NEW m \in AttemptNumbers, NEW p \in 0..ItemCount, UpdateProgress(i, m, p)
      PROVE  Kept
  BY <1>6 DEF UpdateProgress, Commit
<1>7. ASSUME NEW i \in Jobs, NEW m \in AttemptNumbers, NEW attempt \in AttemptStates,
             NEW job \in JobStates, Closes(i, m, attempt, job)
      PROVE  Kept
  BY <1>7 DEF Closes
<1> QED BY <1>1, <1>2, <1>3, <1>4, <1>5, <1>6, <1>7, StateSteps

LEMMA CancellationNext ==
  ASSUME TypeOK, [Next]_vars, NEW j \in Jobs, jobState[j] = "cancel_requested"
  PROVE  /\ jobState'[j] \in {"cancel_requested", "cancelled"}
         /\ jobProgress'[j] = jobProgress[j]
<1> DEFINE Kept == jobState'[j] \in {"cancel_requested", "cancelled"} /\ jobProgress'[j] = jobProgress[j]
<1> USE DEF TypeOK
<1>1. CASE UNCHANGED <<jobState, jobProgress, attState, attProgress, owner>>
  BY <1>1
<1>2. ASSUME NEW i \in Jobs, NEW now \in BOOLEAN, CreateJob(i, now) PROVE Kept
  BY <1>2 DEF CreateJob
<1>3. ASSUME NEW i \in Jobs, RequestCancel(i) PROVE Kept
  <2>1. jobState'[j] = jobState[j]
    BY <1>3 DEF RequestCancel
  <2> QED BY <1>3, <2>1 DEF RequestCancel
<1>4. ASSUME NEW i \in Jobs, NEW k \in Jobs, ManualRetry(i, k) PROVE Kept
  BY <1>4 DEF ManualRetry
<1>5. ASSUME NEW w \in Workers, NEW i \in Jobs, NEW m \in AttemptNumbers, ClaimNext(w, i, m) PROVE Kept
  BY <1>5 DEF ClaimNext
<1>6. ASSUME NEW i \in Jobs, NEW m \in AttemptNumbers, NEW p \in 0..ItemCount, UpdateProgress(i, m, p)
      PROVE  Kept
  BY <1>6 DEF UpdateProgress
<1>7. ASSUME NEW i \in Jobs, NEW m \in AttemptNumbers, NEW attempt \in AttemptStates,
             NEW job \in JobStates, Closes(i, m, attempt, job)
      PROVE  Kept
  BY <1>7 DEF Closes
<1> QED BY <1>1, <1>2, <1>3, <1>4, <1>5, <1>6, <1>7, StateSteps

\* The only two statements that write or remove output rows.
LEMMA OutputSteps ==
  ASSUME [Next]_vars
  PROVE  \/ UNCHANGED <<outputs, expired>>
         \/ \E j \in Jobs, n \in AttemptNumbers : CompleteImageJob(j, n)
         \/ \E old \in SUBSET Jobs : ExpireOutputArtifacts(old)
<1>1. CASE ClientStep
  BY <1>1 DEF ClientStep, CreateJob, RequestCancel, ManualRetry
<1>2. CASE WorkerStep
  BY <1>2 DEF WorkerStep, RegisterWorker, HeartbeatWorker, StopWorker, AbortClaim, LockCandidate,
              ClaimNext, jobVars
<1>3. CASE HolderStep
  BY <1>3 DEF HolderStep, Rollback, RenewLease, AwaitRowLock, RenewAfterWait, AbandonRenewal, OpenWrite, UpdateProgress, Complete, Succeed,
              RecordFailure, FinishCancelled, jobVars
<1>4. CASE RecoveryStep
  BY <1>4 DEF RecoveryStep, ReclaimNextExpiredAttempt
<1>5. CASE TimeStep
  BY <1>5 DEF TimeStep, LeaseTick, HeartbeatLapses, JobDue, jobVars
<1>6. CASE UNCHANGED vars
  BY <1>6 DEF vars, jobVars
<1> QED BY <1>1, <1>2, <1>3, <1>4, <1>5, <1>6 DEF Next

\* Every action leaves what has ended as it is: terminal jobs and closed attempts
\* are never written again, whoever is late.
THEOREM EndedStays == Spec => EndedStaysEnded
<1>1. TypeOK /\ [Next]_vars =>
        [\A j \in Jobs :
           /\ jobState[j] \in Terminal => jobState'[j] = jobState[j] /\ jobProgress'[j] = jobProgress[j]
           /\ \A n \in AttemptNumbers : attState[j][n] \in ClosedAttempt =>
                /\ attState'[j][n] = attState[j][n]
                /\ attProgress'[j][n] = attProgress[j][n]
                /\ owner'[j][n] = owner[j][n]]_vars
  BY EndedNext
<1> QED BY <1>1, TypeCorrect, PTL DEF Spec, EndedStaysEnded

\* A recorded cancellation is final: nothing but "cancelled" follows it, and
\* neither progress nor output rows are written in between.
THEOREM CancellationIsFinal == Spec => CancellationWins
<1>1. ASSUME TypeOK, [Next]_vars, NEW j \in Jobs, jobState[j] = "cancel_requested"
      PROVE  outputs'[j] = outputs[j]
  <2>1. ASSUME NEW i \in Jobs, NEW n \in AttemptNumbers, CompleteImageJob(i, n)
        PROVE  outputs'[j] = outputs[j]
    BY <1>1, <2>1 DEF CompleteImageJob, Succeed, TypeOK
  <2>2. ASSUME NEW old \in SUBSET Jobs, ExpireOutputArtifacts(old)
        PROVE  outputs'[j] = outputs[j]
    BY <1>1, <2>2 DEF ExpireOutputArtifacts, TypeOK
  <2> QED BY <1>1, <2>1, <2>2, OutputSteps
<1>2. TypeOK /\ [Next]_vars =>
        [\A j \in Jobs : jobState[j] = "cancel_requested" =>
           /\ jobState'[j] \in {"cancel_requested", "cancelled"}
           /\ outputs'[j] = outputs[j]
           /\ jobProgress'[j] = jobProgress[j]]_vars
  BY <1>1, CancellationNext
<1> QED BY <1>2, TypeCorrect, PTL DEF Spec, CancellationWins

-----------------------------------------------------------------------------
\* The manifest, the locks and the retries, and the invariant as a whole.

\* A job becomes succeeded by Complete or by a publication only.
LEMMA SuccessSteps ==
  ASSUME TypeOK, [Next]_vars, NEW j \in Jobs, jobState'[j] = "succeeded", jobState[j] # "succeeded"
  PROVE  \E n \in AttemptNumbers : Complete(j, n) \/ CompleteImageJob(j, n)
<1> USE DEF TypeOK
<1>1. ASSUME NEW i \in Jobs, NEW n \in AttemptNumbers, NEW again \in BOOLEAN, CloseFailed(i, n, again)
      PROVE  FALSE
  BY <1>1 DEF CloseFailed
<1>2. ASSUME NEW i \in Jobs, NEW n \in AttemptNumbers, CloseCancelled(i, n)
      PROVE  FALSE
  BY <1>2 DEF CloseCancelled
<1>3. ASSUME NEW i \in Jobs, NEW n \in AttemptNumbers, NEW transient \in BOOLEAN, RecordFailure(i, n, transient)
      PROVE  FALSE
  <2> DEFINE again == transient /\ n < MaxAttempts
  <2>1. again \in BOOLEAN /\ CloseFailed(i, n, again)
    BY <1>3 DEF RecordFailure
  <2> HIDE DEF again
  <2> QED BY <1>1, <2>1
<1>4. ASSUME NEW i \in Jobs, NEW n \in AttemptNumbers, ReclaimNextExpiredAttempt(i, n)
      PROVE  FALSE
  <2> DEFINE again == n < MaxAttempts
  <2>1. again \in BOOLEAN
    BY AttemptsAreIntegers
  <2>2. CloseCancelled(i, n) \/ CloseFailed(i, n, again)
    BY <1>4 DEF ReclaimNextExpiredAttempt
  <2> HIDE DEF again
  <2> QED BY <1>1, <1>2, <2>1, <2>2
<1>5. ASSUME NEW i \in Jobs, NEW n \in AttemptNumbers, FinishCancelled(i, n)
      PROVE  FALSE
  BY <1>2, <1>5 DEF FinishCancelled
<1>6. ASSUME NEW i \in Jobs, RequestCancel(i)
      PROVE  FALSE
  BY <1>6 DEF RequestCancel
<1>7. ASSUME NEW i \in Jobs, NEW n \in AttemptNumbers, Complete(i, n) \/ CompleteImageJob(i, n)
      PROVE  i = j
  BY <1>7 DEF Complete, CompleteImageJob, Succeed
<1> QED BY <1>3, <1>4, <1>5, <1>6, <1>7, StateChanges
        DEF CreateJob, ManualRetry, ClaimNext, UpdateProgress

LEMMA ManifestNext ==
  ASSUME TypeOK, ManifestIntegrity, LocksGuardRows, [Next]_vars
  PROVE  ManifestIntegrity'
<1> USE DEF TypeOK
<1> SUFFICES ASSUME NEW j \in Jobs
             PROVE  /\ outputs'[j] # {} =>
                         /\ jobState'[j] = "succeeded"
                         /\ \E n \in AttemptNumbers :
                              attState'[j][n] = "succeeded" /\ outputs'[j] = {n} \X Items
                    /\ j \in ImageJobs /\ jobState'[j] = "succeeded" /\ ~expired'[j] => outputs'[j] # {}
  BY DEF ManifestIntegrity, Items
<1>1. /\ jobState[j] = "succeeded" => jobState'[j] = "succeeded"
      /\ \A n \in AttemptNumbers : attState[j][n] = "succeeded" => attState'[j][n] = "succeeded"
  BY EndedNext DEF ClosedAttempt
<1>2. /\ outputs[j] # {} =>
           /\ jobState[j] = "succeeded"
           /\ \E n \in AttemptNumbers : attState[j][n] = "succeeded" /\ outputs[j] = {n} \X Items
      /\ j \in ImageJobs /\ jobState[j] = "succeeded" /\ ~expired[j] => outputs[j] # {}
  BY DEF ManifestIntegrity
<1>3. \/ outputs'[j] = outputs[j] /\ expired'[j] = expired[j]
      \/ outputs'[j] = {} /\ expired'[j]
      \/ \E n \in AttemptNumbers : CompleteImageJob(j, n)
  <2>1. ASSUME NEW old \in SUBSET Jobs, ExpireOutputArtifacts(old)
        PROVE  \/ outputs'[j] = outputs[j] /\ expired'[j] = expired[j]
               \/ outputs'[j] = {} /\ expired'[j]
    BY <2>1 DEF ExpireOutputArtifacts
  <2>2. ASSUME NEW i \in Jobs, NEW n \in AttemptNumbers, CompleteImageJob(i, n), i # j
        PROVE  outputs'[j] = outputs[j] /\ expired'[j] = expired[j]
    BY <2>2 DEF CompleteImageJob, Succeed
  <2> QED BY <2>1, <2>2, OutputSteps
<1>4. CASE outputs'[j] = {} /\ expired'[j]
  BY <1>4
<1>5. ASSUME NEW n \in AttemptNumbers, CompleteImageJob(j, n)
      PROVE  jobState'[j] = "succeeded" /\ attState'[j][n] = "succeeded" /\ outputs'[j] = {n} \X Items
             /\ outputs'[j] # {}
  <2>1. jobState[j] = "running"
    BY <1>5 DEF CompleteImageJob, Succeed
  <2>2. outputs[j] = {}
    BY <1>2, <2>1
  <2>3. outputs'[j] = {n} \X Items
    BY <1>5, <2>2 DEF CompleteImageJob
  <2>4. <<n, 1>> \in {n} \X Items
    BY QueueAssumption DEF Items
  <2> QED BY <1>5, <2>3, <2>4 DEF CompleteImageJob, Succeed
<1>6. CASE outputs'[j] = outputs[j] /\ expired'[j] = expired[j]
  <2>1. CASE jobState[j] = "succeeded" \/ jobState'[j] # "succeeded"
    BY <1>1, <1>2, <1>6, <2>1
  <2>2. CASE jobState[j] # "succeeded" /\ jobState'[j] = "succeeded"
    <3>1. PICK n \in AttemptNumbers : Complete(j, n) \/ CompleteImageJob(j, n)
      BY <2>2, SuccessSteps
    <3>2. CASE Complete(j, n)
      <4>1. tx[j] = "complete"
        BY <3>2 DEF Complete, Commit
      <4>2. j \notin ImageJobs
        BY <4>1 DEF LocksGuardRows
      <4> QED BY <1>2, <1>6, <2>2, <4>2
    <3>3. CASE CompleteImageJob(j, n)
      BY <1>5, <3>3
    <3> QED BY <3>1, <3>2, <3>3
  <2> QED BY <2>1, <2>2
<1> QED BY <1>3, <1>4, <1>5, <1>6

LEMMA RetryNext ==
  ASSUME TypeOK, RetryKeepsSource, [Next]_vars
  PROVE  RetryKeepsSource'
<1> USE DEF TypeOK
<1>1. \/ UNCHANGED retryOf
      \/ \E i, k \in Jobs : ManualRetry(i, k)
  <2>1. CASE ClientStep
    BY <2>1 DEF ClientStep, CreateJob, RequestCancel
  <2>2. CASE WorkerStep
    BY <2>2 DEF WorkerStep, RegisterWorker, HeartbeatWorker, StopWorker, AbortClaim, LockCandidate,
                ClaimNext, jobVars
  <2>3. CASE HolderStep
    BY <2>3 DEF HolderStep, Rollback, RenewLease, AwaitRowLock, RenewAfterWait, AbandonRenewal, OpenWrite, UpdateProgress, Complete, CompleteImageJob,
                Succeed, RecordFailure, FinishCancelled, jobVars
  <2>4. CASE RecoveryStep
    BY <2>4 DEF RecoveryStep, ReclaimNextExpiredAttempt, ExpireOutputArtifacts
  <2>5. CASE TimeStep
    BY <2>5 DEF TimeStep, LeaseTick, HeartbeatLapses, JobDue, jobVars
  <2>6. CASE UNCHANGED vars
    BY <2>6 DEF vars, jobVars
  <2> QED BY <2>1, <2>2, <2>3, <2>4, <2>5, <2>6 DEF Next
<1>2. \A j \in Jobs : jobState[j] \in {"failed", "cancelled"} => jobState'[j] = jobState[j]
  BY EndedNext
<1>3. \A j \in Jobs : jobState[j] # "absent" => jobState'[j] # "absent"
  <2> SUFFICES ASSUME NEW j \in Jobs, jobState[j] # "absent" PROVE jobState'[j] # "absent"
    OBVIOUS
  <2>1. ASSUME NEW i \in Jobs, RequestCancel(i) PROVE jobState'[j] # "absent"
    BY <2>1 DEF RequestCancel
  <2>2. ASSUME NEW i \in Jobs, NEW m \in AttemptNumbers, NEW attempt \in AttemptStates,
               NEW job \in JobStates, Closes(i, m, attempt, job)
        PROVE  jobState'[j] # "absent"
    BY <2>2 DEF Closes
  <2> QED BY <2>1, <2>2, StateSteps DEF CreateJob, ManualRetry, ClaimNext, UpdateProgress
<1>4. CASE UNCHANGED retryOf
  BY <1>2, <1>3, <1>4, QueueAssumption DEF RetryKeepsSource
<1>5. ASSUME NEW i \in Jobs, NEW k \in Jobs, ManualRetry(i, k) PROVE RetryKeepsSource'
  <2>1. jobState'[i] \in {"failed", "cancelled"} /\ jobState'[k] # "absent"
    BY <1>2, <1>5 DEF ManualRetry
  <2>2. retryOf'[k] = i /\ \A x \in Jobs : x # k => retryOf'[x] = retryOf[x]
    BY <1>5 DEF ManualRetry
  <2> SUFFICES ASSUME NEW x \in Jobs, retryOf'[x] # NoJob
               PROVE  jobState'[retryOf'[x]] \in {"failed", "cancelled"} /\ jobState'[x] # "absent"
    BY DEF RetryKeepsSource
  <2>3. CASE x = k
    BY <2>1, <2>2, <2>3
  <2>4. CASE x # k
    <3>1. /\ retryOf'[x] = retryOf[x] /\ retryOf[x] \in Jobs
          /\ jobState[retryOf[x]] \in {"failed", "cancelled"} /\ jobState[x] # "absent"
      BY <2>2, <2>4 DEF RetryKeepsSource
    <3> QED BY <1>2, <1>3, <3>1
  <2> QED BY <2>3, <2>4
<1> QED BY <1>1, <1>4, <1>5

\* A claim's row lock keeps every other client of the queue away from the row.
LEMMA ClaimLocksNext ==
  ASSUME TypeOK, LocksGuardRows, [Next]_vars, NEW w \in Workers, claiming'[w] # NoJob
  PROVE  /\ jobState'[claiming'[w]] \in Claimable
         /\ \A v \in Workers : claiming'[v] = claiming'[w] => v = w
<1> USE DEF TypeOK
<1>1. \A v \in Workers : claiming[v] # NoJob =>
        /\ claiming[v] \in Jobs
        /\ jobState[claiming[v]] \in Claimable
        /\ \A u \in Workers : claiming[u] = claiming[v] => u = v
  BY DEF LocksGuardRows
<1>2. \/ UNCHANGED claiming /\ ~\E v \in Workers, j \in Jobs, n \in AttemptNumbers : ClaimNext(v, j, n)
      \/ \E v \in Workers : AbortClaim(v)
      \/ \E v \in Workers, j \in Jobs : LockCandidate(v, j)
      \/ \E v \in Workers, j \in Jobs, n \in AttemptNumbers : ClaimNext(v, j, n)
  <2>1. CASE ClientStep
    BY <2>1 DEF ClientStep, CreateJob, RequestCancel, ManualRetry
  <2>2. CASE WorkerStep
    BY <2>2 DEF WorkerStep, RegisterWorker, HeartbeatWorker, StopWorker
  <2>3. CASE HolderStep
    BY <2>3 DEF HolderStep, Rollback, RenewLease, AwaitRowLock, RenewAfterWait, AbandonRenewal, OpenWrite, UpdateProgress, Complete, CompleteImageJob,
                Succeed, RecordFailure, FinishCancelled
  <2>4. CASE RecoveryStep
    BY <2>4 DEF RecoveryStep, ReclaimNextExpiredAttempt, ExpireOutputArtifacts
  <2>5. CASE TimeStep
    BY <2>5 DEF TimeStep, LeaseTick, HeartbeatLapses, JobDue
  <2>6. CASE UNCHANGED vars
    BY <2>6 DEF vars
  <2> QED BY <2>1, <2>2, <2>3, <2>4, <2>5, <2>6 DEF Next
<1>3. ASSUME NEW j \in Jobs, jobState[j] \in Claimable, LockedByClaim(j),
             ~\E v \in Workers, n \in AttemptNumbers : ClaimNext(v, j, n)
      PROVE  jobState'[j] = jobState[j]
  <2>1. ASSUME NEW i \in Jobs, RequestCancel(i) PROVE jobState'[j] = jobState[j]
    BY <1>3, <2>1 DEF RequestCancel
  <2>2. ASSUME NEW i \in Jobs, NEW m \in AttemptNumbers, NEW attempt \in AttemptStates,
               NEW job \in JobStates, Closes(i, m, attempt, job)
        PROVE  jobState'[j] = jobState[j]
    BY <1>3, <2>2 DEF Closes
  <2>3. ASSUME NEW v \in Workers, NEW i \in Jobs, NEW n \in AttemptNumbers, ClaimNext(v, i, n)
        PROVE  jobState'[j] = jobState[j]
    <3>1. i # j
      BY <1>3, <2>3
    <3> QED BY <2>3, <3>1 DEF ClaimNext
  <2>4. ASSUME NEW i \in Jobs, NEW now \in BOOLEAN, CreateJob(i, now)
        PROVE  jobState'[j] = jobState[j]
    BY <1>3, <2>4 DEF CreateJob
  <2>5. ASSUME NEW i \in Jobs, NEW k \in Jobs, ManualRetry(i, k)
        PROVE  jobState'[j] = jobState[j]
    BY <1>3, <2>5 DEF ManualRetry
  <2> QED BY <2>1, <2>2, <2>3, <2>4, <2>5, StateSteps DEF UpdateProgress
<1>4. CASE UNCHANGED claiming /\ ~\E v \in Workers, j \in Jobs, n \in AttemptNumbers : ClaimNext(v, j, n)
  BY <1>1, <1>3, <1>4 DEF LockedByClaim
<1>5. ASSUME NEW v \in Workers, AbortClaim(v)
      PROVE  /\ jobState'[claiming'[w]] \in Claimable
             /\ \A u \in Workers : claiming'[u] = claiming'[w] => u = w
  BY <1>1, <1>5 DEF AbortClaim, jobVars
<1>6. ASSUME NEW v \in Workers, NEW j \in Jobs, LockCandidate(v, j)
      PROVE  /\ jobState'[claiming'[w]] \in Claimable
             /\ \A u \in Workers : claiming'[u] = claiming'[w] => u = w
  <2>1. /\ jobState' = jobState /\ jobState[j] \in Claimable /\ \A u \in Workers : claiming[u] # j
        /\ claiming'[v] = j /\ \A u \in Workers : u # v => claiming'[u] = claiming[u]
    BY <1>6 DEF LockCandidate, Candidate, LockedByClaim, jobVars
  <2> QED BY <1>1, <2>1
<1>7. ASSUME NEW v \in Workers, NEW j \in Jobs, NEW n \in AttemptNumbers, ClaimNext(v, j, n)
      PROVE  /\ jobState'[claiming'[w]] \in Claimable
             /\ \A u \in Workers : claiming'[u] = claiming'[w] => u = w
  <2>1. claiming'[v] = NoJob /\ \A u \in Workers : u # v => claiming'[u] = claiming[u]
    BY <1>7 DEF ClaimNext
  <2>2. claiming[v] = j /\ \A k \in Jobs : k # j => jobState'[k] = jobState[k]
    BY <1>7 DEF ClaimNext
  <2>3. claiming[v] # NoJob
    <3>1. j # NoJob
      BY QueueAssumption
    <3> QED BY <2>2, <3>1
  <2>4. w # v /\ claiming'[w] = claiming[w] /\ claiming[w] # NoJob
    BY <2>1
  <2>5. claiming[w] \in Jobs /\ claiming[w] # j /\ jobState[claiming[w]] \in Claimable
    BY <1>1, <2>2, <2>3, <2>4
  <2>6. jobState'[claiming'[w]] \in Claimable
    BY <2>2, <2>4, <2>5
  <2>7. ASSUME NEW u \in Workers, claiming'[u] = claiming'[w] PROVE u = w
    <3>1. u # v
      BY <2>1, <2>4, <2>7
    <3>2. claiming[u] = claiming[w]
      BY <2>1, <2>4, <2>7, <3>1
    <3> QED BY <1>1, <2>4, <3>2
  <2> QED BY <2>6, <2>7
<1> QED BY <1>2, <1>4, <1>5, <1>6, <1>7

\* A fenced write's row lock keeps the attempt running until its commit.
LEMMA WriteLocksNext ==
  ASSUME TypeOK, LocksGuardRows, [Next]_vars, NEW j \in Jobs, tx'[j] # "none"
  PROVE  /\ \E n \in AttemptNumbers : attState'[j][n] = "running"
         /\ tx'[j] = "complete" => j \notin ImageJobs
<1> USE DEF TypeOK
<1> DEFINE Held == tx'[j] = tx[j] /\ \A m \in AttemptNumbers :
                     attState[j][m] = "running" => attState'[j][m] = "running"
<1>1. CASE ClientStep
  <2>1. Held
    BY <1>1 DEF ClientStep, CreateJob, RequestCancel, ManualRetry, attVars
  <2> QED BY <2>1 DEF LocksGuardRows
<1>2. CASE WorkerStep
  <2>1. ASSUME NEW w \in Workers, NEW i \in Jobs, NEW n \in AttemptNumbers, ClaimNext(w, i, n)
        PROVE  Held
    BY <2>1 DEF ClaimNext
  <2>2. Held
    BY <1>2, <2>1 DEF WorkerStep, RegisterWorker, HeartbeatWorker, StopWorker, AbortClaim,
                      LockCandidate, attVars
  <2> QED BY <2>2 DEF LocksGuardRows
<1>3. CASE HolderStep
  <2>1. ASSUME NEW i \in Jobs, NEW n \in AttemptNumbers, NEW op \in FencedWrites, OpenWrite(i, n, op), i = j
        PROVE  /\ \E m \in AttemptNumbers : attState'[j][m] = "running"
               /\ tx'[j] = "complete" => j \notin ImageJobs
    BY <2>1 DEF OpenWrite, Owns, attVars
  <2>2. ASSUME NEW i \in Jobs, NEW n \in AttemptNumbers, NEW op \in FencedWrites, OpenWrite(i, n, op), i # j
        PROVE  Held
    BY <2>2 DEF OpenWrite, attVars
  <2>3. ASSUME NEW i \in Jobs, Rollback(i) PROVE Held
    BY <2>3 DEF Rollback, attVars
  <2>4. ASSUME NEW i \in Jobs, NEW n \in AttemptNumbers, NEW op \in FencedWrites, Commit(i, n, op),
               NEW attempt \in AttemptStates, attState' = [attState EXCEPT ![i][n] = attempt]
        PROVE  Held
    BY <2>4 DEF Commit
  <2>5. ASSUME NEW i \in Jobs, NEW n \in AttemptNumbers,
               RenewLease(i, n) \/ AwaitRowLock(i, n) \/ RenewAfterWait(i, n) \/ AbandonRenewal(i, n)
        PROVE  Held
    BY <2>5 DEF RenewLease, AwaitRowLock, RenewAfterWait, AbandonRenewal
  <2>6. ASSUME NEW i \in Jobs, NEW n \in AttemptNumbers, NEW p \in 0..ItemCount, UpdateProgress(i, n, p)
        PROVE  Held
    BY <2>6 DEF UpdateProgress, Commit
  <2>7. ASSUME NEW i \in Jobs, NEW n \in AttemptNumbers,
               \/ Complete(i, n)
               \/ CompleteImageJob(i, n)
               \/ \E transient \in BOOLEAN : RecordFailure(i, n, transient)
               \/ FinishCancelled(i, n)
        PROVE  Held
    BY <2>4, <2>7 DEF Complete, CompleteImageJob, Succeed, RecordFailure, FinishCancelled, CloseFailed,
                      CloseCancelled
  <2>8. Held \/ \E n \in AttemptNumbers, op \in FencedWrites : OpenWrite(j, n, op)
    BY <1>3, <2>2, <2>3, <2>5, <2>6, <2>7 DEF HolderStep
  <2> QED BY <2>1, <2>8 DEF LocksGuardRows
<1>4. CASE RecoveryStep
  <2>1. ASSUME NEW i \in Jobs, NEW n \in AttemptNumbers, ReclaimNextExpiredAttempt(i, n) PROVE Held
    <3>1. i # j
      BY <2>1 DEF ReclaimNextExpiredAttempt
    <3>2. attState' = [attState EXCEPT ![i][n] = "cancelled"] \/ attState' = [attState EXCEPT ![i][n] = "failed"]
      BY <2>1 DEF ReclaimNextExpiredAttempt, CloseFailed, CloseCancelled
    <3> QED BY <2>1, <3>1, <3>2 DEF ReclaimNextExpiredAttempt
  <2>2. Held
    BY <1>4, <2>1 DEF RecoveryStep, ExpireOutputArtifacts, attVars
  <2> QED BY <2>2 DEF LocksGuardRows
<1>5. CASE TimeStep
  <2>1. Held
    BY <1>5 DEF TimeStep, LeaseTick, HeartbeatLapses, JobDue, attVars
  <2> QED BY <2>1 DEF LocksGuardRows
<1>6. CASE UNCHANGED vars
  <2>1. Held
    BY <1>6 DEF vars, attVars
  <2> QED BY <2>1 DEF LocksGuardRows
<1> QED BY <1>1, <1>2, <1>3, <1>4, <1>5, <1>6 DEF Next

LEMMA InvariantInit == Init => QueueInvariant
<1> SUFFICES ASSUME Init PROVE QueueInvariant
  OBVIOUS
<1>1. TypeOK
  BY TypeInit
<1>2. AbsentIsFresh /\ AttemptHistory /\ AttemptLeft /\ ManifestIntegrity /\ RetryKeepsSource
  BY AttemptsAreIntegers DEF Init, AbsentIsFresh, AttemptHistory, AttemptLeft, ManifestIntegrity, RetryKeepsSource
<1>3. OneExecution /\ ProgressOfExecution /\ LocksGuardRows
  BY DEF Init, OneExecution, ProgressOfExecution, LocksGuardRows
<1> QED BY <1>1, <1>2, <1>3 DEF QueueInvariant

\* Every step keeps the invariant.
LEMMA InvariantNext == QueueInvariant /\ [Next]_vars => QueueInvariant'
<1> SUFFICES ASSUME QueueInvariant, [Next]_vars PROVE QueueInvariant'
  OBVIOUS
<1> USE DEF QueueInvariant
<1>1. TypeOK'
  BY TypeNext
<1>2. AbsentIsFresh'
  BY AbsentNext
<1>3. OneExecution' /\ AttemptHistory' /\ AttemptLeft'
  BY HistoryNext
<1>4. ManifestIntegrity'
  BY ManifestNext
<1>5. ProgressOfExecution'
  BY ProgressNext
<1>6. LocksGuardRows'
  BY ClaimLocksNext, WriteLocksNext DEF LocksGuardRows
<1>7. RetryKeepsSource'
  BY RetryNext
<1> QED BY <1>1, <1>2, <1>3, <1>4, <1>5, <1>6, <1>7

\* The whole invariant of the queue holds in every reachable state: one
\* execution, a history without gaps, an attempt left for every claim, complete
\* manifests, honest progress, retries that leave their source alone.
THEOREM InvariantCorrect == Spec => []QueueInvariant
  BY InvariantInit, InvariantNext, PTL DEF Spec

-----------------------------------------------------------------------------
(***************************************************************************)
(* The same, property by property.                                         *)
(***************************************************************************)

\* A job is running exactly when one of its attempts is, the last one, and that
\* attempt has an owner: claims, renewals, recoveries and late writes of any number of
\* workers never leave a second execution or one without an owner.
THEOREM ExecutionUnique == Spec => []OneExecution
<1>1. QueueInvariant => OneExecution
  BY DEF QueueInvariant
<1> QED BY <1>1, InvariantCorrect, PTL

\* Attempts are numbered without gaps, every one but the last failed, and the last
\* one ended as its job did.
THEOREM HistoryGapless == Spec => []AttemptHistory
<1>1. QueueInvariant => AttemptHistory
  BY DEF QueueInvariant
<1> QED BY <1>1, InvariantCorrect, PTL

\* The "no remaining attempts" error of a claim cannot occur, whatever the limit.
THEOREM ClaimsHaveAnAttempt == Spec => []AttemptLeft
<1>1. QueueInvariant => AttemptLeft
  BY DEF QueueInvariant
<1> QED BY <1>1, InvariantCorrect, PTL

\* The manifest of a job is published and removed whole, and stems from the one
\* attempt that succeeded.
THEOREM ManifestWhole == Spec => []ManifestIntegrity
<1>1. QueueInvariant => ManifestIntegrity
  BY DEF QueueInvariant
<1> QED BY <1>1, InvariantCorrect, PTL

\* The progress of a job is that of the attempt that is running.
THEOREM ProgressCurrent == Spec => []ProgressOfExecution
<1>1. QueueInvariant => ProgressOfExecution
  BY DEF QueueInvariant
<1> QED BY <1>1, InvariantCorrect, PTL

\* What a claim or a fenced write saw when it took its row lock still holds when it
\* commits.
THEOREM LocksOnLiveRows == Spec => []LocksGuardRows
<1>1. QueueInvariant => LocksGuardRows
  BY DEF QueueInvariant
<1> QED BY <1>1, InvariantCorrect, PTL

\* The job a manual retry was made from stays failed or cancelled.
THEOREM RetryBesideSource == Spec => []RetryKeepsSource
<1>1. QueueInvariant => RetryKeepsSource
  BY DEF QueueInvariant
<1> QED BY <1>1, InvariantCorrect, PTL

-----------------------------------------------------------------------------
(***************************************************************************)
(* The queue implements JobLifecycle: every transaction of the API and of  *)
(* the workers is one move of the lifecycle promised to the owner of a     *)
(* job, or invisible to them.                                              *)
(*                                                                         *)
(* The refinement mapping forgets who works on a job and keeps which       *)
(* attempts there were and whether the manifest is there.                  *)
(***************************************************************************)
\* Only an image job is ever published: complete_image_job checks the job's type in
\* the statement that takes its locks.
PublishesImages == \A j \in Jobs : tx[j] = "publish" => j \in ImageJobs

-----------------------------------------------------------------------------
\* The type of a job does not change, so that it is still the one complete_image_job
\* looked at when it commits.
LEMMA PublishesImagesNext == TypeOK /\ PublishesImages /\ [Next]_vars => PublishesImages'
<1> SUFFICES ASSUME TypeOK, PublishesImages, [Next]_vars, NEW j \in Jobs, tx'[j] = "publish"
             PROVE  j \in ImageJobs
  BY DEF PublishesImages
<1> USE DEF TypeOK
<1>1. ASSUME tx'[j] = tx[j] PROVE j \in ImageJobs
  BY <1>1 DEF PublishesImages
<1>2. ASSUME NEW i \in Jobs, NEW n \in AttemptNumbers, NEW op \in FencedWrites, OpenWrite(i, n, op)
      PROVE  j \in ImageJobs
  <2>1. CASE i = j
    BY <1>2, <2>1 DEF OpenWrite
  <2>2. CASE i # j
    BY <1>1, <1>2, <2>2 DEF OpenWrite
  <2> QED BY <2>1, <2>2
<1>3. ASSUME NEW i \in Jobs, tx' = [tx EXCEPT ![i] = "none"] PROVE j \in ImageJobs
  BY <1>1, <1>3
<1>4. \/ UNCHANGED tx
      \/ \E i \in Jobs : tx' = [tx EXCEPT ![i] = "none"]
      \/ \E i \in Jobs, n \in AttemptNumbers, op \in FencedWrites : OpenWrite(i, n, op)
  <2>1. CASE ClientStep
    BY <2>1 DEF ClientStep, CreateJob, RequestCancel, ManualRetry
  <2>2. CASE WorkerStep
    BY <2>2 DEF WorkerStep, RegisterWorker, HeartbeatWorker, StopWorker, AbortClaim, LockCandidate, ClaimNext
  <2>3. CASE HolderStep
    BY <2>3 DEF HolderStep, Rollback, RenewLease, AwaitRowLock, RenewAfterWait, AbandonRenewal,
                UpdateProgress, Complete, CompleteImageJob, RecordFailure, FinishCancelled, Commit
  <2>4. CASE RecoveryStep
    BY <2>4 DEF RecoveryStep, ReclaimNextExpiredAttempt, ExpireOutputArtifacts
  <2>5. CASE TimeStep
    BY <2>5 DEF TimeStep, LeaseTick, HeartbeatLapses, JobDue
  <2>6. CASE UNCHANGED vars
    BY <2>6 DEF vars
  <2> QED BY <2>1, <2>2, <2>3, <2>4, <2>5, <2>6 DEF Next
<1> QED BY <1>1, <1>2, <1>3, <1>4

\* In every reachable state an open publication belongs to an image job.
LEMMA PublishesImagesCorrect == Spec => []PublishesImages
<1>1. Init => PublishesImages
  BY DEF Init, PublishesImages
<1> QED BY <1>1, PublishesImagesNext, TypeCorrect, PTL DEF Spec

-----------------------------------------------------------------------------
(***************************************************************************)
(* The refinement mapping.                                                 *)
(***************************************************************************)

\* A manifest is never seen in part.
LEMMA ManifestShape ==
  ASSUME ManifestIntegrity, NEW j \in Jobs
  PROVE  Manifest(j) = IF outputs[j] # {} THEN "complete" ELSE IF expired[j] THEN "expired" ELSE "none"
  BY DEF Manifest, ManifestIntegrity

\* Not after a step either.
LEMMA ManifestShapeAfter ==
  ASSUME ManifestIntegrity', NEW j \in Jobs
  PROVE  Manifest(j)' = IF outputs'[j] # {} THEN "complete" ELSE IF expired'[j] THEN "expired" ELSE "none"
  BY DEF Manifest, ManifestIntegrity

\* The manifests of a step that touches neither rows nor the expiry mark stay.
LEMMA ManifestsStay ==
  ASSUME ManifestIntegrity, ManifestIntegrity', UNCHANGED <<outputs, expired>>
  PROVE  Manifests' = Manifests
<1>1. \A j \in Jobs : Manifest(j)' = Manifest(j)
  BY ManifestShape, ManifestShapeAfter
<1> QED BY <1>1 DEF Manifests

\* A step that only changes attempts there are leaves their numbers.
LEMMA TriedStays ==
  ASSUME TypeOK, NEW j \in Jobs, NEW n \in AttemptNumbers, NEW new \in ClosedAttempt,
         attState[j][n] = "running",
         attState' = [attState EXCEPT ![j][n] = new]
  PROVE  Tried' = Tried
<1>1. \A i \in Jobs, m \in AttemptNumbers : attState'[i][m] # "none" <=> attState[i][m] # "none"
  BY DEF TypeOK, ClosedAttempt
<1>2. \A i \in Jobs : {m \in AttemptNumbers : attState'[i][m] # "none"} = {m \in AttemptNumbers : attState[i][m] # "none"}
  BY <1>1
<1> QED BY <1>2 DEF Tried

\* A claim adds the next number.
LEMMA TriedOfClaim ==
  ASSUME QueueInvariant, NEW w \in Workers, NEW j \in Jobs, NEW n \in AttemptNumbers, ClaimNext(w, j, n)
  PROVE  Tried[j] = 1..(n - 1) /\ Tried' = [Tried EXCEPT ![j] = 1..n]
<1> USE QueueAssumption DEF QueueInvariant, TypeOK
<1>1. attState' = [attState EXCEPT ![j][n] = "running"]
  BY DEF ClaimNext
<1>2. \A m \in AttemptNumbers : m >= n => attState[j][m] = "none"
  BY DEF ClaimNext, IsNextAttempt, AttemptNumbers
<1>3. \A m \in 1..(n - 1) : m \in AttemptNumbers /\ attState[j][m] # "none"
  <2>1. CASE n = 1
    BY <2>1
  <2>2. CASE n > 1
    <3>1. n - 1 \in AttemptNumbers /\ attState[j][n - 1] # "none"
      BY <2>2 DEF ClaimNext, IsNextAttempt, AttemptNumbers
    <3>2. \A m \in 1..(n - 2) : attState[j][m] = "failed"
      BY <3>1 DEF AttemptHistory, AttemptNumbers
    <3>3. \A m \in 1..(n - 1) : m \in AttemptNumbers /\ (m = n - 1 \/ m \in 1..(n - 2))
      BY DEF AttemptNumbers
    <3>4. \A m \in 1..(n - 2) : attState[j][m] # "none"
      BY <3>2
    <3> QED BY <3>1, <3>3, <3>4
  <2> QED BY <2>1, <2>2 DEF AttemptNumbers
<1>4. Tried[j] = 1..(n - 1)
  BY <1>2, <1>3 DEF Tried, AttemptNumbers
<1>5. \A m \in AttemptNumbers : attState'[j][m] # "none" <=> m = n \/ attState[j][m] # "none"
  BY <1>1
<1>6. Tried'[j] = 1..n
  <2>1. \A m \in AttemptNumbers : attState'[j][m] # "none" <=> m \in 1..n
    <3> SUFFICES ASSUME NEW m \in AttemptNumbers PROVE attState'[j][m] # "none" <=> m \in 1..n
      OBVIOUS
    <3>1. CASE m > n
      <4>1. m >= n /\ m # n /\ m \notin 1..n
        BY <3>1 DEF AttemptNumbers
      <4> QED BY <1>2, <1>5, <4>1
    <3>2. CASE m = n
      BY <1>5, <3>2 DEF AttemptNumbers
    <3>3. CASE m < n
      <4>1. m \in 1..(n - 1) /\ m \in 1..n
        BY <3>3 DEF AttemptNumbers
      <4> QED BY <1>3, <1>5, <4>1
    <3> QED BY <3>1, <3>2, <3>3 DEF AttemptNumbers
  <2>2. 1..n \subseteq AttemptNumbers
    BY DEF AttemptNumbers
  <2>3. Tried'[j] = {m \in AttemptNumbers : attState'[j][m] # "none"}
    BY DEF Tried
  <2> QED BY <2>1, <2>2, <2>3
<1>7. \A i \in Jobs : i # j => Tried'[i] = Tried[i]
  BY <1>1 DEF Tried
<1>8. Tried = [i \in Jobs |-> Tried[i]] /\ Tried' = [i \in Jobs |-> Tried'[i]]
  BY DEF Tried
<1> QED BY <1>4, <1>6, <1>7, <1>8

-----------------------------------------------------------------------------
(***************************************************************************)
(* Steps.                                                                  *)
(***************************************************************************)

\* What an owner cannot see: jobs, attempts there are and manifests stay.
LEMMA Invisible ==
  ASSUME ManifestIntegrity, ManifestIntegrity', UNCHANGED <<jobState, attState, outputs, expired>>
  PROVE  UNCHANGED Lifecycle!vars
<1>1. Manifests' = Manifests
  BY ManifestsStay
<1>2. Tried' = Tried
  BY DEF Tried
<1> QED BY <1>1, <1>2 DEF Lifecycle!vars

\* A job that is stored, cancelled or asked to stop without a worker.
LEMMA ClientMoves ==
  ASSUME QueueInvariant, QueueInvariant', NEW j \in Jobs,
         \/ \E now \in BOOLEAN : CreateJob(j, now)
         \/ RequestCancel(j)
         \/ \E i \in Jobs : ManualRetry(i, j)
  PROVE  [Lifecycle!Next]_Lifecycle!vars
<1> USE DEF QueueInvariant, TypeOK
<1>1. UNCHANGED <<attState, outputs, expired>>
  BY DEF CreateJob, RequestCancel, ManualRetry, attVars
<1>2. Tried' = Tried /\ Manifests' = Manifests
  BY <1>1, ManifestsStay DEF Tried
<1>3. ASSUME NEW now \in BOOLEAN, CreateJob(j, now) PROVE Lifecycle!Submit(j)
  BY <1>2, <1>3 DEF CreateJob, Lifecycle!Submit, Lifecycle!Move
<1>4. ASSUME NEW i \in Jobs, ManualRetry(i, j) PROVE Lifecycle!Submit(j)
  BY <1>2, <1>4 DEF ManualRetry, Lifecycle!Submit, Lifecycle!Move
<1>5. CASE RequestCancel(j)
  <2>1. Lifecycle!Cancel(j) \/ UNCHANGED jobState
    BY <1>2, <1>5 DEF RequestCancel, Lifecycle!Cancel, Lifecycle!Move, Lifecycle!Waiting
  <2>2. Lifecycle!Cancel(j) \/ UNCHANGED Lifecycle!vars
    BY <1>2, <2>1 DEF Lifecycle!vars
  <2> QED BY <2>2 DEF Lifecycle!Next
<1> QED BY <1>3, <1>4, <1>5 DEF Lifecycle!Next

\* A committed claim is the start of the next execution.
LEMMA ClaimMoves ==
  ASSUME QueueInvariant, QueueInvariant',
         NEW w \in Workers, NEW j \in Jobs, NEW n \in AttemptNumbers, ClaimNext(w, j, n)
  PROVE  Lifecycle!Start(j)
<1>1. Manifests' = Manifests
  BY ManifestsStay DEF ClaimNext, QueueInvariant
<1>2. Tried[j] = 1..(n - 1) /\ Tried' = [Tried EXCEPT ![j] = 1..n]
  BY TriedOfClaim
<1>3. n \in 1..MaxAttempts
  BY DEF AttemptNumbers
<1>4. Lifecycle!Move(j, Lifecycle!Waiting, "running")
  BY DEF ClaimNext, Lifecycle!Move, Lifecycle!Waiting
<1> QED BY <1>1, <1>2, <1>3, <1>4 DEF Lifecycle!Start

\* An attempt that ends without success ends the job, cancels it or sends it back to
\* wait, and it waits only while an attempt is left.
LEMMA ClosingMoves ==
  ASSUME QueueInvariant, QueueInvariant', UNCHANGED <<outputs, expired>>,
         NEW j \in Jobs, NEW n \in AttemptNumbers,
         NEW attempt \in AttemptStates, NEW job \in JobStates, Closes(j, n, attempt, job),
         job # "succeeded"
  PROVE  Lifecycle!WaitForRetry(j) \/ Lifecycle!GiveUp(j) \/ Lifecycle!Cancel(j)
<1> USE QueueAssumption DEF QueueInvariant, TypeOK
<1>1. Manifests' = Manifests
  BY ManifestsStay
<1>2. Tried' = Tried
  <2>1. attempt \in ClosedAttempt
    BY DEF Closes, ClosedAttempt
  <2>2. attState[j][n] = "running" /\ attState' = [attState EXCEPT ![j][n] = attempt]
    BY DEF Closes
  <2>3. TypeOK
    OBVIOUS
  <2> HIDE DEF TypeOK
  <2> QED BY <2>1, <2>2, <2>3, TriedStays
<1>3. CASE job = "cancelled"
  <2>1. Lifecycle!Move(j, {"cancel_requested"}, "cancelled")
    BY <1>3 DEF Closes, Lifecycle!Move
  <2> QED BY <1>1, <1>2, <2>1 DEF Lifecycle!Cancel
<1>4. CASE job = "failed"
  <2>1. Lifecycle!Move(j, {"running"}, "failed")
    BY <1>4 DEF Closes, Lifecycle!Move
  <2> QED BY <1>1, <1>2, <2>1 DEF Lifecycle!GiveUp
<1>5. CASE job = "retry_waiting"
  <2>1. Lifecycle!Move(j, {"running"}, "retry_waiting")
    BY <1>5 DEF Closes, Lifecycle!Move
  <2>2. MaxAttempts \in AttemptNumbers /\ MaxAttempts > n
    BY <1>5 DEF Closes, AttemptNumbers
  <2>3. attState[j][MaxAttempts] = "none"
    BY <2>2 DEF Closes, OneExecution
  <2>4. MaxAttempts \notin Tried[j] /\ MaxAttempts \in 1..MaxAttempts
    BY <2>2, <2>3 DEF Tried
  <2> QED BY <1>1, <1>2, <2>1, <2>4 DEF Lifecycle!WaitForRetry
<1> QED BY <1>3, <1>4, <1>5 DEF Closes

\* A completion shows all of the manifest of an image job at once, and a demo job has
\* none.
LEMMA SuccessMoves ==
  ASSUME QueueInvariant, QueueInvariant', PublishesImages,
         NEW j \in Jobs, NEW n \in AttemptNumbers, Complete(j, n) \/ CompleteImageJob(j, n)
  PROVE  Lifecycle!Succeed(j)
<1> USE QueueAssumption DEF QueueInvariant, TypeOK
<1>1. /\ attState[j][n] = "running"
      /\ attState' = [attState EXCEPT ![j][n] = "succeeded"]
      /\ jobState[j] = "running"
      /\ jobState' = [jobState EXCEPT ![j] = "succeeded"]
      /\ UNCHANGED expired
  BY DEF Complete, CompleteImageJob, Commit, Succeed
<1>2. Tried' = Tried
  BY <1>1, TriedStays DEF ClosedAttempt
<1>3. Lifecycle!Move(j, {"running"}, "succeeded")
  BY <1>1 DEF Lifecycle!Move
<1>4. Manifests' = [Manifests EXCEPT ![j] = IF j \in ImageJobs THEN "complete" ELSE @]
  <2>1. CASE Complete(j, n)
    <3>1. j \notin ImageJobs
      BY <2>1 DEF Complete, Commit, LocksGuardRows
    <3>2. Manifests' = Manifests
      BY <1>1, <2>1, ManifestsStay DEF Complete
    <3> QED BY <3>1, <3>2 DEF Manifests
  <2>2. CASE CompleteImageJob(j, n)
    <3>1. j \in ImageJobs
      BY <2>2 DEF CompleteImageJob, Commit, PublishesImages
    <3>2. outputs'[j] # {} /\ \A i \in Jobs : i # j => outputs'[i] = outputs[i]
      <4>1. <<n, 1>> \in {n} \X Items
        BY DEF Items
      <4>2. outputs' = [outputs EXCEPT ![j] = @ \cup ({n} \X Items)]
        BY <2>2 DEF CompleteImageJob
      <4>3. outputs'[j] = outputs[j] \cup ({n} \X Items)
        BY <4>2
      <4>4. \A i \in Jobs : i # j => outputs'[i] = outputs[i]
        BY <4>2
      <4> QED BY <4>1, <4>3, <4>4
    <3>3. Manifest(j)' = "complete"
      BY <3>2, ManifestShapeAfter
    <3>4. \A i \in Jobs : i # j => Manifest(i)' = Manifest(i)
      BY <1>1, <3>2, ManifestShape, ManifestShapeAfter
    <3> QED BY <3>1, <3>3, <3>4 DEF Manifests
  <2> QED BY <2>1, <2>2
<1> QED BY <1>2, <1>3, <1>4 DEF Lifecycle!Succeed

\* Retention removes whole manifests of finished jobs.
LEMMA ExpiryMoves ==
  ASSUME QueueInvariant, QueueInvariant', NEW old \in SUBSET Jobs, ExpireOutputArtifacts(old)
  PROVE  Lifecycle!Expire(old)
<1> USE DEF QueueInvariant, TypeOK
<1>1. /\ \A j \in old : jobState[j] \in Terminal
      /\ UNCHANGED <<jobState, attState>>
      /\ \A j \in Jobs : outputs'[j] = (IF j \in old THEN {} ELSE outputs[j])
      /\ \A j \in Jobs : expired'[j] = (expired[j] \/ j \in old)
  BY DEF ExpireOutputArtifacts, attVars
<1>2. Tried' = Tried
  BY <1>1 DEF Tried
<1>3. ASSUME NEW j \in old PROVE Manifest(j)' = "expired"
  BY <1>1, <1>3, ManifestShapeAfter
<1>4. ASSUME NEW j \in Jobs \ old PROVE Manifest(j)' = Manifest(j)
  BY <1>1, <1>4, ManifestShape, ManifestShapeAfter
<1>5. Manifests' = [j \in Jobs |-> IF j \in old THEN "expired" ELSE Manifests[j]]
  BY <1>3, <1>4 DEF Manifests
<1> QED BY <1>1, <1>2, <1>5 DEF Lifecycle!Expire, Lifecycle!Final

\* Every transaction is one move of the lifecycle or cannot be seen.
LEMMA StepRefines ==
  ASSUME QueueInvariant, QueueInvariant', PublishesImages, [Next]_vars
  PROVE  [Lifecycle!Next]_Lifecycle!vars
<1>1. ASSUME UNCHANGED <<jobState, attState, outputs, expired>> PROVE UNCHANGED Lifecycle!vars
  BY <1>1, Invisible DEF QueueInvariant
<1>2. CASE ClientStep
  BY <1>2, ClientMoves DEF ClientStep
<1>3. CASE WorkerStep
  <2>1. ASSUME NEW w \in Workers, NEW j \in Jobs, NEW n \in AttemptNumbers, ClaimNext(w, j, n)
        PROVE  Lifecycle!Next
    BY <2>1, ClaimMoves DEF Lifecycle!Next
  <2>2. \/ UNCHANGED <<jobState, attState, outputs, expired>>
        \/ \E w \in Workers, j \in Jobs, n \in AttemptNumbers : ClaimNext(w, j, n)
    BY <1>3 DEF WorkerStep, RegisterWorker, HeartbeatWorker, StopWorker, AbortClaim, LockCandidate,
                jobVars, attVars
  <2> QED BY <1>1, <2>1, <2>2
<1>4. ASSUME NEW j \in Jobs, NEW n \in AttemptNumbers, UNCHANGED <<outputs, expired>>,
             \/ \E transient \in BOOLEAN : RecordFailure(j, n, transient)
             \/ FinishCancelled(j, n)
             \/ ReclaimNextExpiredAttempt(j, n)
      PROVE  Lifecycle!Next
  <2>1. PICK attempt \in AttemptStates, job \in JobStates : Closes(j, n, attempt, job)
    BY <1>4, ClosingSteps DEF QueueInvariant
  <2>2. job # "succeeded"
    <3>1. jobState' = [jobState EXCEPT ![j] = job] /\ job \in JobStates /\ j \in DOMAIN jobState
      BY <2>1 DEF Closes, QueueInvariant, TypeOK
    <3>2. jobState'[j] # "succeeded"
      BY <1>4, <3>1 DEF RecordFailure, FinishCancelled, ReclaimNextExpiredAttempt, CloseFailed, CloseCancelled
    <3> QED BY <3>1, <3>2
  <2> QED BY <1>4, <2>1, <2>2, ClosingMoves DEF Lifecycle!Next
<1>5. CASE HolderStep
  <2>1. ASSUME NEW j \in Jobs, NEW n \in AttemptNumbers, Complete(j, n) \/ CompleteImageJob(j, n)
        PROVE  Lifecycle!Next
    BY <2>1, SuccessMoves DEF Lifecycle!Next
  <2>2. ASSUME NEW j \in Jobs, NEW n \in AttemptNumbers,
               (\E transient \in BOOLEAN : RecordFailure(j, n, transient)) \/ FinishCancelled(j, n)
        PROVE  Lifecycle!Next
    <3>1. UNCHANGED <<outputs, expired>>
      BY <2>2 DEF RecordFailure, FinishCancelled
    <3> QED BY <1>4, <2>2, <3>1
  <2>3. \/ UNCHANGED <<jobState, attState, outputs, expired>>
        \/ \E j \in Jobs, n \in AttemptNumbers :
             \/ Complete(j, n)
             \/ CompleteImageJob(j, n)
             \/ \E transient \in BOOLEAN : RecordFailure(j, n, transient)
             \/ FinishCancelled(j, n)
    BY <1>5 DEF HolderStep, Rollback, RenewLease, AwaitRowLock, RenewAfterWait, AbandonRenewal, OpenWrite,
                UpdateProgress, jobVars, attVars
  <2> QED BY <1>1, <2>1, <2>2, <2>3
<1>6. CASE RecoveryStep
  <2>1. ASSUME NEW j \in Jobs, NEW n \in AttemptNumbers, ReclaimNextExpiredAttempt(j, n) PROVE Lifecycle!Next
    <3>1. UNCHANGED <<outputs, expired>>
      BY <2>1 DEF ReclaimNextExpiredAttempt
    <3> QED BY <1>4, <2>1, <3>1
  <2>2. ASSUME NEW old \in SUBSET Jobs, ExpireOutputArtifacts(old) PROVE Lifecycle!Next
    BY <2>2, ExpiryMoves DEF Lifecycle!Next
  <2> QED BY <1>6, <2>1, <2>2 DEF RecoveryStep
<1>7. CASE TimeStep
  <2>1. UNCHANGED <<jobState, attState, outputs, expired>>
    BY <1>7 DEF TimeStep, LeaseTick, HeartbeatLapses, JobDue, jobVars, attVars
  <2> QED BY <1>1, <2>1
<1>8. CASE UNCHANGED vars
  <2>1. UNCHANGED <<jobState, attState, outputs, expired>>
    BY <1>8 DEF vars, jobVars, attVars
  <2> QED BY <1>1, <2>1
<1> QED BY <1>2, <1>3, <1>5, <1>6, <1>7, <1>8 DEF Next

\* An empty database is the beginning of the lifecycle.
LEMMA InitRefines == Init => Lifecycle!Init
<1> SUFFICES ASSUME Init PROVE Lifecycle!Init
  OBVIOUS
<1>1. Tried = [j \in Jobs |-> {}]
  <2>1. \A j \in Jobs : {n \in AttemptNumbers : attState[j][n] # "none"} = {}
    BY DEF Init
  <2> QED BY <2>1 DEF Tried
<1>2. Manifests = [j \in Jobs |-> "none"]
  <2>1. \A j \in Jobs : Manifest(j) = "none"
    BY DEF Init, Manifest
  <2> QED BY <2>1 DEF Manifests
<1> QED BY <1>1, <1>2 DEF Init, Lifecycle!Init

\* The tables, claims, leases, recoveries and expiries of any number of workers
\* implement the lifecycle promised to the owner of every job.
THEOREM QueueImplementsLifecycle == Spec => ImplementsLifecycle
<1>1. QueueInvariant /\ QueueInvariant' /\ PublishesImages /\ [Next]_vars => [Lifecycle!Next]_Lifecycle!vars
  BY StepRefines
<1> QED BY <1>1, InitRefines, InvariantCorrect, PublishesImagesCorrect, PTL
        DEF Spec, ImplementsLifecycle, Lifecycle!Spec

=============================================================================
