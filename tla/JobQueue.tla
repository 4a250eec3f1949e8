------------------------------- MODULE JobQueue -------------------------------
(***************************************************************************)
(* The PostgreSQL job queue of crates/adapters: jobs, attempts, published  *)
(* output rows and worker registrations, with the transactions the API and *)
(* the workers run against them.                                           *)
(*                                                                         *)
(* A transaction that only takes row locks it releases in the same         *)
(* statement is one action.  A claim and a fenced write (progress,         *)
(* completion, failure, cancellation) are two: the statement that locks    *)
(* the row and decides, and the commit that makes the effect visible.      *)
(* Between the two, FOR UPDATE SKIP LOCKED steps over the row and a plain  *)
(* UPDATE waits for it.  A rollback (conflict, lost connection, crash)     *)
(* releases the lock and changes nothing else.                             *)
(*                                                                         *)
(* Clock comparisons are abstracted by their outcome: a lease counts down  *)
(* from LeaseTerm to 0 (expired), a heartbeat is fresh or lapsed, a job is *)
(* due or not.  The environment actions at the end let time pass.  CURRENT *)
(* _TIMESTAMP is the start of the transaction, so a lease is compared when *)
(* the transaction opens and not again when it commits.                    *)
(***************************************************************************)
EXTENDS Integers

CONSTANTS
  Jobs,         \* identifiers a job row may get
  ImageJobs,    \* the ones created as image_resize; the others are demo_delay
  Workers,      \* worker identifiers
  Priority,     \* rank of every job: 0 high, 1 normal, 2 low
  MaxAttempts,  \* jobs.max_attempts
  ItemCount,    \* jobs.progress_total, the number of input artifacts
  LeaseTerm,    \* clock ticks a lease lasts
  NoWorker, NoJob

ASSUME QueueAssumption ==
  /\ ImageJobs \subseteq Jobs
  /\ MaxAttempts \in Nat \ {0}
  /\ ItemCount \in Nat \ {0}
  /\ LeaseTerm \in Nat \ {0}
  /\ Priority \in [Jobs -> 0..2]
  /\ NoWorker \notin Workers
  /\ NoJob \notin Jobs

VARIABLES
  jobState,     \* jobs.state; "absent" before the row exists
  jobProgress,  \* jobs.progress_completed
  due,          \* jobs.available_at <= now
  retryOf,      \* jobs.retry_of_job_id
  expired,      \* jobs.outputs_expired_at IS NOT NULL
  attState,     \* job_attempts.state by attempt_number; "none" before the row exists
  attProgress,  \* job_attempts.progress_completed
  owner,        \* job_attempts.worker_id
  lease,        \* ticks left on job_attempts.lease_expires_at
  renewing,     \* a renewal of the attempt's lease waits for the row lock
  outputs,      \* output rows of artifacts: pairs <<attempt_number, item_index>>
  worker,       \* workers row: "absent", "registered" or "stopped"
  fresh,        \* workers.heartbeat_expires_at > now
  claiming,     \* job row locked by the worker's open claim, or NoJob
  tx            \* fenced write open on the job's attempt row, or "none"

jobVars == <<jobState, jobProgress, due, retryOf, expired>>
attVars == <<attState, attProgress, owner, lease, renewing>>
workerVars == <<worker, fresh>>
vars == <<jobVars, attVars, outputs, workerVars, claiming, tx>>

-----------------------------------------------------------------------------
AttemptNumbers == 1..MaxAttempts
Items == 1..ItemCount

Claimable == {"queued", "retry_waiting"}
Active == {"running", "cancel_requested"}
Terminal == {"succeeded", "failed", "cancelled"}
JobStates == {"absent"} \cup Claimable \cup Active \cup Terminal
AttemptStates == {"none", "running", "succeeded", "failed", "cancelled"}
ClosedAttempt == {"succeeded", "failed", "cancelled"}
FencedWrites == {"progress", "complete", "publish", "fail", "cancel"}

TypeOK ==
  /\ jobState \in [Jobs -> JobStates]
  /\ jobProgress \in [Jobs -> 0..ItemCount]
  /\ due \in [Jobs -> BOOLEAN]
  /\ retryOf \in [Jobs -> Jobs \cup {NoJob}]
  /\ expired \in [Jobs -> BOOLEAN]
  /\ attState \in [Jobs -> [AttemptNumbers -> AttemptStates]]
  /\ attProgress \in [Jobs -> [AttemptNumbers -> 0..ItemCount]]
  /\ owner \in [Jobs -> [AttemptNumbers -> Workers \cup {NoWorker}]]
  /\ lease \in [Jobs -> [AttemptNumbers -> 0..LeaseTerm]]
  /\ renewing \in [Jobs -> [AttemptNumbers -> BOOLEAN]]
  /\ outputs \in [Jobs -> SUBSET (AttemptNumbers \X Items)]
  /\ worker \in [Workers -> {"absent", "registered", "stopped"}]
  /\ fresh \in [Workers -> BOOLEAN]
  /\ claiming \in [Workers -> Jobs \cup {NoJob}]
  /\ tx \in [Jobs -> FencedWrites \cup {"none"}]

-----------------------------------------------------------------------------
\* Operators named <Definition>_<Slip> are variants of a definition with one
\* slip in it; no specification uses them, they serve to check that the
\* properties below notice the slip.

\* The number is only known to be unused: a sequence instead of MAX + 1.
IsNextAttempt_FromSequence(j, n) ==
  \A m \in AttemptNumbers : attState[j][m] # "none" => m < n

\* MAX(attempt_number) + 1: above every row there is, next to the last one.
IsNextAttempt(j, n) ==
  /\ \A m \in AttemptNumbers : attState[j][m] # "none" => m < n
  /\ n > 1 => attState[j][n - 1] # "none"

\* The row lock of a claim in progress.
LockedByClaim(j) == \E w \in Workers : claiming[w] = j

\* What a SKIP LOCKED candidate query may return.
Candidate(j) == jobState[j] \in Claimable /\ due[j] /\ ~LockedByClaim(j)

\* The claim of attempt n still owns job j: WHERE id, worker_id, claim_token,
\* state = 'running' AND lease_expires_at > CURRENT_TIMESTAMP.
Owns(j, n) == attState[j][n] = "running" /\ lease[j][n] > 0

ActiveWorker(w) == worker[w] = "registered" /\ fresh[w]

-----------------------------------------------------------------------------
\* API: submission, cancellation and manual retry.

\* create and create_image_job; an image job may be given a later available_at.
CreateJob(j, now) ==
  /\ jobState[j] = "absent"
  /\ j \notin ImageJobs => now
  /\ jobState' = [jobState EXCEPT ![j] = "queued"]
  /\ due' = [due EXCEPT ![j] = now]
  /\ UNCHANGED <<jobProgress, retryOf, expired, attVars, outputs, workerVars, claiming, tx>>

\* A running job is cancelled at once instead of asking its worker.
RequestCancel_AtOnce(j) ==
  /\ ~LockedByClaim(j)
  /\ tx[j] # "publish"
  /\ jobState[j] \in Claimable \cup Active
  /\ jobState' = [jobState EXCEPT ![j] = "cancelled"]
  /\ UNCHANGED <<jobProgress, due, retryOf, expired, attVars, outputs, workerVars, claiming, tx>>

\* The UPDATE waits for a claim's or a publication's lock on the row.
RequestCancel(j) ==
  /\ ~LockedByClaim(j)
  /\ tx[j] # "publish"
  /\ \/ /\ jobState[j] \in Claimable
        /\ jobState' = [jobState EXCEPT ![j] = "cancelled"]
     \/ /\ jobState[j] = "running"
        /\ jobState' = [jobState EXCEPT ![j] = "cancel_requested"]
     \/ /\ jobState[j] \in {"cancel_requested", "cancelled"}
        /\ UNCHANGED jobState
  /\ UNCHANGED <<jobProgress, due, retryOf, expired, attVars, outputs, workerVars, claiming, tx>>

\* The job itself is queued again.
ManualRetry_InPlace(j, k) ==
  /\ jobState[j] \in {"failed", "cancelled"}
  /\ k = j
  /\ jobState' = [jobState EXCEPT ![j] = "queued"]
  /\ UNCHANGED <<jobProgress, due, retryOf, expired, attVars, outputs, workerVars, claiming, tx>>

\* Any job that has ended may be retried.
ManualRetry_AnyEnded(j, k) ==
  /\ jobState[j] \in Terminal
  /\ jobState[k] = "absent"
  /\ jobState' = [jobState EXCEPT ![k] = "queued"]
  /\ retryOf' = [retryOf EXCEPT ![k] = j]
  /\ UNCHANGED <<jobProgress, due, expired, attVars, outputs, workerVars, claiming, tx>>

\* The new row k copies the type and the priority of its source j.
ManualRetry(j, k) ==
  /\ jobState[j] \in {"failed", "cancelled"}
  /\ jobState[k] = "absent"
  /\ Priority[k] = Priority[j]
  /\ k \in ImageJobs <=> j \in ImageJobs
  /\ jobState' = [jobState EXCEPT ![k] = "queued"]
  /\ due' = [due EXCEPT ![k] = TRUE]
  /\ retryOf' = [retryOf EXCEPT ![k] = j]
  /\ UNCHANGED <<jobProgress, expired, attVars, outputs, workerVars, claiming, tx>>

-----------------------------------------------------------------------------
\* Workers: registration and claims.

RegisterWorker(w) ==
  /\ worker[w] = "absent"
  /\ worker' = [worker EXCEPT ![w] = "registered"]
  /\ fresh' = [fresh EXCEPT ![w] = TRUE]
  /\ UNCHANGED <<jobVars, attVars, outputs, claiming, tx>>

\* A lapsed worker comes back; a stopped one does not.
HeartbeatWorker(w) ==
  /\ worker[w] = "registered"
  /\ fresh' = [fresh EXCEPT ![w] = TRUE]
  /\ UNCHANGED <<jobVars, attVars, outputs, worker, claiming, tx>>

StopWorker(w) ==
  /\ worker[w] \in {"registered", "stopped"}
  /\ worker' = [worker EXCEPT ![w] = "stopped"]
  /\ UNCHANGED <<jobVars, attVars, outputs, fresh, claiming, tx>>

\* The query does not lock the row: two claims may read the same candidate.
LockCandidate_Unlocked(w, j) ==
  /\ worker[w] # "absent"
  /\ claiming[w] = NoJob
  /\ jobState[j] \in Claimable /\ due[j]
  /\ claiming' = [claiming EXCEPT ![w] = j]
  /\ UNCHANGED <<jobVars, attVars, outputs, workerVars, tx>>

\* SELECT ... ORDER BY priority, available_at, id FOR UPDATE SKIP LOCKED LIMIT 1.
\* Ties within a priority are left open.  The query runs before the worker's
\* registration is looked at.
LockCandidate(w, j) ==
  /\ worker[w] # "absent"
  /\ claiming[w] = NoJob
  /\ Candidate(j)
  /\ \A k \in Jobs : Candidate(k) => Priority[j] <= Priority[k]
  /\ claiming' = [claiming EXCEPT ![w] = j]
  /\ UNCHANGED <<jobVars, attVars, outputs, workerVars, tx>>

\* The rest of the claim: attempt number, job update, attempt insert, commit.
ClaimNext(w, j, n) ==
  /\ claiming[w] = j
  /\ jobState[j] \in Claimable
  /\ IsNextAttempt(j, n)
  /\ ActiveWorker(w)
  /\ jobState' = [jobState EXCEPT ![j] = "running"]
  /\ jobProgress' = [jobProgress EXCEPT ![j] = 0]
  /\ attState' = [attState EXCEPT ![j][n] = "running"]
  /\ attProgress' = [attProgress EXCEPT ![j][n] = 0]
  /\ owner' = [owner EXCEPT ![j][n] = w]
  /\ lease' = [lease EXCEPT ![j][n] = LeaseTerm]
  /\ claiming' = [claiming EXCEPT ![w] = NoJob]
  /\ UNCHANGED <<due, retryOf, expired, renewing, outputs, workerVars, tx>>

\* No attempt left, an inactive worker, a lost connection: the claim rolls back.
AbortClaim(w) ==
  /\ claiming[w] # NoJob
  /\ claiming' = [claiming EXCEPT ![w] = NoJob]
  /\ UNCHANGED <<jobVars, attVars, outputs, workerVars, tx>>

-----------------------------------------------------------------------------
\* Workers: lease renewal and fenced writes by whoever holds the claim of
\* attempt n, however stale it is.

\* What the WHERE clause of renew_lease asks for.
Renewable(j, n) ==
  Owns(j, n) /\ jobState[j] \in Active /\ ActiveWorker(owner[j][n])

\* The lease is extended from where it ends, not from now.
RenewLease_FromExpiry(j, n) ==
  /\ Renewable(j, n)
  /\ tx[j] = "none"
  /\ lease' = [lease EXCEPT ![j][n] = @ + LeaseTerm]
  /\ UNCHANGED <<jobVars, attState, attProgress, owner, renewing, outputs, workerVars, claiming, tx>>

RenewLease(j, n) ==
  /\ Renewable(j, n)
  /\ tx[j] = "none"
  /\ lease' = [lease EXCEPT ![j][n] = LeaseTerm]
  /\ UNCHANGED <<jobVars, attState, attProgress, owner, renewing, outputs, workerVars, claiming, tx>>

\* The row qualifies but is locked by a fenced write: the UPDATE waits.
AwaitRowLock(j, n) ==
  /\ Renewable(j, n)
  /\ tx[j] # "none"
  /\ ~renewing[j][n]
  /\ renewing' = [renewing EXCEPT ![j][n] = TRUE]
  /\ UNCHANGED <<jobVars, attState, attProgress, owner, lease, outputs, workerVars, claiming, tx>>

\* It looks at the row again: if the attempt still runs, the new lease counts from
\* the time the UPDATE was issued.
RenewAfterWait(j, n) ==
  /\ renewing[j][n]
  /\ tx[j] = "none"
  /\ renewing' = [renewing EXCEPT ![j][n] = FALSE]
  /\ \/ attState[j][n] = "running" /\ \E t \in lease[j][n]..LeaseTerm : lease' = [lease EXCEPT ![j][n] = t]
     \/ attState[j][n] # "running" /\ UNCHANGED lease
  /\ UNCHANGED <<jobVars, attState, attProgress, owner, outputs, workerVars, claiming, tx>>

\* The connection of the waiting UPDATE is lost.
AbandonRenewal(j, n) ==
  /\ renewing[j][n]
  /\ renewing' = [renewing EXCEPT ![j][n] = FALSE]
  /\ UNCHANGED <<jobVars, attState, attProgress, owner, lease, outputs, workerVars, claiming, tx>>

\* The first statement of a fenced write.  All of them lock the attempt row;
\* complete_image_job also locks the job row and requires it to be running.
OpenWrite(j, n, op) ==
  /\ tx[j] = "none"
  /\ Owns(j, n)
  /\ op = "complete" => j \notin ImageJobs
  /\ op = "publish" => j \in ImageJobs /\ jobState[j] = "running"
  /\ tx' = [tx EXCEPT ![j] = op]
  /\ UNCHANGED <<jobVars, attVars, outputs, workerVars, claiming>>

\* The job row refuses (StateConflict), or the connection is lost.
Rollback(j) ==
  /\ tx[j] # "none"
  /\ tx' = [tx EXCEPT ![j] = "none"]
  /\ UNCHANGED <<jobVars, attVars, outputs, workerVars, claiming>>

Commit(j, n, op) ==
  /\ tx[j] = op
  /\ attState[j][n] = "running"
  /\ tx' = [tx EXCEPT ![j] = "none"]

UpdateProgress(j, n, p) ==
  /\ Commit(j, n, "progress")
  /\ jobState[j] = "running"
  /\ p >= attProgress[j][n] /\ p >= jobProgress[j]
  /\ attProgress' = [attProgress EXCEPT ![j][n] = p]
  /\ jobProgress' = [jobProgress EXCEPT ![j] = p]
  /\ UNCHANGED <<jobState, due, retryOf, expired, attState, owner, lease, renewing, outputs, workerVars, claiming>>

\* What complete and complete_image_job have in common.
Succeed(j, n) ==
  /\ jobState[j] = "running"
  /\ attState' = [attState EXCEPT ![j][n] = "succeeded"]
  /\ attProgress' = [attProgress EXCEPT ![j][n] = ItemCount]
  /\ jobState' = [jobState EXCEPT ![j] = "succeeded"]
  /\ jobProgress' = [jobProgress EXCEPT ![j] = ItemCount]
  /\ UNCHANGED <<due, retryOf, expired, owner, lease, renewing, workerVars, claiming>>

Complete(j, n) ==
  /\ Commit(j, n, "complete")
  /\ Succeed(j, n)
  /\ UNCHANGED outputs

\* One output row per input, all carrying the attempt's id.
CompleteImageJob(j, n) ==
  /\ Commit(j, n, "publish")
  /\ Succeed(j, n)
  /\ outputs' = [outputs EXCEPT ![j] = @ \cup ({n} \X Items)]

\* The progress of the attempt that was given up stays on the job.
CloseFailed_KeepsProgress(j, n, again) ==
  /\ attState' = [attState EXCEPT ![j][n] = "failed"]
  /\ jobState' = [jobState EXCEPT ![j] = IF again THEN "retry_waiting" ELSE "failed"]
  /\ due' = [due EXCEPT ![j] = IF again THEN FALSE ELSE @]
  /\ UNCHANGED jobProgress

\* Another attempt after a backoff, or the end of the job.
CloseFailed(j, n, again) ==
  /\ attState' = [attState EXCEPT ![j][n] = "failed"]
  /\ jobState' = [jobState EXCEPT ![j] = IF again THEN "retry_waiting" ELSE "failed"]
  /\ jobProgress' = [jobProgress EXCEPT ![j] = IF again THEN 0 ELSE @]
  /\ due' = [due EXCEPT ![j] = IF again THEN FALSE ELSE @]

CloseCancelled(j, n) ==
  /\ attState' = [attState EXCEPT ![j][n] = "cancelled"]
  /\ jobState' = [jobState EXCEPT ![j] = "cancelled"]
  /\ UNCHANGED <<jobProgress, due>>

\* The limit is compared the wrong way round at its boundary.
RecordFailure_OneTooMany(j, n, transient) ==
  /\ Commit(j, n, "fail")
  /\ jobState[j] = "running"
  /\ CloseFailed(j, n, transient /\ n <= MaxAttempts)
  /\ UNCHANGED <<retryOf, expired, attProgress, owner, lease, renewing, outputs, workerVars, claiming>>

\* A failure is recorded although the job was asked to stop.
RecordFailure_OverCancel(j, n, transient) ==
  /\ Commit(j, n, "fail")
  /\ CloseFailed(j, n, transient /\ n < MaxAttempts)
  /\ UNCHANGED <<retryOf, expired, attProgress, owner, lease, renewing, outputs, workerVars, claiming>>

RecordFailure(j, n, transient) ==
  /\ Commit(j, n, "fail")
  /\ jobState[j] = "running"
  /\ CloseFailed(j, n, transient /\ n < MaxAttempts)
  /\ UNCHANGED <<retryOf, expired, attProgress, owner, lease, renewing, outputs, workerVars, claiming>>

FinishCancelled(j, n) ==
  /\ Commit(j, n, "cancel")
  /\ jobState[j] = "cancel_requested"
  /\ CloseCancelled(j, n)
  /\ UNCHANGED <<retryOf, expired, attProgress, owner, lease, renewing, outputs, workerVars, claiming>>

-----------------------------------------------------------------------------
\* Any worker: recovery of expired attempts and retention of outputs.

\* Recovery closes an attempt while its owner has a fenced write open on it.
ReclaimNextExpiredAttempt_Unlocked(j, n) ==
  /\ attState[j][n] = "running"
  /\ lease[j][n] = 0
  /\ \/ jobState[j] = "cancel_requested" /\ CloseCancelled(j, n)
     \/ jobState[j] = "running" /\ CloseFailed(j, n, n < MaxAttempts)
  /\ UNCHANGED <<retryOf, expired, attProgress, owner, lease, renewing, outputs, workerVars, claiming, tx>>

\* Recovery overlooks jobs that were asked to stop.
ReclaimNextExpiredAttempt_RunningOnly(j, n) ==
  /\ attState[j][n] = "running"
  /\ lease[j][n] = 0
  /\ tx[j] = "none"
  /\ jobState[j] = "running"
  /\ CloseFailed(j, n, n < MaxAttempts)
  /\ UNCHANGED <<retryOf, expired, attProgress, owner, lease, renewing, outputs, workerVars, claiming, tx>>

\* Recovery schedules a retry of a job that was asked to stop.
ReclaimNextExpiredAttempt_ForgetsCancel(j, n) ==
  /\ attState[j][n] = "running"
  /\ lease[j][n] = 0
  /\ tx[j] = "none"
  /\ CloseFailed(j, n, n < MaxAttempts)
  /\ UNCHANGED <<retryOf, expired, attProgress, owner, lease, renewing, outputs, workerVars, claiming, tx>>

\* SKIP LOCKED: an attempt with a fenced write open is stepped over.
ReclaimNextExpiredAttempt(j, n) ==
  /\ attState[j][n] = "running"
  /\ lease[j][n] = 0
  /\ tx[j] = "none"
  /\ \/ /\ jobState[j] = "cancel_requested"
        /\ CloseCancelled(j, n)
     \/ /\ jobState[j] = "running"
        /\ CloseFailed(j, n, n < MaxAttempts)
  /\ UNCHANGED <<retryOf, expired, attProgress, owner, lease, renewing, outputs, workerVars, claiming, tx>>

\* The rows go, the job does not say so.
ExpireOutputArtifacts_Unmarked(old) ==
  /\ old # {}
  /\ \A j \in old : jobState[j] \in Terminal
  /\ outputs' = [j \in Jobs |-> IF j \in old THEN {} ELSE outputs[j]]
  /\ UNCHANGED <<jobVars, attVars, workerVars, claiming, tx>>

\* One transaction over every terminal job finished long enough ago, here over
\* any set of them: which ones are old enough is left open.
ExpireOutputArtifacts(old) ==
  /\ old # {}
  /\ \A j \in old : jobState[j] \in Terminal
  /\ outputs' = [j \in Jobs |-> IF j \in old THEN {} ELSE outputs[j]]
  /\ expired' = [j \in Jobs |-> expired[j] \/ j \in old]
  /\ UNCHANGED <<jobState, jobProgress, due, retryOf, attVars, workerVars, claiming, tx>>

-----------------------------------------------------------------------------
\* Time passes.

LeaseTick(j, n) ==
  /\ attState[j][n] = "running"
  /\ lease[j][n] > 0
  /\ lease' = [lease EXCEPT ![j][n] = @ - 1]
  /\ UNCHANGED <<jobVars, attState, attProgress, owner, renewing, outputs, workerVars, claiming, tx>>

\* A claim compares the heartbeat with the start of its transaction, so a lapse
\* counts from the end of it.
HeartbeatLapses(w) ==
  /\ fresh[w]
  /\ claiming[w] = NoJob
  /\ fresh' = [fresh EXCEPT ![w] = FALSE]
  /\ UNCHANGED <<jobVars, attVars, outputs, worker, claiming, tx>>

\* The requested start or the end of the backoff arrives.
JobDue(j) ==
  /\ jobState[j] \in Claimable
  /\ ~due[j]
  /\ due' = [due EXCEPT ![j] = TRUE]
  /\ UNCHANGED <<jobState, jobProgress, retryOf, expired, attVars, outputs, workerVars, claiming, tx>>

-----------------------------------------------------------------------------
Init ==
  /\ jobState = [j \in Jobs |-> "absent"]
  /\ jobProgress = [j \in Jobs |-> 0]
  /\ due = [j \in Jobs |-> FALSE]
  /\ retryOf = [j \in Jobs |-> NoJob]
  /\ expired = [j \in Jobs |-> FALSE]
  /\ attState = [j \in Jobs |-> [n \in AttemptNumbers |-> "none"]]
  /\ attProgress = [j \in Jobs |-> [n \in AttemptNumbers |-> 0]]
  /\ owner = [j \in Jobs |-> [n \in AttemptNumbers |-> NoWorker]]
  /\ lease = [j \in Jobs |-> [n \in AttemptNumbers |-> 0]]
  /\ renewing = [j \in Jobs |-> [n \in AttemptNumbers |-> FALSE]]
  /\ outputs = [j \in Jobs |-> {}]
  /\ worker = [w \in Workers |-> "absent"]
  /\ fresh = [w \in Workers |-> FALSE]
  /\ claiming = [w \in Workers |-> NoJob]
  /\ tx = [j \in Jobs |-> "none"]

ClientStep ==
  \E j \in Jobs :
    \/ \E now \in BOOLEAN : CreateJob(j, now)
    \/ RequestCancel(j)
    \/ \E k \in Jobs : ManualRetry(j, k)

WorkerStep ==
  \E w \in Workers :
    \/ RegisterWorker(w)
    \/ HeartbeatWorker(w)
    \/ StopWorker(w)
    \/ AbortClaim(w)
    \/ \E j \in Jobs : LockCandidate(w, j)
    \/ \E j \in Jobs, n \in AttemptNumbers : ClaimNext(w, j, n)

HolderStep ==
  \E j \in Jobs :
    \/ Rollback(j)
    \/ \E n \in AttemptNumbers :
         \/ RenewLease(j, n)
         \/ AwaitRowLock(j, n)
         \/ RenewAfterWait(j, n)
         \/ AbandonRenewal(j, n)
         \/ \E op \in FencedWrites : OpenWrite(j, n, op)
         \/ \E p \in 0..ItemCount : UpdateProgress(j, n, p)
         \/ Complete(j, n)
         \/ CompleteImageJob(j, n)
         \/ \E transient \in BOOLEAN : RecordFailure(j, n, transient)
         \/ FinishCancelled(j, n)

RecoveryStep ==
  \/ \E j \in Jobs, n \in AttemptNumbers : ReclaimNextExpiredAttempt(j, n)
  \/ \E old \in SUBSET Jobs : ExpireOutputArtifacts(old)

TimeStep ==
  \/ \E j \in Jobs, n \in AttemptNumbers : LeaseTick(j, n)
  \/ \E w \in Workers : HeartbeatLapses(w)
  \/ \E j \in Jobs : JobDue(j)

Next == ClientStep \/ WorkerStep \/ HolderStep \/ RecoveryStep \/ TimeStep

Spec == Init /\ [][Next]_vars

-----------------------------------------------------------------------------
\* Safety.

\* An attempt is running exactly when its job is being worked on, it is the
\* last attempt of the job, and somebody owns it: two claims, a claim and a
\* recovery, or a recovery and a late completion never leave a job with two
\* executions or with none that recovery could close.
OneExecution ==
  \A j \in Jobs :
    /\ jobState[j] \in Active <=> \E n \in AttemptNumbers : attState[j][n] = "running"
    /\ \A n \in AttemptNumbers : attState[j][n] = "running" =>
         /\ owner[j][n] \in Workers
         /\ \A m \in AttemptNumbers : m > n => attState[j][m] = "none"

\* Every attempt but the last one failed, without gaps, and the last one ended
\* the way the job did.
AttemptHistory ==
  \A j \in Jobs, n \in AttemptNumbers :
    /\ attState[j][n] # "none" => \A m \in 1..(n - 1) : attState[j][m] = "failed"
    /\ attState[j][n] = "succeeded" => jobState[j] = "succeeded"
    /\ attState[j][n] = "cancelled" => jobState[j] = "cancelled"
    /\ jobState[j] = "succeeded" => \E m \in AttemptNumbers : attState[j][m] = "succeeded"

\* A job a worker may claim has an attempt left: the claim's "job has no
\* remaining attempts" error, which would end the loop of every worker that
\* meets the row, cannot occur.
AttemptLeft ==
  \A j \in Jobs : jobState[j] \in Claimable => attState[j][MaxAttempts] = "none"

\* A downloadable manifest has one output per input, all of them from the one
\* attempt that succeeded; it is there as soon as the job has succeeded and
\* until retention removes all of it.
ManifestIntegrity ==
  \A j \in Jobs :
    /\ outputs[j] # {} =>
         /\ jobState[j] = "succeeded"
         /\ \E n \in AttemptNumbers : attState[j][n] = "succeeded" /\ outputs[j] = {n} \X Items
    /\ j \in ImageJobs /\ jobState[j] = "succeeded" /\ ~expired[j] => outputs[j] # {}

\* The progress the job shows is the progress of the attempt that is running,
\* nothing of an attempt that was given up survives into the wait for the next.
ProgressOfExecution ==
  \A j \in Jobs :
    /\ jobState[j] \in Claimable => jobProgress[j] = 0
    /\ \A n \in AttemptNumbers : attState[j][n] = "running" => jobProgress[j] = attProgress[j][n]
    /\ jobState[j] = "succeeded" => jobProgress[j] = ItemCount

\* The job a claim is about to take is still claimable and taken by no other
\* claim, a fenced write is only ever open on a running attempt, and only a
\* publication can complete an image job.
LocksGuardRows ==
  /\ \A w \in Workers : claiming[w] # NoJob =>
       /\ jobState[claiming[w]] \in Claimable
       /\ \A v \in Workers : claiming[v] = claiming[w] => v = w
  /\ \A j \in Jobs :
       /\ tx[j] # "none" => \E n \in AttemptNumbers : attState[j][n] = "running"
       /\ tx[j] = "complete" => j \notin ImageJobs

\* A manual retry is a new job beside its source, whose outcome stays failed or
\* cancelled whatever becomes of the retry.
RetryKeepsSource ==
  \A k \in Jobs : retryOf[k] # NoJob =>
    /\ jobState[retryOf[k]] \in {"failed", "cancelled"}
    /\ jobState[k] # "absent"

\* A row that does not exist yet has left no trace in the other tables.
AbsentIsFresh ==
  \A j \in Jobs : jobState[j] = "absent" =>
    jobProgress[j] = 0 /\ \A n \in AttemptNumbers : attState[j][n] = "none"

\* The inductive invariant: no part is inductive without the others, a claim for
\* one extends a history that only the outcome of the earlier attempts bounds.
QueueInvariant ==
  /\ TypeOK
  /\ AbsentIsFresh
  /\ OneExecution
  /\ AttemptHistory
  /\ AttemptLeft
  /\ ManifestIntegrity
  /\ ProgressOfExecution
  /\ LocksGuardRows
  /\ RetryKeepsSource

-----------------------------------------------------------------------------
\* Action properties.

\* No late worker, recovery or client reopens what has ended: a terminal job
\* keeps its state and its progress, a closed attempt everything it recorded.
EndedStaysEnded ==
  [][\A j \in Jobs :
       /\ jobState[j] \in Terminal => jobState'[j] = jobState[j] /\ jobProgress'[j] = jobProgress[j]
       /\ \A n \in AttemptNumbers : attState[j][n] \in ClosedAttempt =>
            /\ attState'[j][n] = attState[j][n]
            /\ attProgress'[j][n] = attProgress[j][n]
            /\ owner'[j][n] = owner[j][n]]_vars

\* Once the cancellation of a running job is recorded the job can only become
\* cancelled: no completion, failure, retry or progress gets in before it.
CancellationWins ==
  [][\A j \in Jobs : jobState[j] = "cancel_requested" =>
       /\ jobState'[j] \in {"cancel_requested", "cancelled"}
       /\ outputs'[j] = outputs[j]
       /\ jobProgress'[j] = jobProgress[j]]_vars

-----------------------------------------------------------------------------
\* What the owner of a job sees of the tables.
Manifest(j) ==
  IF outputs[j] = {} THEN (IF expired[j] THEN "expired" ELSE "none")
  ELSE IF \E n \in AttemptNumbers : attState[j][n] = "succeeded" /\ outputs[j] = {n} \X Items
       THEN "complete"
       ELSE "partial"

Manifests == [j \in Jobs |-> Manifest(j)]

Tried == [j \in Jobs |-> {n \in AttemptNumbers : attState[j][n] # "none"}]

Lifecycle == INSTANCE JobLifecycle WITH status <- jobState, tried <- Tried, manifest <- Manifests

\* The tables, the claims, the leases and the recovery implement the lifecycle
\* promised to the owner: every transaction is one of its moves or invisible.
ImplementsLifecycle == Lifecycle!Spec

=============================================================================
