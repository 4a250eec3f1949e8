------------------------------ MODULE WorkerTask ------------------------------
(***************************************************************************)
(* apps/worker: the task that processes a claimed attempt, on top of the   *)
(* queue of JobQueue.  A task computes output files, reports progress and  *)
(* ends the attempt with fenced writes, while a select! loop renews the    *)
(* lease.  The two branches of the select! share one thread of control: as *)
(* long as the handler of a renewal tick waits for the database, the       *)
(* processing future is not polled.  What does not need polling goes on:   *)
(* the encoder thread and a COMMIT the server has already received.        *)
(*                                                                         *)
(* Tasks are named by their attempt.  The number of items a task has       *)
(* finished is the progress its attempt records, since every item ends     *)
(* with update_progress.  The heartbeat and the claims of the worker's     *)
(* loop are those of JobQueue.                                             *)
(***************************************************************************)
EXTENDS JobQueue

VARIABLES
  pc,        \* where the task stands: a member of Steps
  lost,      \* a renewal answered ClaimLost; there will be no further renewal
  files,     \* output files on the shared storage: <<job, attempt, item>>
  sweeps     \* reclaimed attempts whose directory the recovering worker has yet to remove

taskVars == <<pc, lost, files, sweeps>>
allVars == <<vars, taskVars>>

-----------------------------------------------------------------------------
\* A task is at the name of what it does next; "sent" is a COMMIT the server has
\* received, "unlinked" a task gone while its encoder thread goes on.
Checks == {"check", "recheck", "final", "conflict"}
Encoding == {"encode", "encoded", "faulted"}
Returning == {"ok", "lost"}
Gone == {"none", "unlinked", "ended", "error", "dead"}
Steps == Checks \cup Encoding \cup FencedWrites \cup Returning \cup Gone \cup {"sleep", "sent"}

TaskTypeOK ==
  /\ pc \in [Jobs -> [AttemptNumbers -> Steps]]
  /\ lost \in [Jobs -> [AttemptNumbers -> BOOLEAN]]
  /\ files \subseteq Jobs \X AttemptNumbers \X Items
  /\ sweeps \subseteq Jobs \X AttemptNumbers

At(j, n, step) == pc[j][n] = step
Goto(j, n, step) == pc' = [pc EXCEPT ![j][n] = step]

\* The processing future can run: it exists, and the select! is not held up by a
\* renewal that waits for a row lock.
Polled(j, n) == pc[j][n] \notin Gone \cup {"sent"} /\ ~renewing[j][n]

\* A fenced write of this task is open: only the running attempt's can be.
InWrite(j, n) == pc[j][n] \in FencedWrites /\ tx[j] = pc[j][n] /\ attState[j][n] = "running"

\* A directory per job instead of one per attempt.
Tree_OfJob(j, n) == {j} \X AttemptNumbers \X Items

\* The directory outputs/<job>/<attempt>.
Tree(j, n) == {j} \X {n} \X Items

-----------------------------------------------------------------------------
\* The loop spawns a task for what claim_next returned.
ClaimAndSpawn(w, j, n) ==
  /\ ClaimNext(w, j, n)
  /\ Goto(j, n, IF j \in ImageJobs THEN "check" ELSE "sleep")
  /\ UNCHANGED <<lost, files, sweeps>>

\* A demo job only waits.
Sleep(j, n) ==
  /\ Polled(j, n)
  /\ At(j, n, "sleep")
  /\ Goto(j, n, "final")
  /\ UNCHANGED <<vars, lost, files, sweeps>>

\* Where a task goes on when no cancellation is asked for.  A StateConflict that
\* no cancellation explains is an error.
Continuation(j, step) ==
  CASE step = "check" -> "encode"
    [] step = "recheck" -> "progress"
    [] step = "final" -> IF j \in ImageJobs THEN "publish" ELSE "complete"
    [] step = "conflict" -> "error"

\* finish_if_cancel_requested up to finish_cancelled: one SELECT, and the removal
\* of the attempt's files when it finds the request.
CheckCancel(j, n) ==
  /\ Polled(j, n)
  /\ pc[j][n] \in Checks
  /\ \/ /\ ~Owns(j, n)
        /\ Goto(j, n, "lost")
        /\ UNCHANGED files
     \/ /\ Owns(j, n) /\ jobState[j] = "cancel_requested"
        /\ Goto(j, n, "cancel")
        /\ files' = files \ Tree(j, n)
     \/ /\ Owns(j, n) /\ jobState[j] # "cancel_requested"
        /\ Goto(j, n, Continuation(j, pc[j][n]))
        /\ UNCHANGED files
  /\ UNCHANGED <<vars, lost, sweeps>>

\* The item is counted twice.
Encode_NextItem(j, n) ==
  /\ At(j, n, "encode")
  /\ Goto(j, n, "encoded")
  /\ files' = files \cup {<<j, n, attProgress[j][n] + 2>>}
  /\ UNCHANGED <<vars, lost, sweeps>>

\* The encoder runs in a thread of its own, to its end whatever becomes of the
\* task: it writes the file of the current item or fails.
Encode(j, n) ==
  /\ \/ /\ At(j, n, "encode")
        /\ \/ Goto(j, n, "encoded") /\ files' = files \cup {<<j, n, attProgress[j][n] + 1>>}
           \/ Goto(j, n, "faulted") /\ UNCHANGED files
     \/ /\ At(j, n, "unlinked")
        /\ Goto(j, n, "dead")
        /\ files' = files \cup {<<j, n, attProgress[j][n] + 1>>} \/ UNCHANGED files
  /\ UNCHANGED <<vars, lost, sweeps>>

\* record_encoding_duration is fenced too.  A failed item, or storage that is full
\* or cannot be measured, removes the attempt's files before the failure is recorded.
RecordEncoding(j, n) ==
  /\ Polled(j, n)
  /\ pc[j][n] \in {"encoded", "faulted"}
  /\ \/ ~Owns(j, n) /\ Goto(j, n, "lost") /\ UNCHANGED files
     \/ Owns(j, n) /\ At(j, n, "encoded") /\ Goto(j, n, "recheck") /\ UNCHANGED files
     \/ Owns(j, n) /\ Goto(j, n, "fail") /\ files' = files \ Tree(j, n)
  /\ UNCHANGED <<vars, lost, sweeps>>

-----------------------------------------------------------------------------
\* Fenced writes: open, job row, commit.

BeginWrite(j, n, op) ==
  /\ Polled(j, n)
  /\ At(j, n, op)
  /\ OpenWrite(j, n, op)
  /\ UNCHANGED taskVars

\* The first statement finds no row.  For lock_active_claim that includes a job
\* that is merely asked to stop.
WriteRefused(j, n) ==
  /\ Polled(j, n)
  /\ pc[j][n] \in FencedWrites
  /\ ~InWrite(j, n)
  /\ \/ ~Owns(j, n)
     \/ At(j, n, "publish") /\ jobState[j] # "running"
  /\ Goto(j, n, "lost")
  /\ UNCHANGED <<vars, lost, files, sweeps>>

\* The job row an open write is going to change is in the state it expects.
JobAgrees(j, n) ==
  jobState[j] = IF At(j, n, "cancel") THEN "cancel_requested" ELSE "running"

\* StateConflict: the task rolls back and asks whether it was cancelled.
WriteConflicts(j, n) ==
  /\ Polled(j, n)
  /\ InWrite(j, n)
  /\ ~JobAgrees(j, n)
  /\ Rollback(j)
  /\ Goto(j, n, IF At(j, n, "cancel") THEN "error" ELSE "conflict")
  /\ UNCHANGED <<lost, files, sweeps>>

\* From here on the server needs nothing more from the task.
SendCommit(j, n) ==
  /\ Polled(j, n)
  /\ InWrite(j, n)
  /\ JobAgrees(j, n)
  /\ Goto(j, n, "sent")
  /\ UNCHANGED <<vars, lost, files, sweeps>>

\* The transaction takes effect; its answer reaches the task unless the connection
\* breaks.
ServerCommits(j, n) ==
  /\ At(j, n, "sent")
  /\ \/ /\ UpdateProgress(j, n, attProgress[j][n] + 1)
        /\ \/ attProgress[j][n] + 1 < ItemCount /\ Goto(j, n, "check")
           \/ attProgress[j][n] + 1 = ItemCount /\ Goto(j, n, "final")
           \/ Goto(j, n, "error")
     \/ /\ \/ Complete(j, n)
           \/ CompleteImageJob(j, n)
           \/ \E transient \in BOOLEAN : RecordFailure(j, n, transient)
           \/ FinishCancelled(j, n)
        /\ Goto(j, n, "ok") \/ Goto(j, n, "error")
  /\ UNCHANGED <<lost, files, sweeps>>

\* A statement of the task fails for another reason: an open transaction is rolled
\* back, the error ends the task, and with it the worker's loop.
DatabaseError(j, n) ==
  /\ \/ Polled(j, n) /\ pc[j][n] \notin {"sleep", "encode", "ok", "lost"}
     \/ At(j, n, "sent")
  /\ Goto(j, n, "error")
  /\ \/ (InWrite(j, n) \/ At(j, n, "sent")) /\ Rollback(j)
     \/ ~InWrite(j, n) /\ ~At(j, n, "sent") /\ UNCHANGED vars
  /\ UNCHANGED <<lost, files, sweeps>>

-----------------------------------------------------------------------------
\* Lease renewal.

\* A tick of the renewal interval, in the handler of the select!.  The statement is
\* answered at once, unless the row is locked by a fenced write, which can only be
\* one of this task.  Any error but ClaimLost is logged and the next tick tries again.
TickRenewal(j, n) ==
  /\ pc[j][n] \notin Gone
  /\ ~renewing[j][n] /\ ~lost[j][n]
  /\ \/ RenewLease(j, n) /\ UNCHANGED lost
     \/ AwaitRowLock(j, n) /\ UNCHANGED lost
     \/ ~Renewable(j, n) /\ lost' = [lost EXCEPT ![j][n] = TRUE] /\ UNCHANGED vars
  /\ UNCHANGED <<pc, files, sweeps>>

\* The lock is released and the waiting statement answers.
AnswerRenewal(j, n) ==
  /\ RenewAfterWait(j, n)
  /\ lost' = [lost EXCEPT ![j][n] = @ \/ (attState[j][n] # "running" /\ pc[j][n] \notin Gone)]
  /\ UNCHANGED <<pc, files, sweeps>>

RenewalFails(j, n) ==
  /\ AbandonRenewal(j, n)
  /\ UNCHANGED taskVars

\* The task ends without looking at its result.
FinishTask_NoCleanup(j, n) ==
  /\ Polled(j, n)
  /\ pc[j][n] \in Returning
  /\ Goto(j, n, "ended")
  /\ UNCHANGED <<vars, lost, files, sweeps>>

\* finish_claimed_result: ClaimLost, from the processing or from a renewal beside a
\* processing that went well, discards the attempt's files.
FinishTask(j, n) ==
  /\ Polled(j, n)
  /\ pc[j][n] \in Returning
  /\ files' = IF At(j, n, "lost") \/ lost[j][n] THEN files \ Tree(j, n) ELSE files
  /\ Goto(j, n, "ended")
  /\ UNCHANGED <<vars, lost, sweeps>>

-----------------------------------------------------------------------------
\* The worker goes away, and its tasks with it.

\* An aborted task keeps its transaction open.
TaskDies_Holding(j, n) ==
  /\ pc[j][n] \notin Gone
  /\ Goto(j, n, "dead")
  /\ UNCHANGED <<vars, lost, files, sweeps>>

\* The process dies, or the drain deadline aborts the task.  A transaction that
\* is open is rolled back, a COMMIT already sent is answered to nobody.  An encoder
\* thread survives an abort.
TaskDies(j, n) ==
  /\ pc[j][n] \notin Gone
  /\ \/ Goto(j, n, "dead")
     \/ At(j, n, "encode") /\ Goto(j, n, "unlinked")
  /\ \/ ~InWrite(j, n) /\ ~At(j, n, "sent") /\ UNCHANGED vars
     \/ (InWrite(j, n) \/ At(j, n, "sent")) /\ Rollback(j)
     \/ /\ At(j, n, "sent")
        /\ \/ UpdateProgress(j, n, attProgress[j][n] + 1)
           \/ Complete(j, n)
           \/ CompleteImageJob(j, n)
           \/ \E transient \in BOOLEAN : RecordFailure(j, n, transient)
           \/ FinishCancelled(j, n)
  /\ UNCHANGED <<lost, files, sweeps>>

\* The loop stops its worker after its tasks have ended, or without waiting for
\* them after one of them returned an error.
StopAfterTasks(w) ==
  /\ StopWorker(w)
  /\ LET mine == {a \in Jobs \X AttemptNumbers : owner[a[1]][a[2]] = w}
     IN  \/ \A a \in mine : pc[a[1]][a[2]] \in Gone
         \/ \E a \in mine : At(a[1], a[2], "error")
  /\ UNCHANGED taskVars

\* Any worker: recovery first, the directory of the attempt afterwards.
Reclaim(j, n) ==
  /\ ReclaimNextExpiredAttempt(j, n)
  /\ sweeps' = sweeps \cup {<<j, n>>}
  /\ UNCHANGED <<pc, lost, files>>

\* remove_tree, unless the recovering worker dies first.
Sweep(j, n) ==
  /\ <<j, n>> \in sweeps
  /\ sweeps' = sweeps \ {<<j, n>>}
  /\ files' = files \ Tree(j, n) \/ UNCHANGED files
  /\ UNCHANGED <<vars, pc, lost>>

\* The row of a job is locked from its update to the end of the COMMIT.
Cancel(j) ==
  /\ RequestCancel(j)
  /\ \A n \in AttemptNumbers : ~At(j, n, "sent")
  /\ UNCHANGED taskVars

-----------------------------------------------------------------------------
TaskInit ==
  /\ Init
  /\ pc = [j \in Jobs |-> [n \in AttemptNumbers |-> "none"]]
  /\ lost = [j \in Jobs |-> [n \in AttemptNumbers |-> FALSE]]
  /\ files = {}
  /\ sweeps = {}

\* Steps of the processing future while it is polled, with the encoder thread and
\* the server's commits it waits for.
Process(j, n) ==
  \/ Sleep(j, n)
  \/ CheckCancel(j, n)
  \/ Encode(j, n)
  \/ RecordEncoding(j, n)
  \/ \E op \in FencedWrites : BeginWrite(j, n, op)
  \/ WriteRefused(j, n)
  \/ WriteConflicts(j, n)
  \/ SendCommit(j, n)
  \/ ServerCommits(j, n)
  \/ FinishTask(j, n)

TaskStep(j, n) ==
  \/ Process(j, n)
  \/ DatabaseError(j, n)
  \/ TickRenewal(j, n)
  \/ AnswerRenewal(j, n)
  \/ RenewalFails(j, n)
  \/ TaskDies(j, n)
  \/ Reclaim(j, n)
  \/ Sweep(j, n)
  \/ \E w \in Workers : ClaimAndSpawn(w, j, n)

\* The rest of the queue's environment, none of it a step of a task.
QueueStep ==
  /\ \/ \E j \in Jobs, now \in BOOLEAN : CreateJob(j, now)
     \/ \E j, k \in Jobs : ManualRetry(j, k)
     \/ \E w \in Workers :
          RegisterWorker(w) \/ HeartbeatWorker(w) \/ AbortClaim(w) \/ \E j \in Jobs : LockCandidate(w, j)
     \/ TimeStep
  /\ UNCHANGED taskVars

TaskNext ==
  \/ \E j \in Jobs, n \in AttemptNumbers : TaskStep(j, n)
  \/ \E j \in Jobs : Cancel(j)
  \/ \E w \in Workers : StopAfterTasks(w)
  \/ QueueStep

TaskSpec == TaskInit /\ [][TaskNext]_allVars

-----------------------------------------------------------------------------
\* Fairness: the runtime polls a task whose future is ready again and again, even
\* if renewal ticks come in between (SF); the server answers a renewal it can
\* answer; time passes; a worker's loop looks for expired attempts.  Nothing ends
\* a wait for a row lock: no lock or statement timeout is configured.
TaskFairness ==
  \A j \in Jobs, n \in AttemptNumbers :
    /\ SF_allVars(Process(j, n))
    /\ WF_allVars(AnswerRenewal(j, n))
    /\ WF_allVars(Reclaim(j, n))
    /\ WF_allVars(LeaseTick(j, n) /\ UNCHANGED taskVars)

FairTaskSpec == TaskSpec /\ TaskFairness

\* An operator who restarts a worker whose task waits for itself.
RestartedTaskSpec ==
  FairTaskSpec /\ \A j \in Jobs, n \in AttemptNumbers :
                   WF_allVars(TaskDies(j, n) /\ renewing[j][n] /\ InWrite(j, n))

-----------------------------------------------------------------------------
\* Safety.

\* The file of a published row is there, whatever recovery, cancellation, late
\* encoder threads and crashes did, unless a renewal told the task that it had
\* lost its claim.
PublishedOrDisowned ==
  \A j \in Jobs : \A o \in outputs[j] : <<j, o[1], o[2]>> \in files \/ lost[j][o[1]]

\* The file of a published row is there.  "Attempt-specific paths make stale
\* cleanup possible without deleting a valid result."
PublishedFilesKept ==
  \A j \in Jobs : \A o \in outputs[j] : <<j, o[1], o[2]>> \in files

\* A task that ends by itself leaves files behind only if its attempt succeeded:
\* what stays for the maintenance are the files of tasks that died or erred.
TidyEnd ==
  \A j \in Jobs, n \in AttemptNumbers :
    At(j, n, "ended") /\ attState[j][n] # "succeeded" => files \cap Tree(j, n) = {}

\* The fenced write open on a job is that of a task still there to end it: the
\* row lock of a task that is gone never keeps recovery away.
LockHasTask ==
  \A j \in Jobs : tx[j] # "none" =>
    \E n \in AttemptNumbers : attState[j][n] = "running" /\ (InWrite(j, n) \/ At(j, n, "sent"))

\* ClaimLost is only answered to a task that no longer owns its attempt.
NoSpuriousLoss ==
  [][\A j \in Jobs, n \in AttemptNumbers :
       pc'[j][n] = "lost" /\ pc[j][n] # "lost" => ~Owns(j, n)]_allVars

-----------------------------------------------------------------------------
\* Liveness.

\* Every running attempt is closed, by its task or by a recovery.
AttemptCloses ==
  \A j \in Jobs, n \in AttemptNumbers : attState[j][n] = "running" ~> attState[j][n] # "running"

\* Every cancellation takes effect.
CancellationCompletes ==
  \A j \in Jobs : jobState[j] = "cancel_requested" ~> jobState[j] = "cancelled"

=============================================================================
