# TaskHarbor: TLA+ models, model checks and proofs

TaskHarbor queues image jobs in PostgreSQL. A Rust API accepts uploads, recurring
schedules, cancellations and retries; any number of Rust workers claim jobs,
process them under renewable leases and publish their outputs; a shared directory
holds the files. There is no coordinator: everything the processes agree on is a
row, a row lock, a clock comparison in SQL, or a file. That is where the hard
behaviour is, and what these modules are about.

Paths below are relative to the repository (`crates/...`, `apps/...`).

## 1. Inventory

| Component | State it keeps | Operations | Interacts through | Hard behaviour | What makes it correct |
|---|---|---|---|---|---|
| Job queue (`crates/adapters`: `postgres`, `lifecycle_repository`, `worker_repository`, `image_repository`) | `jobs`, `job_attempts`, output rows of `artifacts`, `workers` | create, claim, renew, progress, complete, fail, cancel, retry, reclaim, expire, register, heartbeat, stop | row locks, `SKIP LOCKED`, fencing predicates | stale workers, claim races, cancel against everything, lease expiry, attempt limits | one execution per job, gapless attempt history, whole manifests, final outcomes stay final, cancellation wins |
| Worker task (`apps/worker/src/lib.rs` 278-838) | position in the processing, renewal in flight, files of the attempt | process items, renew, check for cancellation, fenced writes, clean up | queue transactions, shared storage, encoder threads | a renewal beside a fenced write, unpolled futures, aborts, answers that are lost | published files stay, no leftovers of orderly ends, attempts are closed |
| Worker loop (`apps/worker/src/lib.rs` 126-276, 334-389) | task set, intervals, shutdown flag | reclaim, tick schedules, claim up to the limit, heartbeat, maintenance, drain | all of the above | one error ends the loop, inline maintenance delays heartbeats, drain deadline | concurrency limit, clean shutdown |
| Scheduler (`schedule_repository.rs`) | `schedules`, `schedule_occurrences` | create, edit, materialize the next due slot | clock reads in statements of their own, row lock per schedule | many schedulers, late ticks, edits beside ticks, slot arithmetic | no overlap, no slot twice, none lost, no drift |
| Storage maintenance (`maintenance_repository.rs`, `storage.rs`, `run_maintenance`) | files, references read at the start of a pass | expire outputs, remove unreferenced files | two reads of the database, then a walk of the directory | passes overlap with uploads, attempts and each other | referenced and active files stay, orphans go |
| Uploads (`apps/api/src/upload.rs`, `create_image_job`) | staged batch, guard, idempotency key | stage, look up key, count active jobs, insert, clean up | process mutex, advisory lock, unique index, storage usage | requests dropped at any await, ambiguous commits, double submits, limits read before the insert | one job per key and the right answer to every repetition, a committed job has its input, limits hold |
| Sessions (`auth_repository.rs`, `auth.rs`, `apps/api/src/main.rs`) | owner account, sessions, CSRF hashes, the browser's cookies | configure the owner, login, logout, rotate CSRF, expire, purge | rows, start and stop of the API process | a restart with other credentials beside logins in flight, answers that are lost | a session in use was opened with the owner's present credentials, the CSRF cookie can always be repaired |
| Rate limiter (`rate_limit.rs`) | attempts per key | check | mutex | time read before the lock | at most the limit per window, refusals are justified and their Retry-After is honest |
| HTTP transport, domain types, image codec, dashboard, deployment | none of their own | | | | not state machines |

`PROJECT.json` lists the hazards of this code one by one, each at its line with the
property that covers it.

## 2. Modules

`JobLifecycle` is the abstract specification: what the owner of a job is promised.
Seven states, at most `MaxAttempts` executions numbered without gaps, and a manifest
that appears whole and is removed whole. No workers, leases or locks.

`JobQueue` is the queue itself. One variable per column that decides something, one
action per transaction.
- A claim is two actions, `LockCandidate` (the `SKIP LOCKED` query, which runs before
  the worker's registration is looked at) and `ClaimNext` or `AbortClaim`. `claiming`
  is the row lock in between.
- A fenced write is `OpenWrite` (the first statement, which checks worker, token,
  state and lease at the start of the transaction) and its commit (`UpdateProgress`,
  `Complete`, `CompleteImageJob`, `RecordFailure`, `FinishCancelled`) or `Rollback`.
  `tx` is the lock in between. A lease that runs out in that interval does not stop
  the commit, because `CURRENT_TIMESTAMP` is the start of the transaction, but
  recovery steps over the locked row.
- A renewal is answered at once, or waits for the lock (`AwaitRowLock`) and looks at
  the row again afterwards (`RenewAfterWait`).
- Whoever holds a claim may try any fenced write, in any order and however late: the
  module makes no assumption on what a worker does with a claim.
- The claim token is the attempt: tokens are fresh random values, one per attempt.
- Clock comparisons are abstracted by outcome: a lease counts down from `LeaseTerm`,
  a heartbeat is fresh or lapsed, a job is due or not. The three actions under "time
  passes" may come at any moment.

`WorkerTask` puts the task of a claimed attempt on top of `JobQueue`. `pc` stands at
an await point of `process_images` and its helpers. The two branches of the `select!`
in `process_with_lease_renewal` share one thread of control (`Polled`): while the
handler of a renewal tick waits for the database the processing future is not polled.
An encoder thread and a COMMIT that was already sent go on regardless ("unlinked",
"sent"). `TaskDies` is a crash or an abort at the drain deadline; `DatabaseError` any
error that ends the task; `Sweep` the clean-up by a worker that recovered the attempt.

`Scheduler` models `schedule_repository.rs`. A tick is `BeginTick` (reads the clock),
`LockDueSchedule`, and `RecordOccurrence` or `DuplicateSlot`; an edit is `BeginEdit`
(reads the clock) and `UpdateSchedule`. The arithmetic (`LatestDueSlot`,
`NextSlotAfter`) is that of `latest_due_slot` and `next_slot_after` over integers.
A job is named by its slot and abstracted to waiting, working or ended. A manual retry
of a scheduled job carries no `schedule_id` in the code, so it is not one of them.

`Maintenance` models files, the rows that refer to them and the passes of
`run_maintenance`. A pass reads the references, then the running attempts, then walks;
`doomed` is what the walk will remove, settled when the cutoff is computed, because a
file written later is not old. `UploadWithinGrace` names the one assumption: an upload
request is accepted or refused well within the orphan grace period (one hour by
default). Nothing of the kind is assumed for attempts, which may run for as long as
their lease is renewed.

`WorkerLoop` is one worker process from `register_worker` to its return: `at` is what
`run_with_config`, `worker_loop` and `drain_tasks` do or await, `task` the `JoinSet`.
What an awaited statement does to the tables is in `JobQueue` and `Scheduler`; here is
what its success, its error or its delay leads to. Ended tasks that are not joined yet
count against the limit, the shutdown flag may be set during any await, and an error of
a task or of a heartbeat cuts a drain short.

`RateLimiter` models `check`: the instant is taken before the mutex (`TakeInstant`,
`Check`), so calls enter the deque out of order. `MaxWait` names the longest wait for
the mutex, which the properties allow for.

`Accounts` models the owner row, sessions and the browser's cookie jar through starts,
stops and kills of the API. A request stands before its next statement; one whose
process or connection is gone (`orphans`) may still see that statement take effect.

`ImageUploads` models one `create_image_job` request per identity, await by await, with
the guard, the storage snapshot, the lookup of the key before and under the advisory
lock, the count of active jobs and the insert. `DropSubmission` may drop the request at
any await: the guard is free again while a chunk (`LateChunk`) or a COMMIT
(`LateCommit`) is still on its way. Outputs of workers are there for the storage they
use, manual retries and schedules for the jobs they add without counting.

`MCJobQueue` and `MCWorkerTask` hold the values of the small instances. `MCServices`
puts `RateLimiter`, `Accounts`, `ImageUploads` and the edited `Scheduler` side by side
and `MCRounds` `WorkerLoop` and an unedited `Scheduler`: those parts share no state, so
an initial state picks one part and the others rest.

`Submissions` is the abstract specification of `POST /jobs` with an `Idempotency-Key`:
what the README of the repository promises a client that repeats a request. A request is
asked, and then accepted, answered as a repetition, refused, or lost. No guard, lookup,
advisory lock, file or transaction; an accepted request whose client is gone counts as
the first of its key.

`Recurrence` is the abstract specification of recurring schedules: a run and an edit are
single instants. A run needs an enabled schedule, takes a slot of the present plan that is
due and not before the next run, counts the slots in between, and makes a job unless one
of the schedule is live. No clock values in flight, no row locks, no crashes. It says
which slot a run may take, not that it is the latest one due: by the time a tick commits,
the clock may have gone past a further slot. How far the choice is bound by the tick's
own clock value is `LatestSlotOnly`.

The theorems are in `JobQueueProofs` (with the refinement of `JobLifecycle`),
`WorkerTaskProofs`, `SchedulerProofs` (with the refinement of `Recurrence`),
`RoundsProofs` (the worker loop and maintenance), `AccountsProofs`, `ImageUploadsProofs` (with the refinement of `Submissions`) and
`ServicesProofs` (the rate limiter, and the four parts of `MCServices` together). `Sums`
has the lemmas on sums over finite sets that the last two need.

```
JobLifecycle <- JobQueue <- WorkerTask            (refinement; extension)
Submissions  <- ImageUploads                      (refinement)
Recurrence   <- Scheduler                         (refinement)
Scheduler    Maintenance    WorkerLoop            (side by side, one per concern
RateLimiter  Accounts       ImageUploads           of a process)
```

Operators named `<Definition>_<Slip>` are variants of a definition with one plausible
bug. No specification uses them: substituting one must make the property listed with
it fail, which shows that the property says something about the code.

## 3. Runs

| Run | Instance | Question | Result |
|---|---|---|---|
| `attempts` | 1 image job, 1 worker, 3 attempts, 2 items, lease of 2 ticks | safety of the queue, final states, cancellation, refinement of `JobLifecycle` | holds, 347 thousand states |
| `claims` | 2 demo jobs, 2 workers, 1 attempt | claim races, retries | holds, 839 thousand states |
| `task_safety` | an image job of 2 items or a demo job, 2 attempts | files, leftovers, locks of tasks that are gone | holds, 790 thousand states |
| `task_liveness` | 1 image job, 2 items, 1 attempt, hung tasks restarted | attempts close, cancellations complete | holds |
| `services` | limiter: 2 callers, 2 keys, 2 attempts in a window of 3, a wait of 1; accounts: 1 session, 2 requests, 2 credentials, 2 starts; uploads: 2 requests, 1 key, bodies of 1 and 2 chunks, budget 3, 1 active job; schedules: 1 schedule, 2 schedulers, 1 editor, intervals 1 and 2, anchors 0 and 1, clock to 3 | window and refusals; sessions and CSRF; refinement of `Submissions`, inputs and limits; refinement of `Recurrence`, overlap, grid, history, the latest slot and its count | holds, 975 thousand states |
| `rounds` | loop: 3 task identities, limit 2; schedules: as in `services` without the editor | limit, drain; no slot twice, none lost or counted twice, due slots recorded | holds, 12 thousand states |
| `maintenance_passes` | 1 attempt, 1 upload, 2 workers, one of which is restarted | referenced and active files stay, orphans go | holds, 4552 states |
| `task_published`, `task_claimlost`, `task_hang`, `schedule_lateedit`, `maintenance_published` | smallest instance that shows it | see section 5 | violated |

Why the bounds are enough. The default of three attempts lets a late first attempt
meet its successor and its successor's successor; two items distinguish partial from
whole manifests and progress; a lease of two ticks lets a renewal come before, at and
after expiry. One worker identifier suffices in `attempts` because the fencing of the
model is per attempt: a late task and its successor are two actors even when they name
the same worker, and a worker that restarts the attempt itself is the harder case for
a predicate that also compares worker identifiers. Two workers are in `claims`, where
what matters is who holds the row. Slots are 1 or 2 ticks apart within 4 clock values:
enough for zero, one and three missed slots, for anchors before and after creation,
and for an edit that is late by any amount. `MCWorkerTask!OneJob` limits an instance
to one of the two kinds of job at a time; tasks of different jobs share no state but
the storage, where their directories differ. In `services` a window of 3 with a wait of
1 lets a later instant prune what an earlier call should have counted, and one tracked
key less than there are keys fills the table. One session and two starts are enough for
a login that straddles a change of the credentials; two requests for a rotation beside
another. Two uploads with one key, one of them dropped during its COMMIT, are every
case of a repetition, and a budget of 3 holds both bodies at once, so that a key meets
another body, and is exceeded with an output beside them. Three task identities are one more than the limit of the loop. Two overlapping
passes are what a pass can meet, since passes only share the files.

`claims` is checked up to the names of the workers, `services` up to the names of the
callers, the schedulers and the upload requests: no action tells one of them from
another, and the runs have no liveness property.

Deadlock is not checked (`CHECK_DEADLOCK FALSE`) where the system may rightly come to
rest: all identifiers used up in final states, a worker stopped for good, the clock at
its horizon.

## 4. Fairness

- `WorkerTask!TaskFairness`: the runtime keeps polling a ready future. Strong fairness
  for the processing, since renewal ticks intervene again and again and disable it for
  a moment; weak fairness for the answer to a renewal, for the passing of time and for
  recovery, which every worker's loop runs on each round. No fairness for a wait on a
  row lock, because the code configures neither `lock_timeout` nor `statement_timeout`
  and the pool's `acquire_timeout` does not apply.
- `RestartedTaskSpec` adds that a worker whose task waits for its own lock is
  eventually restarted. Nothing in the code does that, and `deploy/compose.yaml` sets no
  restart policy for the worker; it is an assumption on the environment, and the run
  shows that it is the only thing missing.
- `Scheduler!Fairness`: a worker that went down is restarted, and not every tick ends
  in a crash (strong fairness). The restart is an assumption on the environment here too.
- `Maintenance!MaintenanceFairness`: the maintenance interval comes round, files age, and
  the passes of a worker in `Steady` are not all cut short at the same point. The others
  may fail always: `OrphansGo` needs one worker that does not.
- `WorkerLoop!LoopFairness`: every await of the loop is answered, the deadline of the
  drain passes, and its timer, which stays ready while heartbeats come and go, is chosen
  in the end (strong fairness). Nothing is assumed of the tasks: `DrainEnds` holds if
  they never end.

## 5. What the violated runs show

1. `task_published` (`apps/worker/src/lib.rs:314`). A renewal waits for the row lock of
   the attempt's own publication. The publication commits, the renewal finds no running
   attempt and answers `ClaimLost`, and the successful result is replaced by that error:
   the task removes the files it has just published. A heartbeat that lapsed has the
   same effect. `PublishedOrDisowned` states what is left: a published file is only
   ever missing when a renewal told the task that it had lost its claim.
2. `task_hang` (`apps/worker/src/lib.rs:302`). The same renewal, when the fenced write
   has not sent its COMMIT yet, waits for a transaction whose future is not polled until
   the renewal returns. Recovery skips the locked row.
3. `task_claimlost` (`image_repository.rs:775`). `complete_image_job` answers
   `ClaimLost` to the owner of the attempt when a cancellation came in after the last
   check. The cancellation then waits for the lease to expire.
4. `schedule_lateedit` (`schedule_repository.rs:460`). An edit works with a clock value
   read before the last tick and sets the next run back to a recorded slot. Every tick
   then fails on the UNIQUE constraint and ends its worker's loop until the following
   slot is due.
5. `maintenance_published` (`apps/worker/src/lib.rs:456`). References are read before
   running attempts; an attempt that publishes in between is covered by neither.

## 6. Proofs

Every theorem is for all values of the constants, under the named assumptions
(`QueueAssumption`, `ScheduleAssumption`, ...) that TLC also evaluates on every run.

**The queue** (`JobQueueProofs`). `TypeCorrect`, `InvariantCorrect`
(`Spec => []QueueInvariant`) and its parts `ExecutionUnique`, `HistoryGapless`,
`ClaimsHaveAnAttempt`, `ManifestWhole`, `ProgressCurrent`, `LocksOnLiveRows`,
`RetryBesideSource`; the action properties `EndedStays` and `CancellationIsFinal`.
`QueueInvariant` is the conjunction of the safety properties with `AbsentIsFresh` (a
row that does not exist has left no trace). None of the parts is inductive alone. A
claim extends the history by an attempt, and only `AttemptHistory` (all earlier ones
failed) together with `OneExecution` (none is running) says that the result is again a
history; `AttemptLeft` depends on `AttemptHistory` because "fewer than the maximum"
must mean that the last number is unused; `ManifestIntegrity` needs `AttemptHistory` to
know that a publication meets an empty manifest, and `LocksGuardRows` to know that only
a publication ends an image job; `ProgressOfExecution` needs `OneExecution` to know
which attempt's progress a write changes. `LocksGuardRows` is the bridge between the two
halves of a transaction: what was true when the lock was taken still holds at the
commit. There is one lemma per action and conjunct it can disturb; the two action
properties follow from the same invariant.

**The refinement** (`JobQueueProofs`). `QueueImplementsLifecycle`:
`Spec => ImplementsLifecycle`. The mapping keeps the state of a job, which attempts
there were, and whether the manifest is there. Every action is shown to be one `Move` of
`JobLifecycle` or to leave the three mapped variables alone; what the lifecycle demands
of a move (no attempt beyond the limit, a manifest that appears whole, a cancellation
that was asked for is not overtaken) comes from `QueueInvariant` and from
`PublishesImages`, which says that the type of a job is still the one the publication
looked at when it took its locks.

**Tasks** (`WorkerTaskProofs`). `TasksUseTheQueue`: `TaskSpec => Spec`, so everything
above holds of the worker's tasks too; with the refinement it gives
`TasksImplementLifecycle`. `TaskInvCorrect`, and from it `TaskTypesCorrect`,
`PublicationsKept` (`PublishedOrDisowned`), `LocksHaveTasks` (`LockHasTask`) and
`TidyEnds` (`TidyEnd`). `TaskInv` adds to these `TaskOK`, which says of every position of
a task what it promises about files and progress: all finished items and, after the
encoder, the current one have their files; before a failure or a cancellation is
recorded the directory is empty; a closed attempt that succeeded has a task beyond its
last write. A COMMIT that is on its way counts as the write it stands for (`Stage`), and
what a position promises about files is only kept while the attempt runs, because a
recovery may sweep them under a late task. `PublishedOrDisowned` is not inductive
without it: the publication relies on what a dozen steps before it wrote. `OthersOK`
shows once that a step of one task leaves the promises of all others alone
(`LocalSuffices`), so that each action is looked at for its own attempt only.

**Schedules** (`SchedulerProofs`). `SchedulerTypeCorrect`, `OverlapFree`,
`HistoryCorrect`, `NoDrift`, `OnlyTheLatest` and the refinement with editors, and
`NoSlotTwice` and `NoSlotLost` (`Editors = {} => CursorAhead`, `EverySlotAccounted`)
without, since section 5 shows that they fail beside a late edit. `SchedulerInvariant`
adds two parts to the properties. `OneTickPerSchedule` says that a row has one lock, and
`TickRelies` that the clock value a tick or an edit works with is not ahead of the clock
and that the row a tick has locked exists, is enabled and was due. Together they say that
nobody moves a cursor under a tick, so that the slot the tick computes lies between the
cursor and the clock (`TickSlotBounds`, from `MissedSlotsBounds` on `latest_due_slot`);
without them not even the types are inductive. `NoDrift` needs the lemmas on the
arithmetic (`NextSlotAfterOnGrid`, `SlotsAdd`), which hold for all natural numbers; the
64-bit seconds of the code do not overflow within its limits on intervals and timestamps.

`OnlyTheLatest` compares the count a tick writes with the number of slots of the grid
from the cursor up to the slot it takes. `CountSlots` gives that number for any stretch of
a grid, by a bijection with the numbers of its slots, and `CursorOnGrid` makes the stretch
start on the grid. `NoSlotLost` says that the slots a row counts are the ones between it
and the row before, and that none of them has a row of its own. The second half needs
`CursorAhead`: what a tick passes over lies at or after the cursor, where nothing is
recorded. `Unedited` takes the two together.

`TicksImplementRecurrence`: `Spec => ImplementsRecurrence`. The mapping is the identity on
the columns of a schedule and its history and forgets what ticks and edits hold. The
COMMIT of a tick is a run (`RunShows`), with the count it writes as the number of slots
passed over; the UPDATE of an edit is an edit (`EditShows`), whose next run is the first
slot after an instant already past (`NextSlotAfterIsFirst`). Everything else is a job
that moves, time that passes, or a stutter. That a run is legal at its COMMIT although
its row was chosen before comes from `SchedulerInvariant`, and that its
slot has no row yet from the UNIQUE constraint.

**Maintenance** (`RoundsProofs`). `MaintenanceInvCorrect`, `MaintenanceTypeCorrect`,
`InputsStay`, `ActiveOutputsStay`. What a walk removes is settled before it starts, so
`MaintenanceInv` says at each statement of a pass which files it may have settled on: an
upload only if it ended without a row, an attempt only if it does not run any more.
`UploadWithinGrace` is where the assumption on uploads enters.

**The worker loop** (`RoundsProofs`). `LoopInvCorrect`, `TasksAreBounded`,
`DrainIsPatient`. The limit is not inductive: what makes a claim safe was read before the
claim was awaited. `LoopInv` says what is still true of it when the claim is answered.

**Sessions** (`AccountsProofs`). `AccountsInvCorrect`, `SessionsMatch`, `CsrfIsRepaired`.
`Shape` says that requests are only attended to in a process that does not change the
account any more and that orphans answer nobody, `LoginsCurrent` that a login attended to
was checked against the present account, and `NothingHeldEarly` that no browser holds a
session before its row exists: together they carry `SessionMatchesOwner` over a restart.
`AloneIsCurrent` does the same for the CSRF token between the comparison and the answer.

**Uploads** (`ImageUploadsProofs`). `UploadsInvCorrect`, `CommittedInputsStay`,
`AnswersAgree`. `KeyFree` is what the advisory lock keeps: while an insert is on its way
no other job or insert has its key. `Staged` says that a request beyond staging has all
of its files until it is over.

`SubmissionsAreServed`: `UploadsSpec => ImplementsSubmissions`. The mapping keeps the
jobs and what each client can tell of its request (`Replies`): nothing of its stage
beyond that it waits, and nothing any more once it is gone. The insert is the point at
which a request is accepted, by `CommitCreate` while the client waits or by `LateCommit`
when nobody does; `KeyFree` shows that it is the first of its key at that moment, and so
that the unique index never decides. A hit of either lookup is a repetition. What
`AnswersAgree` says of states (one job per key, the right body, the right refusal) is
part of what the lookups must have seen.

`LimitsAreKept` (`AdmissionLimits`) and `UploadsTypeCorrect` come from a second
inductive invariant, `AdmissionInv`. `GuardHeld` says that at most one request is under
the guard, and only that one's files and stage change there. `RoomKept` says that between the
count and the insert there is still room: jobs that were counted only appear under the
guard, and what appears elsewhere (`bypassing`, late commits) is not among them.
`StagingCounted` says that all staged and committed inputs do not exceed the snapshot of the
staging request plus its own chunks plus one chunk for each dropped request, which is
what makes a comparison with an old snapshot safe. One lemma (`RequestEffect`) sums up
what a step of a request may do to files, jobs and guard, so that the counting is done
once and not for every action.

**Sums** (`Sums`). The storage in use and the calls of a window are sums over sets, which
the models take from the community modules. The lemmas (`SumType`, `SumRemove`,
`SumOfEqual`, `SumOfChange`, `SumOfNaturals`, `SumOfZeros`) hold for every finite set.
They need an induction, and the library's induction theorems cannot be used; the proofs
take a smallest set for which the lemma fails instead, which exists because strict
inclusion of finite sets is well founded (`SmallestSubset`).

**The rate limiter** (`ServicesProofs`). `LimiterInvCorrect`, `LimiterTypeCorrect`,
`WindowIsLimited` (`WindowLimit`) and `RefusalsAreHonest` (`RefusalsHonest`). The limit
is not inductive, because a call sees only its key's deque and not what was admitted.
`AllCounted` relates the two: of any set of
instants that are recent (less than a window before the clock) the deque holds every
call that was let through, since nothing recent is ever pruned, and of no set does it
hold more. `DequesOrdered` says that an entry is ahead of a later one by no more than
`MaxWait`, which is what a call may have waited for the mutex (`CallsCurrent`), so that
pruning from the front stops at most that early. A window that is shorter by the wait is still recent when the last call of
it is let through, so the comparison of the deque's length with the limit bounds it; for
the full window of the code the limit fails. The same parts justify a refusal and its
Retry-After: the front of the deque that the answer is computed from has left the window
by then, and with it enough to make room.

**The parts together** (`ServicesProofs`). `PartsAlone`:
`ServicesSpec => LimiterSpec /\ AccountsSpec /\ UploadsSpec /\ Spec`. The instance of the
run `services` shows only behaviours of its parts, so that what TLC finds of it and what
is proved of the parts are about the same thing; `ServicesTypeCorrect` is
`ServicesTypeOK`, put together from the four.

Only model-checked: all liveness (`AttemptCloses`, `CancellationCompletes`,
`DueIsRecorded`, `DrainEnds`, `OrphansGo`), which is out of the prover's reach, as
fairness and ENABLED are. Every other property of a passing run is a theorem. The five
violated properties are, of course, not; `CursorAhead`, one of them, is a theorem where
no edit is in flight.

## 7. Not modelled, and why

- The dashboard, HTTP parsing and formatting, configuration, containers and scripts:
  they keep no state that the processes share.
- Image decoding and encoding: one file or one failure per item.
- Durations, messages, queue metrics: no condition of the code depends on them.
- Loss of the database or of committed data, and file system errors in the task's own
  clean-up (which are logged and leave an orphan, as `Maintenance` allows).
- Empty directories, which a walk may remove under an upload: the outcome is a request
  or an item that fails, which the modules allow anyway.
- Retention beside a task (`ExpireOutputArtifacts` is in `JobQueue` and `Maintenance`,
  not in `WorkerTask`): it removes rows before files and only those of terminal jobs, so
  it takes nothing a task still relies on.
- A COMMIT of `configure_owner` that lands after its process was killed and the next one
  has read the account: `Accounts` takes it to have landed or failed by then.
- `directory_usage` is one step, although it walks the tree beside writers: what it
  misses is bounded by what is being written, as `MaxWriters` already allows.
- A repetition of an idempotency key that the upload limiter or the storage budget
  refuses before the key is looked up, while README.md:171 promises the original job:
  the refusal is an ordinary one here, and the client may repeat it later.
- docs/progress.md:180 promises running tasks the grace period of a drain; `DrainPatience`
  states what the code keeps of it, with the errors that cut a drain short.
- A bound on all active jobs: manual retries and schedules add jobs without counting
  (`bypassing`), so the limit only decides whether an upload is accepted, and
  `AdmissionLimits` speaks of the jobs of uploads.
- Password hashing, cookie attributes, read-only lookups, the bodies of HTTP answers.

## 8. Plan

Done: everything in section 2, and as theorems every safety and action property that a
passing run checks. What a further step could add, in this order:

1. An abstract specification of sessions: login, logout and configuration as single steps.
2. `WorkerTask` composed with `WorkerLoop`: the error of one task, which ends the loop,
   as the cause of the others' aborts (at present an abort may come at any time, which
   allows more).
3. `CursorAhead` beside edits, if `update_schedule` comes to read the clock under the
   row lock.
