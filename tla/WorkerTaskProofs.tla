--------------------------- MODULE WorkerTaskProofs ---------------------------
(***************************************************************************)
(* Proofs about WorkerTask, for any jobs, workers, attempts, items and     *)
(* lease: tasks use the queue as JobQueue specifies it, a row lock has a   *)
(* task that will release it, a task that ends by itself leaves no files   *)
(* of an attempt that failed, and a published file stays unless a renewal  *)
(* told its task that the claim was lost.                                  *)
(*                                                                         *)
(* TaskOK says for every task what its position promises about its files   *)
(* and its progress.  A COMMIT that has been sent counts as the write it   *)
(* is for.  What a position promises about files ends with the attempt: a  *)
(* recovery may remove them under a task that does not know it yet.        *)
(***************************************************************************)
EXTENDS WorkerTask, JobQueueProofs

USE DEF JobStates, AttemptStates, Claimable, Active, Terminal, FencedWrites

-----------------------------------------------------------------------------
\* Where a task stands, a COMMIT on its way standing for the write it commits.
Stage(j, n) == IF pc[j][n] = "sent" THEN tx[j] ELSE pc[j][n]

\* Positions of a task in the middle of an item, before its progress is committed.
InItem == {"check", "encode", "encoded", "faulted", "recheck", "progress"}

\* Positions at which the file of the current item has been written.
ItemWritten == {"encoded", "recheck", "progress"}

\* Positions at which all items of an image job are done.
AllDone == {"final", "publish"}

Discarded(j, n) == \A i \in Items : <<j, n, i>> \notin files

\* What the position of the task of attempt n of job j promises.
TaskOK(j, n) ==
  /\ pc[j][n] = "sent" => attState[j][n] = "running" /\ tx[j] # "none"
  /\ Stage(j, n) \in InItem \cup {"publish", "unlinked"} => j \in ImageJobs
  /\ Stage(j, n) = "sleep" => j \notin ImageJobs
  /\ Stage(j, n) \in InItem \cup {"unlinked"} => attProgress[j][n] < ItemCount
  /\ Stage(j, n) \in AllDone /\ j \in ImageJobs => attProgress[j][n] = ItemCount
  /\ Stage(j, n) \in InItem \cup AllDone /\ attState[j][n] = "running" =>
       \A i \in Items : j \in ImageJobs /\ i <= attProgress[j][n] => <<j, n, i>> \in files
  /\ Stage(j, n) \in ItemWritten /\ attState[j][n] = "running" => <<j, n, attProgress[j][n] + 1>> \in files
  /\ Stage(j, n) \in {"fail", "cancel"} => Discarded(j, n)
  /\ Stage(j, n) \in {"ok", "ended"} => attState[j][n] = "succeeded" \/ Discarded(j, n)
  /\ attState[j][n] = "succeeded" => pc[j][n] \in {"ok", "error", "ended", "dead"}
  /\ <<j, n>> \in sweeps => attState[j][n] \in {"failed", "cancelled"}

TaskInv ==
  /\ QueueInvariant
  /\ TaskTypeOK
  /\ LockHasTask
  /\ \A j \in Jobs, n \in AttemptNumbers : TaskOK(j, n)
  /\ PublishedOrDisowned

-----------------------------------------------------------------------------
(***************************************************************************)
(* Tasks use the queue as it is specified.                                 *)
(***************************************************************************)

\* The end of a fenced write, by its task or by nobody any more.
ServerEnds(j, n) ==
  \/ UpdateProgress(j, n, attProgress[j][n] + 1)
  \/ Complete(j, n)
  \/ CompleteImageJob(j, n)
  \/ \E transient \in BOOLEAN : RecordFailure(j, n, transient)
  \/ FinishCancelled(j, n)

\* A COMMIT that takes effect is one of the queue's: an item is only counted while
\* there is one left.
LEMMA CommitIsQueueStep ==
  ASSUME TaskInv, NEW j \in Jobs, NEW n \in AttemptNumbers, At(j, n, "sent"), ServerEnds(j, n)
  PROVE  HolderStep
<1>1. CASE UpdateProgress(j, n, attProgress[j][n] + 1)
  <2>1. Stage(j, n) = "progress"
    BY <1>1 DEF At, Stage, UpdateProgress, Commit
  <2>2. attProgress[j][n] < ItemCount
    BY <2>1 DEF TaskInv, TaskOK, InItem
  <2>3. attProgress[j][n] \in 0..ItemCount
    BY DEF TaskInv, QueueInvariant, TypeOK
  <2>4. attProgress[j][n] + 1 \in 0..ItemCount
    BY <2>2, <2>3, QueueAssumption
  <2> QED BY <1>1, <2>4 DEF HolderStep
<1>2. CASE \/ Complete(j, n)
           \/ CompleteImageJob(j, n)
           \/ \E transient \in BOOLEAN : RecordFailure(j, n, transient)
           \/ FinishCancelled(j, n)
  BY <1>2 DEF HolderStep
<1> QED BY <1>1, <1>2 DEF ServerEnds

\* Whatever a task does is a step of the queue or leaves its tables alone.
LEMMA TaskStepOfQueue ==
  ASSUME TaskInv, NEW j \in Jobs, NEW n \in AttemptNumbers, TaskStep(j, n)
  PROVE  Next \/ UNCHANGED vars
<1>1. CASE \E w \in Workers : ClaimAndSpawn(w, j, n)
  BY <1>1 DEF ClaimAndSpawn, WorkerStep, Next
<1>2. CASE Sleep(j, n) \/ CheckCancel(j, n) \/ Encode(j, n) \/ RecordEncoding(j, n) \/ FinishTask(j, n)
  BY <1>2 DEF Sleep, CheckCancel, Encode, RecordEncoding, FinishTask
<1>3. CASE WriteRefused(j, n) \/ SendCommit(j, n) \/ Sweep(j, n)
  BY <1>3 DEF WriteRefused, SendCommit, Sweep
<1>4. CASE \/ \E op \in FencedWrites : BeginWrite(j, n, op)
           \/ WriteConflicts(j, n)
  BY <1>4 DEF BeginWrite, WriteConflicts, HolderStep, Next
<1>5. CASE ServerCommits(j, n)
  BY <1>5, CommitIsQueueStep DEF ServerCommits, ServerEnds, Next
<1>6. CASE DatabaseError(j, n)
  BY <1>6 DEF DatabaseError, HolderStep, Next
<1>7. CASE TickRenewal(j, n) \/ AnswerRenewal(j, n) \/ RenewalFails(j, n)
  BY <1>7 DEF TickRenewal, AnswerRenewal, RenewalFails, HolderStep, Next
<1>8. CASE TaskDies(j, n)
  BY <1>8, CommitIsQueueStep DEF TaskDies, ServerEnds, HolderStep, Next
<1>9. CASE Reclaim(j, n)
  BY <1>9 DEF Reclaim, RecoveryStep, Next
<1> QED BY <1>1, <1>2, <1>3, <1>4, <1>5, <1>6, <1>7, <1>8, <1>9 DEF TaskStep, Process

\* So is whatever the rest of the system does.
LEMMA StepOfQueue == TaskInv /\ [TaskNext]_allVars => [Next]_vars
<1> SUFFICES ASSUME TaskInv, [TaskNext]_allVars PROVE [Next]_vars
  OBVIOUS
<1>1. CASE \E j \in Jobs, n \in AttemptNumbers : TaskStep(j, n)
  BY <1>1, TaskStepOfQueue
<1>2. CASE (\E j \in Jobs : Cancel(j)) \/ (\E w \in Workers : StopAfterTasks(w))
  BY <1>2 DEF Cancel, StopAfterTasks, ClientStep, WorkerStep, Next
<1>3. CASE QueueStep
  BY <1>3 DEF QueueStep, ClientStep, WorkerStep, Next
<1>4. CASE UNCHANGED allVars
  BY <1>4 DEF allVars
<1> QED BY <1>1, <1>2, <1>3, <1>4 DEF TaskNext

-----------------------------------------------------------------------------
(***************************************************************************)
(* A step of one task, seen from the others.                               *)
(***************************************************************************)

\* The task that will end the fenced write open on its job.
WriteHeld(j, n) == attState[j][n] = "running" /\ (InWrite(j, n) \/ At(j, n, "sent"))

\* The step only concerns attempt n of job j: rows, files and position of the others
\* stay, and a row lock is taken when it is free or changed by its holder.
Only(j, n) ==
  /\ \A k \in Jobs, m \in AttemptNumbers : k # j \/ m # n =>
       /\ pc'[k][m] = pc[k][m]
       /\ lost'[k][m] = lost[k][m]
       /\ attState'[k][m] = attState[k][m]
       /\ attProgress'[k][m] = attProgress[k][m]
       /\ <<k, m>> \in sweeps' => <<k, m>> \in sweeps
       /\ \A i \in Items : <<k, m, i>> \in files' <=> <<k, m, i>> \in files
       /\ \A i \in Items : <<m, i>> \in outputs'[k] => <<m, i>> \in outputs[k]
  /\ \A k \in Jobs : k # j => tx'[k] = tx[k]
  /\ tx'[j] # tx[j] => tx[j] = "none" \/ attState[j][n] = "running"

\* A row lock that is open after the step has a task.
KeepsLock(j, n) ==
  tx'[j] # "none" => WriteHeld(j, n)' \/ (tx'[j] = tx[j] /\ ~WriteHeld(j, n))

\* A published row of the attempt has its file, or the task has been told.
KeepsPublished(j, n) ==
  \A i \in Items : <<n, i>> \in outputs'[j] => <<j, n, i>> \in files' \/ lost'[j][n]

\* The lock of a sent COMMIT or of an open write belongs to the one running attempt.
LEMMA LockOfOther ==
  ASSUME TaskInv, NEW j \in Jobs, NEW n \in AttemptNumbers, NEW m \in AttemptNumbers, m # n,
         Only(j, n), attState[j][m] = "running", tx[j] # "none"
  PROVE  tx'[j] = tx[j]
<1>1. attState[j][n] # "running"
  BY OnlyOneRuns DEF TaskInv, QueueInvariant
<1> QED BY <1>1 DEF Only

\* What a position promises only depends on what the step leaves alone.
LEMMA OthersOK ==
  ASSUME TaskInv, NEW j \in Jobs, NEW n \in AttemptNumbers, Only(j, n),
         NEW k \in Jobs, NEW m \in AttemptNumbers, k # j \/ m # n
  PROVE  TaskOK(k, m)'
<1>1. TaskOK(k, m)
  BY DEF TaskInv
<1>2. /\ pc'[k][m] = pc[k][m] /\ attState'[k][m] = attState[k][m]
      /\ attProgress'[k][m] = attProgress[k][m]
      /\ <<k, m>> \in sweeps' => <<k, m>> \in sweeps
      /\ \A i \in Items : <<k, m, i>> \in files' <=> <<k, m, i>> \in files
  BY DEF Only
<1>3. pc[k][m] = "sent" => tx'[k] = tx[k]
  <2>1. CASE k # j
    BY <2>1 DEF Only
  <2>2. CASE k = j
    BY <1>1, <2>2, LockOfOther DEF TaskOK
  <2> QED BY <2>1, <2>2
<1>4. Stage(k, m)' = Stage(k, m)
  BY <1>2, <1>3 DEF Stage
<1>5. Discarded(k, m) => Discarded(k, m)'
  BY <1>2 DEF Discarded
<1>6. Stage(k, m) \in ItemWritten => attProgress[k][m] + 1 \in Items
  <2>1. attProgress[k][m] \in 0..ItemCount
    BY DEF TaskInv, QueueInvariant, TypeOK
  <2> QED BY <1>1, <2>1, QueueAssumption DEF TaskOK, InItem, ItemWritten, Items
<1> QED BY <1>1, <1>2, <1>3, <1>4, <1>5, <1>6 DEF TaskOK

\* So a step keeps the invariant if it keeps it for its own task.
LEMMA LocalSuffices ==
  ASSUME TaskInv, QueueInvariant', TaskTypeOK', NEW j \in Jobs, NEW n \in AttemptNumbers,
         Only(j, n), TaskOK(j, n)', KeepsLock(j, n), KeepsPublished(j, n)
  PROVE  TaskInv'
<1>1. \A k \in Jobs, m \in AttemptNumbers : TaskOK(k, m)'
  BY OthersOK
<1>2. LockHasTask'
  <2> SUFFICES ASSUME NEW k \in Jobs, tx'[k] # "none"
               PROVE  \E m \in AttemptNumbers : WriteHeld(k, m)'
    BY DEF LockHasTask, WriteHeld
  <2>1. ASSUME tx'[k] = tx[k], NEW m \in AttemptNumbers, k # j \/ m # n, WriteHeld(k, m)
        PROVE  WriteHeld(k, m)'
    BY <2>1 DEF WriteHeld, InWrite, At, Only
  <2>2. tx[k] # "none" => \E m \in AttemptNumbers : WriteHeld(k, m)
    BY DEF TaskInv, LockHasTask, WriteHeld
  <2>3. CASE k # j
    BY <2>1, <2>2, <2>3 DEF Only
  <2>4. CASE k = j
    BY <2>1, <2>2, <2>4 DEF KeepsLock
  <2> QED BY <2>3, <2>4
<1>3. PublishedOrDisowned'
  <2> SUFFICES ASSUME NEW k \in Jobs, NEW o \in outputs'[k]
               PROVE  <<k, o[1], o[2]>> \in files' \/ lost'[k][o[1]]
    BY DEF PublishedOrDisowned
  <2>1. outputs'[k] \subseteq AttemptNumbers \X Items
    BY DEF QueueInvariant, TypeOK
  <2>2. PICK m \in AttemptNumbers, i \in Items : o = <<m, i>>
    BY <2>1
  <2>3. CASE k = j /\ m = n
    BY <2>2, <2>3 DEF KeepsPublished
  <2>4. CASE k # j \/ m # n
    <3>1. <<m, i>> \in outputs[k]
      BY <2>2, <2>4 DEF Only
    <3>2. <<k, m, i>> \in files \/ lost[k][m]
      BY <3>1 DEF TaskInv, PublishedOrDisowned
    <3> QED BY <2>2, <2>4, <3>2 DEF Only
  <2> QED BY <2>3, <2>4
<1> QED BY <1>1, <1>2, <1>3 DEF TaskInv

-----------------------------------------------------------------------------
(***************************************************************************)
(* Steps that leave the tables alone.                                      *)
(***************************************************************************)

\* Only the outputs of an attempt that succeeded have rows.
LEMMA PublishedSucceeded ==
  ASSUME QueueInvariant, NEW j \in Jobs, NEW n \in AttemptNumbers, NEW i \in Items, <<n, i>> \in outputs[j]
  PROVE  attState[j][n] = "succeeded"
<1>1. PICK m \in AttemptNumbers : attState[j][m] = "succeeded" /\ outputs[j] = {m} \X Items
  BY DEF QueueInvariant, ManifestIntegrity
<1>2. m = n
  BY <1>1
<1> QED BY <1>1, <1>2

\* What one attempt's file operations are: none, its directory is removed, or the file
\* of its current item is written.
FilesOf(j, n) ==
  \/ files' = files
  \/ files' = files \ Tree(j, n)
  \/ files' = files \cup {<<j, n, attProgress[j][n] + 1>>} /\ attProgress[j][n] < ItemCount

\* They stay within the directory of the attempt.
LEMMA FilesOfAttempt ==
  ASSUME TaskInv, NEW j \in Jobs, NEW n \in AttemptNumbers, FilesOf(j, n)
  PROVE  /\ files' \subseteq Jobs \X AttemptNumbers \X Items
         /\ \A k \in Jobs, m \in AttemptNumbers, i \in Items :
              k # j \/ m # n => (<<k, m, i>> \in files' <=> <<k, m, i>> \in files)
<1>1. files \subseteq Jobs \X AttemptNumbers \X Items
  BY DEF TaskInv, TaskTypeOK
<1>2. CASE files' = files \/ files' = files \ Tree(j, n)
  BY <1>1, <1>2 DEF Tree
<1>3. CASE files' = files \cup {<<j, n, attProgress[j][n] + 1>>} /\ attProgress[j][n] < ItemCount
  <2>1. attProgress[j][n] \in 0..ItemCount
    BY DEF TaskInv, QueueInvariant, TypeOK
  <2>2. attProgress[j][n] + 1 \in Items
    BY <1>3, <2>1, QueueAssumption DEF Items
  <2> QED BY <1>1, <1>3, <2>2
<1> QED BY <1>2, <1>3 DEF FilesOf

\* A task moves on without the database, or after a statement that only read.
LEMMA QuietStep ==
  ASSUME TaskInv, NEW j \in Jobs, NEW n \in AttemptNumbers, NEW x \in Steps,
         Goto(j, n, x), UNCHANGED <<vars, lost, sweeps>>,
         FilesOf(j, n),
         files' = files \ Tree(j, n) => files' = files \/ attState[j][n] # "succeeded" \/ lost[j][n],
         ~WriteHeld(j, n) \/ x = "sent",
         TaskOK(j, n)'
  PROVE  TaskInv'
<1>1. QueueInvariant'
  BY InvariantNext DEF TaskInv
<1>2. UNCHANGED <<attState, attProgress, outputs, tx>>
  BY DEF vars, attVars
<1>3. TaskTypeOK'
  BY FilesOfAttempt DEF TaskInv, TaskTypeOK, Goto
<1>4. /\ pc'[j][n] = x
      /\ \A k \in Jobs, m \in AttemptNumbers : k # j \/ m # n => pc'[k][m] = pc[k][m]
  BY DEF TaskInv, TaskTypeOK, Goto
<1>5. Only(j, n)
  BY <1>2, <1>4, FilesOfAttempt DEF Only
<1>6. KeepsLock(j, n)
  BY <1>2, <1>4 DEF KeepsLock, WriteHeld, At
<1>7. KeepsPublished(j, n)
  <2> SUFFICES ASSUME NEW i \in Items, <<n, i>> \in outputs[j]
               PROVE  <<j, n, i>> \in files' \/ lost'[j][n]
    BY <1>2 DEF KeepsPublished
  <2>1. attState[j][n] = "succeeded"
    BY PublishedSucceeded DEF TaskInv
  <2>2. <<j, n, i>> \in files \/ lost[j][n]
    BY DEF TaskInv, PublishedOrDisowned
  <2> QED BY <2>1, <2>2 DEF FilesOf
<1> QED BY <1>1, <1>3, <1>5, <1>6, <1>7, LocalSuffices

\* What a step of a task that only moves on leaves as it is.
LEMMA QuietMove ==
  ASSUME TaskInv, NEW j \in Jobs, NEW n \in AttemptNumbers, NEW x \in Steps,
         Goto(j, n, x), UNCHANGED <<vars, lost, sweeps>>
  PROVE  /\ pc'[j][n] = x
         /\ attState'[j][n] = attState[j][n] /\ attProgress'[j][n] = attProgress[j][n] /\ tx'[j] = tx[j]
         /\ x # "sent" => Stage(j, n)' = x
  BY DEF TaskInv, TaskTypeOK, Goto, Stage, vars, attVars

\* The names of the positions.
LEMMA StepNames ==
  /\ InItem \cup AllDone \cup FencedWrites \cup Returning \subseteq Steps
  /\ {"sleep", "conflict", "sent", "unlinked", "ended", "error", "dead"} \subseteq Steps
  BY DEF Steps, InItem, AllDone, Checks, Encoding, Returning, Gone

\* Losing its claim, an error or its death promises nothing, unless the attempt has
\* already succeeded, and then a task is beyond that point.
LEMMA GiveUpStep ==
  ASSUME TaskInv, NEW j \in Jobs, NEW n \in AttemptNumbers, NEW x \in {"lost", "error", "dead", "conflict"},
         Goto(j, n, x), UNCHANGED <<vars, lost, sweeps, files>>, ~WriteHeld(j, n),
         attState[j][n] = "succeeded" => x \in {"error", "dead"}
  PROVE  TaskInv'
<1>1. x \in Steps
  BY StepNames DEF Returning
<1>2. TaskOK(j, n)
  BY DEF TaskInv
<1>3. TaskOK(j, n)'
  BY <1>1, <1>2, QuietMove DEF TaskOK, InItem, AllDone, ItemWritten
<1> QED BY <1>1, <1>3, QuietStep DEF FilesOf

\* A demo job has slept.
LEMMA SleepKeeps ==
  ASSUME TaskInv, NEW j \in Jobs, NEW n \in AttemptNumbers, Sleep(j, n)
  PROVE  TaskInv'
<1>1. pc[j][n] = "sleep" /\ Goto(j, n, "final") /\ UNCHANGED <<vars, lost, sweeps, files>>
  BY DEF Sleep, At
<1>2. TaskOK(j, n)
  BY DEF TaskInv
<1>3. "final" \in Steps
  BY StepNames DEF AllDone
<1>4. j \notin ImageJobs
  BY <1>1, <1>2 DEF TaskOK, Stage
<1>5. TaskOK(j, n)'
  BY <1>1, <1>2, <1>3, <1>4, QuietMove DEF TaskOK, InItem, AllDone, ItemWritten
<1>6. ~WriteHeld(j, n)
  BY <1>1 DEF WriteHeld, InWrite, At
<1> QED BY <1>1, <1>3, <1>5, <1>6, QuietStep DEF FilesOf

\* A task that looks whether it was asked to stop: it lost its claim, cleans up, or
\* goes on with what it had checked for.
LEMMA CheckKeeps ==
  ASSUME TaskInv, NEW j \in Jobs, NEW n \in AttemptNumbers, CheckCancel(j, n)
  PROVE  TaskInv'
<1>1. pc[j][n] \in Checks /\ UNCHANGED <<vars, lost, sweeps>>
  BY DEF CheckCancel
<1>2. TaskOK(j, n) /\ Stage(j, n) = pc[j][n]
  BY <1>1 DEF TaskInv, Stage, Checks
<1>3. ~WriteHeld(j, n) /\ attState[j][n] # "succeeded"
  BY <1>1, <1>2 DEF WriteHeld, InWrite, At, Checks, TaskOK
<1>4. CASE ~Owns(j, n) /\ Goto(j, n, "lost") /\ UNCHANGED files
  BY <1>1, <1>3, <1>4, GiveUpStep
<1>5. CASE Goto(j, n, "cancel") /\ files' = files \ Tree(j, n)
  <2>1. Discarded(j, n)'
    BY <1>5 DEF Discarded, Tree
  <2>2. "cancel" \in Steps
    BY StepNames
  <2>3. TaskOK(j, n)'
    BY <1>1, <1>2, <1>3, <1>5, <2>1, <2>2, QuietMove DEF TaskOK, InItem, AllDone, ItemWritten
  <2> QED BY <1>1, <1>3, <1>5, <2>2, <2>3, QuietStep DEF FilesOf
<1>6. ASSUME Owns(j, n), Goto(j, n, Continuation(j, pc[j][n])), UNCHANGED files
      PROVE  TaskInv'
  <2>1. CASE pc[j][n] = "conflict"
    <3>1. Goto(j, n, "error")
      BY <1>6, <2>1 DEF Continuation
    <3> QED BY <1>1, <1>3, <1>6, <3>1, GiveUpStep
  <2>2. ASSUME NEW x \in {"encode", "progress", "publish", "complete"}, Goto(j, n, x),
               \/ pc[j][n] = "check" /\ x = "encode"
               \/ pc[j][n] = "recheck" /\ x = "progress"
               \/ pc[j][n] = "final" /\ x = "publish" /\ j \in ImageJobs
               \/ pc[j][n] = "final" /\ x = "complete"
        PROVE  TaskInv'
    <3>1. x \in Steps
      BY StepNames DEF InItem
    <3>2. TaskOK(j, n)'
      BY <1>1, <1>2, <1>3, <1>6, <2>2, <3>1, QuietMove DEF TaskOK, InItem, AllDone, ItemWritten
    <3> QED BY <1>1, <1>3, <1>6, <2>2, <3>1, <3>2, QuietStep DEF FilesOf
  <2>3. CASE pc[j][n] = "check"
    <3>1. Goto(j, n, "encode")
      BY <1>6, <2>3 DEF Continuation
    <3> QED BY <2>2, <2>3, <3>1
  <2>4. CASE pc[j][n] = "recheck"
    <3>1. Goto(j, n, "progress")
      BY <1>6, <2>4 DEF Continuation
    <3> QED BY <2>2, <2>4, <3>1
  <2>5. CASE pc[j][n] = "final"
    <3>1. Goto(j, n, IF j \in ImageJobs THEN "publish" ELSE "complete")
      BY <1>6, <2>5 DEF Continuation
    <3>2. CASE j \in ImageJobs
      BY <2>2, <2>5, <3>1, <3>2
    <3>3. CASE j \notin ImageJobs
      BY <2>2, <2>5, <3>1, <3>3
    <3> QED BY <3>2, <3>3
  <2> QED BY <1>1, <2>1, <2>3, <2>4, <2>5 DEF Checks
<1> QED BY <1>4, <1>5, <1>6 DEF CheckCancel

\* The encoder writes the file of the current item or fails.
LEMMA EncodeKeeps ==
  ASSUME TaskInv, NEW j \in Jobs, NEW n \in AttemptNumbers, Encode(j, n)
  PROVE  TaskInv'
<1>1. pc[j][n] \in {"encode", "unlinked"} /\ UNCHANGED <<vars, lost, sweeps>>
  BY DEF Encode, At
<1>2. TaskOK(j, n) /\ Stage(j, n) = pc[j][n]
  BY <1>1 DEF TaskInv, Stage
<1>3. ~WriteHeld(j, n) /\ attState[j][n] # "succeeded" /\ j \in ImageJobs /\ attProgress[j][n] < ItemCount
  BY <1>1, <1>2 DEF WriteHeld, InWrite, At, TaskOK, InItem
<1>4. ASSUME NEW x \in {"encoded", "faulted", "dead"}, Goto(j, n, x), pc[j][n] = "encode" \/ x = "dead",
             \/ files' = files \cup {<<j, n, attProgress[j][n] + 1>>}
             \/ files' = files /\ x # "encoded"
      PROVE  TaskInv'
  <2>1. x \in Steps
    BY StepNames DEF InItem
  <2>2. TaskOK(j, n)'
    BY <1>1, <1>2, <1>3, <1>4, <2>1, QuietMove DEF TaskOK, InItem, AllDone, ItemWritten
  <2> QED BY <1>1, <1>3, <1>4, <2>1, <2>2, QuietStep DEF FilesOf
<1> QED BY <1>4 DEF Encode, At

\* The encoding is recorded, or the item has failed and the files go first.
LEMMA RecordEncodingKeeps ==
  ASSUME TaskInv, NEW j \in Jobs, NEW n \in AttemptNumbers, RecordEncoding(j, n)
  PROVE  TaskInv'
<1>1. pc[j][n] \in {"encoded", "faulted"} /\ UNCHANGED <<vars, lost, sweeps>>
  BY DEF RecordEncoding
<1>2. TaskOK(j, n) /\ Stage(j, n) = pc[j][n]
  BY <1>1 DEF TaskInv, Stage
<1>3. ~WriteHeld(j, n) /\ attState[j][n] # "succeeded"
  BY <1>1, <1>2 DEF WriteHeld, InWrite, At, TaskOK
<1>4. CASE Goto(j, n, "lost") /\ UNCHANGED files
  BY <1>1, <1>3, <1>4, GiveUpStep
<1>5. CASE pc[j][n] = "encoded" /\ Goto(j, n, "recheck") /\ UNCHANGED files
  <2>1. "recheck" \in Steps
    BY StepNames DEF InItem
  <2>2. TaskOK(j, n)'
    BY <1>1, <1>2, <1>3, <1>5, <2>1, QuietMove DEF TaskOK, InItem, AllDone, ItemWritten
  <2> QED BY <1>1, <1>3, <1>5, <2>1, <2>2, QuietStep DEF FilesOf
<1>6. CASE Goto(j, n, "fail") /\ files' = files \ Tree(j, n)
  <2>1. Discarded(j, n)'
    BY <1>6 DEF Discarded, Tree
  <2>2. "fail" \in Steps
    BY StepNames
  <2>3. TaskOK(j, n)'
    BY <1>1, <1>2, <1>3, <1>6, <2>1, <2>2, QuietMove DEF TaskOK, InItem, AllDone, ItemWritten
  <2> QED BY <1>1, <1>3, <1>6, <2>2, <2>3, QuietStep DEF FilesOf
<1> QED BY <1>4, <1>5, <1>6 DEF RecordEncoding, At

\* A fenced write that finds no row tells the task it has lost its claim.
LEMMA RefusalKeeps ==
  ASSUME TaskInv, NEW j \in Jobs, NEW n \in AttemptNumbers, WriteRefused(j, n)
  PROVE  TaskInv'
<1>1. /\ pc[j][n] \in FencedWrites /\ ~InWrite(j, n)
      /\ Goto(j, n, "lost") /\ UNCHANGED <<vars, lost, files, sweeps>>
  BY DEF WriteRefused
<1>2. ~WriteHeld(j, n)
  BY <1>1 DEF WriteHeld, At
<1>3. attState[j][n] # "succeeded"
  BY <1>1 DEF TaskInv, TaskOK
<1> QED BY <1>1, <1>2, <1>3, GiveUpStep

\* A COMMIT that is sent stands for the write it commits.
LEMMA SendKeeps ==
  ASSUME TaskInv, NEW j \in Jobs, NEW n \in AttemptNumbers, SendCommit(j, n)
  PROVE  TaskInv'
<1>1. /\ pc[j][n] \in FencedWrites /\ tx[j] = pc[j][n] /\ attState[j][n] = "running"
      /\ Goto(j, n, "sent") /\ UNCHANGED <<vars, lost, files, sweeps>>
  BY DEF SendCommit, InWrite
<1>2. TaskOK(j, n)
  BY DEF TaskInv
<1>3. "sent" \in Steps
  BY StepNames
<1>4. /\ pc'[j][n] = "sent" /\ tx'[j] = tx[j]
      /\ attState'[j][n] = attState[j][n] /\ attProgress'[j][n] = attProgress[j][n]
  BY <1>1, <1>3, QuietMove
<1>5. Stage(j, n)' = Stage(j, n)
  BY <1>1, <1>4 DEF Stage
<1>6. Discarded(j, n)' = Discarded(j, n)
  BY <1>1 DEF Discarded
<1>7. TaskOK(j, n)'
  BY <1>1, <1>2, <1>4, <1>5, <1>6 DEF TaskOK
<1> QED BY <1>1, <1>3, <1>7, QuietStep DEF FilesOf

\* A task that has lost its claim removes its files, one whose attempt was closed by
\* itself keeps them if it has succeeded.
LEMMA FinishKeeps ==
  ASSUME TaskInv, NEW j \in Jobs, NEW n \in AttemptNumbers, FinishTask(j, n)
  PROVE  TaskInv'
<1>1. pc[j][n] \in {"ok", "lost"} /\ Goto(j, n, "ended") /\ UNCHANGED <<vars, lost, sweeps>>
  BY DEF FinishTask, Returning
<1>2. TaskOK(j, n) /\ Stage(j, n) = pc[j][n]
  BY <1>1 DEF TaskInv, Stage
<1>3. ~WriteHeld(j, n)
  BY <1>1 DEF WriteHeld, InWrite, At
<1>4. "ended" \in Steps
  BY StepNames
<1>5. CASE (pc[j][n] = "lost" \/ lost[j][n]) /\ files' = files \ Tree(j, n)
  <2>1. Discarded(j, n)'
    BY <1>5 DEF Discarded, Tree
  <2>2. TaskOK(j, n)'
    BY <1>1, <1>2, <1>4, <2>1, QuietMove DEF TaskOK, InItem, AllDone, ItemWritten
  <2>3. attState[j][n] # "succeeded" \/ lost[j][n]
    BY <1>2, <1>5 DEF TaskOK
  <2> QED BY <1>1, <1>3, <1>4, <1>5, <2>2, <2>3, QuietStep DEF FilesOf
<1>6. CASE pc[j][n] = "ok" /\ files' = files
  <2>1. Discarded(j, n)' = Discarded(j, n)
    BY <1>6 DEF Discarded
  <2>2. TaskOK(j, n)'
    BY <1>1, <1>2, <1>4, <1>6, <2>1, QuietMove DEF TaskOK, InItem, AllDone, ItemWritten
  <2> QED BY <1>1, <1>3, <1>4, <1>6, <2>2, QuietStep DEF FilesOf
<1> QED BY <1>1, <1>5, <1>6 DEF FinishTask, At

\* An error outside of a transaction, or the death of a task that has none open; its
\* encoder thread may go on.
LEMMA QuietEndKeeps ==
  ASSUME TaskInv, NEW j \in Jobs, NEW n \in AttemptNumbers,
         ~InWrite(j, n), ~At(j, n, "sent"), UNCHANGED <<vars, lost, sweeps, files>>,
         \/ Goto(j, n, "error")
         \/ Goto(j, n, "dead")
         \/ At(j, n, "encode") /\ Goto(j, n, "unlinked")
  PROVE  TaskInv'
<1>1. ~WriteHeld(j, n)
  BY DEF WriteHeld
<1>2. CASE Goto(j, n, "error") \/ Goto(j, n, "dead")
  BY <1>1, <1>2, GiveUpStep
<1>3. CASE At(j, n, "encode") /\ Goto(j, n, "unlinked")
  <2>1. TaskOK(j, n) /\ Stage(j, n) = "encode" /\ attState[j][n] # "succeeded"
    BY <1>3 DEF TaskInv, Stage, At, TaskOK
  <2>2. "unlinked" \in Steps
    BY StepNames
  <2>3. TaskOK(j, n)'
    BY <1>3, <2>1, <2>2, QuietMove DEF TaskOK, InItem, AllDone, ItemWritten
  <2> QED BY <1>1, <1>3, <2>2, <2>3, QuietStep DEF FilesOf
<1> QED BY <1>2, <1>3

-----------------------------------------------------------------------------
(***************************************************************************)
(* Steps of the environment, of renewals and of recovery.                  *)
(***************************************************************************)

\* Clients, worker loops and the clock do not touch attempts, files or locks.  A task
\* may be told meanwhile that its claim is lost.
LEMMA EnvironmentKeeps ==
  ASSUME TaskInv, QueueInvariant', lost' \in [Jobs -> [AttemptNumbers -> BOOLEAN]],
         \A j \in Jobs, n \in AttemptNumbers : lost[j][n] => lost'[j][n],
         UNCHANGED <<pc, files, sweeps, attState, attProgress, tx, outputs>>
  PROVE  TaskInv'
<1>1. TaskTypeOK'
  BY DEF TaskInv, TaskTypeOK
<1>2. ASSUME NEW j \in Jobs, NEW n \in AttemptNumbers
      PROVE  TaskOK(j, n)'
  <2>1. Stage(j, n)' = Stage(j, n) /\ Discarded(j, n)' = Discarded(j, n)
    BY DEF Stage, Discarded
  <2>2. TaskOK(j, n)
    BY DEF TaskInv
  <2> QED BY <2>1, <2>2 DEF TaskOK
<1>3. LockHasTask'
  BY DEF TaskInv, LockHasTask, InWrite, At
<1>4. PublishedOrDisowned'
  <2> SUFFICES ASSUME NEW j \in Jobs, NEW o \in outputs[j]
               PROVE  <<j, o[1], o[2]>> \in files \/ lost'[j][o[1]]
    BY DEF PublishedOrDisowned
  <2>1. o[1] \in AttemptNumbers
    BY DEF TaskInv, QueueInvariant, TypeOK
  <2> QED BY <2>1 DEF TaskInv, PublishedOrDisowned
<1> QED BY <1>1, <1>2, <1>3, <1>4 DEF TaskInv

\* What one task is told concerns no other, and is not taken back.
LEMMA ToldOnce ==
  ASSUME TaskInv, NEW j \in Jobs, NEW n \in AttemptNumbers, NEW told \in BOOLEAN,
         lost[j][n] => told, lost' = [lost EXCEPT ![j][n] = told]
  PROVE  /\ lost' \in [Jobs -> [AttemptNumbers -> BOOLEAN]]
         /\ \A k \in Jobs, m \in AttemptNumbers : lost[k][m] => lost'[k][m]
<1>1. lost \in [Jobs -> [AttemptNumbers -> BOOLEAN]]
  BY DEF TaskInv, TaskTypeOK
<1>2. lost' \in [Jobs -> [AttemptNumbers -> BOOLEAN]]
  BY <1>1
<1>3. ASSUME NEW k \in Jobs, NEW m \in AttemptNumbers, lost[k][m]
      PROVE  lost'[k][m]
  <2>1. CASE k = j /\ m = n
    BY <1>1, <1>3, <2>1
  <2>2. CASE k # j \/ m # n
    BY <1>1, <1>3, <2>2
  <2> QED BY <2>1, <2>2
<1> QED BY <1>2, <1>3

\* A renewal only moves the lease, and may tell the task that its claim is lost.
LEMMA RenewalKeeps ==
  ASSUME TaskInv, QueueInvariant', NEW j \in Jobs, NEW n \in AttemptNumbers,
         TickRenewal(j, n) \/ AnswerRenewal(j, n) \/ RenewalFails(j, n)
  PROVE  TaskInv'
<1>1. UNCHANGED <<pc, files, sweeps, attState, attProgress, tx, outputs>>
  BY DEF TickRenewal, AnswerRenewal, RenewalFails, RenewLease, AwaitRowLock, RenewAfterWait, AbandonRenewal,
         taskVars, vars, attVars
<1>2. CASE TickRenewal(j, n)
  <2>1. lost' = lost \/ lost' = [lost EXCEPT ![j][n] = TRUE]
    BY <1>2 DEF TickRenewal
  <2>2. CASE lost' = lost
    BY <1>1, <2>2, EnvironmentKeeps DEF TaskInv, TaskTypeOK
  <2>3. CASE lost' = [lost EXCEPT ![j][n] = TRUE]
    BY <1>1, <2>3, ToldOnce, EnvironmentKeeps
  <2> QED BY <2>1, <2>2, <2>3
<1>3. CASE AnswerRenewal(j, n)
  <2> DEFINE told == lost[j][n] \/ (attState[j][n] # "running" /\ pc[j][n] \notin Gone)
  <2>1. lost' = [lost EXCEPT ![j][n] = told]
    BY <1>3 DEF AnswerRenewal
  <2>2. told \in BOOLEAN /\ (lost[j][n] => told)
    OBVIOUS
  <2> HIDE DEF told
  <2> QED BY <1>1, <2>1, <2>2, ToldOnce, EnvironmentKeeps
<1>4. CASE RenewalFails(j, n)
  BY <1>1, <1>4, EnvironmentKeeps DEF RenewalFails, taskVars, TaskInv, TaskTypeOK
<1> QED BY <1>2, <1>3, <1>4

\* The rest of the system.
LEMMA OutsideKeeps ==
  ASSUME TaskInv, QueueInvariant',
         \/ \E j \in Jobs : Cancel(j)
         \/ \E w \in Workers : StopAfterTasks(w)
         \/ QueueStep
         \/ UNCHANGED allVars
  PROVE  TaskInv'
<1>1. UNCHANGED <<taskVars, attState, attProgress, tx, outputs>>
  BY DEF Cancel, StopAfterTasks, QueueStep, RequestCancel, StopWorker, CreateJob, ManualRetry, RegisterWorker,
         HeartbeatWorker, AbortClaim, LockCandidate, TimeStep, LeaseTick, HeartbeatLapses, JobDue,
         allVars, vars, attVars
<1> QED BY <1>1, EnvironmentKeeps DEF taskVars, TaskInv, TaskTypeOK

\* The recovering worker removes the directory of an attempt that will not be
\* published.
LEMMA SweepKeeps ==
  ASSUME TaskInv, QueueInvariant', NEW j \in Jobs, NEW n \in AttemptNumbers, Sweep(j, n)
  PROVE  TaskInv'
<1>1. /\ <<j, n>> \in sweeps /\ sweeps' = sweeps \ {<<j, n>>} /\ FilesOf(j, n)
      /\ UNCHANGED <<pc, lost, attState, attProgress, tx, outputs>>
  BY DEF Sweep, FilesOf, vars, attVars
<1>2. files' = files \ Tree(j, n) \/ files' = files
  BY DEF Sweep
<1>3. TaskOK(j, n) /\ attState[j][n] \in {"failed", "cancelled"}
  BY <1>1 DEF TaskInv, TaskOK
<1>4. TaskTypeOK'
  BY <1>1, FilesOfAttempt DEF TaskInv, TaskTypeOK
<1>5. Only(j, n)
  BY <1>1, FilesOfAttempt DEF Only
<1>6. Stage(j, n)' = Stage(j, n)
  BY <1>1 DEF Stage
<1>7. Discarded(j, n) => Discarded(j, n)'
  BY <1>2 DEF Discarded
<1>8. TaskOK(j, n)'
  BY <1>1, <1>3, <1>6, <1>7 DEF TaskOK
<1>9. KeepsLock(j, n)
  BY <1>1, <1>3 DEF KeepsLock, WriteHeld
<1>10. KeepsPublished(j, n)
  BY <1>1, <1>3, PublishedSucceeded DEF KeepsPublished, TaskInv
<1> QED BY <1>4, <1>5, <1>8, <1>9, <1>10, LocalSuffices

\* A recovery closes the attempt of a task that may go on for a while.
LEMMA ReclaimKeeps ==
  ASSUME TaskInv, QueueInvariant', NEW j \in Jobs, NEW n \in AttemptNumbers, Reclaim(j, n)
  PROVE  TaskInv'
<1>1. /\ attState[j][n] = "running" /\ tx[j] = "none"
      /\ sweeps' = sweeps \cup {<<j, n>>}
      /\ UNCHANGED <<pc, lost, files, attProgress, tx, outputs>>
  BY DEF Reclaim, ReclaimNextExpiredAttempt
<1>2. PICK a \in {"failed", "cancelled"} : attState' = [attState EXCEPT ![j][n] = a]
  BY DEF Reclaim, ReclaimNextExpiredAttempt, CloseFailed, CloseCancelled
<1>3. /\ attState'[j][n] = a
      /\ \A k \in Jobs, m \in AttemptNumbers : k # j \/ m # n => attState'[k][m] = attState[k][m]
  BY <1>2 DEF TaskInv, QueueInvariant, TypeOK
<1>4. TaskTypeOK'
  BY <1>1 DEF TaskInv, TaskTypeOK
<1>5. Only(j, n)
  BY <1>1, <1>3 DEF Only
<1>6. Stage(j, n)' = Stage(j, n) /\ Discarded(j, n)' = Discarded(j, n)
  BY <1>1 DEF Stage, Discarded
<1>7. TaskOK(j, n) /\ pc[j][n] # "sent"
  BY <1>1 DEF TaskInv, TaskOK
<1>8. TaskOK(j, n)'
  BY <1>1, <1>3, <1>6, <1>7 DEF TaskOK
<1>9. KeepsLock(j, n)
  BY <1>1 DEF KeepsLock
<1>10. KeepsPublished(j, n)
  BY <1>1, PublishedSucceeded DEF KeepsPublished, TaskInv
<1> QED BY <1>4, <1>5, <1>8, <1>9, <1>10, LocalSuffices

-----------------------------------------------------------------------------
(***************************************************************************)
(* Claims, and the beginning and the end of fenced writes.                 *)
(***************************************************************************)

\* A claimed attempt is new: nothing of it has been swept, counted or published.
LEMMA ClaimKeeps ==
  ASSUME TaskInv, QueueInvariant', NEW j \in Jobs, NEW n \in AttemptNumbers, NEW w \in Workers,
         ClaimAndSpawn(w, j, n)
  PROVE  TaskInv'
<1>1. /\ IsNextAttempt(j, n)
      /\ attState' = [attState EXCEPT ![j][n] = "running"]
      /\ attProgress' = [attProgress EXCEPT ![j][n] = 0]
      /\ UNCHANGED <<outputs, tx, lost, files, sweeps>>
  BY DEF ClaimAndSpawn, ClaimNext
<1>2. attState[j][n] = "none"
  BY <1>1 DEF IsNextAttempt, AttemptNumbers
<1>3. PICK x \in {"check", "sleep"} : /\ Goto(j, n, x)
                                      /\ x = "check" => j \in ImageJobs
                                      /\ x = "sleep" => j \notin ImageJobs
  BY DEF ClaimAndSpawn
<1>4. x \in Steps
  BY StepNames DEF InItem
<1>5. /\ pc'[j][n] = x /\ attState'[j][n] = "running" /\ attProgress'[j][n] = 0
      /\ \A k \in Jobs, m \in AttemptNumbers : k # j \/ m # n =>
           /\ pc'[k][m] = pc[k][m]
           /\ attState'[k][m] = attState[k][m] /\ attProgress'[k][m] = attProgress[k][m]
  BY <1>1, <1>3, <1>4 DEF TaskInv, TaskTypeOK, QueueInvariant, TypeOK, Goto
<1>6. TaskTypeOK'
  BY <1>1, <1>3, <1>4 DEF TaskInv, TaskTypeOK, Goto
<1>7. Only(j, n)
  BY <1>1, <1>5 DEF Only
<1>8. TaskOK(j, n)'
  <2>1. Stage(j, n)' = x
    BY <1>5 DEF Stage
  <2>2. <<j, n>> \notin sweeps
    BY <1>2 DEF TaskInv, TaskOK
  <2>3. 0 < ItemCount /\ \A i \in Items : ~(i <= 0)
    BY QueueAssumption DEF Items
  <2> QED BY <1>1, <1>3, <1>5, <2>1, <2>2, <2>3 DEF TaskOK, InItem, AllDone, ItemWritten
<1>9. KeepsLock(j, n)
  BY <1>1, <1>2 DEF KeepsLock, WriteHeld
<1>10. KeepsPublished(j, n)
  BY <1>1, <1>2, PublishedSucceeded DEF KeepsPublished, TaskInv
<1> QED BY <1>6, <1>7, <1>8, <1>9, <1>10, LocalSuffices

\* A fenced write is opened by the task that stands before it.
LEMMA BeginWriteKeeps ==
  ASSUME TaskInv, QueueInvariant', NEW j \in Jobs, NEW n \in AttemptNumbers, NEW op \in FencedWrites,
         BeginWrite(j, n, op)
  PROVE  TaskInv'
<1>1. /\ pc[j][n] = op /\ tx[j] = "none" /\ attState[j][n] = "running"
      /\ tx' = [tx EXCEPT ![j] = op]
      /\ UNCHANGED <<pc, lost, files, sweeps, attState, attProgress, outputs>>
  BY DEF BeginWrite, At, OpenWrite, Owns, taskVars, attVars
<1>2. tx'[j] = op /\ \A k \in Jobs : k # j => tx'[k] = tx[k]
  BY <1>1 DEF TaskInv, QueueInvariant, TypeOK
<1>3. TaskTypeOK'
  BY <1>1 DEF TaskInv, TaskTypeOK
<1>4. Only(j, n)
  BY <1>1, <1>2 DEF Only
<1>5. TaskOK(j, n) /\ Stage(j, n)' = Stage(j, n) /\ Discarded(j, n)' = Discarded(j, n)
  BY <1>1 DEF TaskInv, Stage, Discarded
<1>6. TaskOK(j, n)'
  BY <1>1, <1>5 DEF TaskOK
<1>7. KeepsLock(j, n)
  BY <1>1, <1>2 DEF KeepsLock, WriteHeld, InWrite
<1>8. KeepsPublished(j, n)
  BY <1>1, PublishedSucceeded DEF KeepsPublished, TaskInv
<1> QED BY <1>3, <1>4, <1>6, <1>7, <1>8, LocalSuffices

\* A fenced write ends, and with it the lock on the row: only the attempt's own rows
\* may have changed.
LEMMA ReleaseSuffices ==
  ASSUME TaskInv, QueueInvariant', NEW j \in Jobs, NEW n \in AttemptNumbers, NEW x \in Steps,
         Goto(j, n, x), UNCHANGED <<lost, files, sweeps>>,
         WriteHeld(j, n), tx' = [tx EXCEPT ![j] = "none"],
         \A k \in Jobs, m \in AttemptNumbers : k # j \/ m # n =>
           attState'[k][m] = attState[k][m] /\ attProgress'[k][m] = attProgress[k][m],
         outputs' = outputs \/ outputs' = [outputs EXCEPT ![j] = @ \cup ({n} \X Items)],
         KeepsPublished(j, n), TaskOK(j, n)'
  PROVE  TaskInv'
<1>1. tx'[j] = "none" /\ \A k \in Jobs : k # j => tx'[k] = tx[k]
  BY DEF TaskInv, QueueInvariant, TypeOK
<1>2. TaskTypeOK'
  BY DEF TaskInv, TaskTypeOK, Goto
<1>3. \A k \in Jobs, m \in AttemptNumbers : k # j \/ m # n => pc'[k][m] = pc[k][m]
  BY DEF TaskInv, TaskTypeOK, Goto
<1>4. \A k \in Jobs, m \in AttemptNumbers, i \in Items :
        k # j \/ m # n => (<<m, i>> \in outputs'[k] => <<m, i>> \in outputs[k])
  BY DEF TaskInv, QueueInvariant, TypeOK
<1>5. Only(j, n)
  BY <1>1, <1>3, <1>4 DEF Only, WriteHeld
<1>6. KeepsLock(j, n)
  BY <1>1 DEF KeepsLock
<1> QED BY <1>2, <1>5, <1>6, LocalSuffices

\* It is rolled back: the task asks what happened, has failed or is gone.
LEMMA RollbackKeeps ==
  ASSUME TaskInv, QueueInvariant', NEW j \in Jobs, NEW n \in AttemptNumbers,
         NEW x \in {"conflict", "error", "dead"},
         Goto(j, n, x), Rollback(j), WriteHeld(j, n), UNCHANGED <<lost, files, sweeps>>
  PROVE  TaskInv'
<1>1. x \in Steps
  BY StepNames
<1>2. tx' = [tx EXCEPT ![j] = "none"] /\ UNCHANGED <<attState, attProgress, outputs>>
  BY DEF Rollback, attVars
<1>3. pc'[j][n] = x
  BY <1>1 DEF TaskInv, TaskTypeOK, Goto
<1>4. Stage(j, n)' = x
  BY <1>3 DEF Stage
<1>5. TaskOK(j, n) /\ attState[j][n] = "running"
  BY DEF TaskInv, WriteHeld
<1>6. TaskOK(j, n)'
  BY <1>2, <1>3, <1>4, <1>5 DEF TaskOK, InItem, AllDone, ItemWritten
<1>7. KeepsPublished(j, n)
  BY <1>2, <1>5, PublishedSucceeded DEF KeepsPublished, TaskInv
<1> QED BY <1>1, <1>2, <1>6, <1>7, ReleaseSuffices

\* An item is counted whose file has been written.
LEMMA CountKeeps ==
  ASSUME TaskInv, QueueInvariant', NEW j \in Jobs, NEW n \in AttemptNumbers,
         NEW x \in {"check", "final", "error", "dead"},
         At(j, n, "sent"), UpdateProgress(j, n, attProgress[j][n] + 1),
         Goto(j, n, x), UNCHANGED <<lost, files, sweeps>>,
         x = "check" => attProgress[j][n] + 1 < ItemCount,
         x = "final" => attProgress[j][n] + 1 = ItemCount
  PROVE  TaskInv'
<1> DEFINE p == attProgress[j][n] + 1
<1>1. x \in Steps
  BY StepNames DEF InItem, AllDone
<1>2. /\ tx[j] = "progress" /\ tx' = [tx EXCEPT ![j] = "none"] /\ attState[j][n] = "running"
      /\ attProgress' = [attProgress EXCEPT ![j][n] = p]
      /\ UNCHANGED <<attState, outputs>>
  BY DEF UpdateProgress, Commit
<1>3. pc'[j][n] = x /\ Stage(j, n)' = x
  BY <1>1 DEF TaskInv, TaskTypeOK, Goto, Stage
<1>4. /\ attProgress'[j][n] = p
      /\ \A k \in Jobs, m \in AttemptNumbers : k # j \/ m # n => attProgress'[k][m] = attProgress[k][m]
  BY <1>2 DEF TaskInv, QueueInvariant, TypeOK
<1>5. Stage(j, n) = "progress" /\ TaskOK(j, n)
  BY <1>2 DEF TaskInv, Stage, At
<1>6. j \in ImageJobs
  BY <1>5 DEF TaskOK, InItem
<1>7. \A i \in Items : i <= p => <<j, n, i>> \in files
  <2> SUFFICES ASSUME NEW i \in Items, i <= p PROVE <<j, n, i>> \in files
    OBVIOUS
  <2>1. i \in Int /\ attProgress[j][n] \in Int
    BY QueueAssumption DEF Items, TaskInv, QueueInvariant, TypeOK
  <2>2. CASE i <= attProgress[j][n]
    BY <1>2, <1>5, <1>6, <2>2 DEF TaskOK, InItem
  <2>3. CASE i = p
    BY <1>2, <1>5, <2>3 DEF TaskOK, ItemWritten
  <2> QED BY <2>1, <2>2, <2>3
<1> HIDE DEF p
<1>8. TaskOK(j, n)'
  <2>1. x = "check" => p < ItemCount
    BY DEF p
  <2>2. x = "final" => p = ItemCount
    BY DEF p
  <2> QED BY <1>2, <1>3, <1>4, <1>5, <1>6, <1>7, <2>1, <2>2 DEF TaskOK, InItem, AllDone, ItemWritten
<1>9. KeepsPublished(j, n)
  BY <1>2, PublishedSucceeded DEF KeepsPublished, TaskInv
<1>10. WriteHeld(j, n)
  BY <1>2 DEF WriteHeld
<1> QED BY <1>1, <1>2, <1>4, <1>8, <1>9, <1>10, ReleaseSuffices

\* The attempt is closed: its outputs are published from files that are all there, or
\* its files were discarded before.
LEMMA CloseKeeps ==
  ASSUME TaskInv, QueueInvariant', NEW j \in Jobs, NEW n \in AttemptNumbers,
         NEW x \in {"ok", "error", "dead"},
         At(j, n, "sent"), Goto(j, n, x), UNCHANGED <<lost, files, sweeps>>,
         \/ Complete(j, n)
         \/ CompleteImageJob(j, n)
         \/ \E transient \in BOOLEAN : RecordFailure(j, n, transient)
         \/ FinishCancelled(j, n)
  PROVE  TaskInv'
<1>1. x \in Steps
  BY StepNames DEF Returning
<1>2. pc'[j][n] = x /\ Stage(j, n)' = x
  BY <1>1 DEF TaskInv, TaskTypeOK, Goto, Stage
<1>3. attState[j][n] = "running" /\ TaskOK(j, n) /\ Stage(j, n) = tx[j] /\ <<j, n>> \notin sweeps
  BY DEF TaskInv, TaskOK, Stage, At
<1>4. WriteHeld(j, n)
  BY <1>3 DEF WriteHeld
<1>5. tx' = [tx EXCEPT ![j] = "none"]
  BY DEF Complete, CompleteImageJob, RecordFailure, FinishCancelled, Commit
<1>6. CASE Complete(j, n) \/ CompleteImageJob(j, n)
  <2>1. /\ attState' = [attState EXCEPT ![j][n] = "succeeded"]
        /\ attProgress' = [attProgress EXCEPT ![j][n] = ItemCount]
    BY <1>6 DEF Complete, CompleteImageJob, Succeed
  <2>2. /\ attState'[j][n] = "succeeded"
        /\ \A k \in Jobs, m \in AttemptNumbers : k # j \/ m # n =>
             attState'[k][m] = attState[k][m] /\ attProgress'[k][m] = attProgress[k][m]
    BY <2>1 DEF TaskInv, QueueInvariant, TypeOK
  <2>3. TaskOK(j, n)'
    BY <1>2, <1>3, <2>2 DEF TaskOK, InItem, AllDone, ItemWritten
  <2>4. CASE Complete(j, n)
    <3>1. UNCHANGED outputs
      BY <2>4 DEF Complete
    <3>2. KeepsPublished(j, n)
      BY <1>3, <3>1, PublishedSucceeded DEF KeepsPublished, TaskInv
    <3> QED BY <1>1, <1>4, <1>5, <2>2, <2>3, <3>1, <3>2, ReleaseSuffices
  <2>5. CASE CompleteImageJob(j, n)
    <3>1. tx[j] = "publish" /\ outputs' = [outputs EXCEPT ![j] = @ \cup ({n} \X Items)]
      BY <2>5 DEF CompleteImageJob, Commit
    <3>2. j \in ImageJobs /\ attProgress[j][n] = ItemCount
      BY <1>3, <3>1 DEF TaskOK, AllDone
    <3>3. \A i \in Items : <<j, n, i>> \in files
      <4>1. \A i \in Items : i <= ItemCount
        BY QueueAssumption DEF Items
      <4> QED BY <1>3, <3>1, <3>2, <4>1 DEF TaskOK, AllDone
    <3>4. KeepsPublished(j, n)
      BY <3>3 DEF KeepsPublished
    <3> QED BY <1>1, <1>4, <1>5, <2>2, <2>3, <3>1, <3>4, ReleaseSuffices
  <2> QED BY <1>6, <2>4, <2>5
<1>7. CASE (\E transient \in BOOLEAN : RecordFailure(j, n, transient)) \/ FinishCancelled(j, n)
  <2>1. tx[j] \in {"fail", "cancel"} /\ UNCHANGED <<attProgress, outputs>>
    BY <1>7 DEF RecordFailure, FinishCancelled, Commit
  <2>2. PICK a \in {"failed", "cancelled"} : attState' = [attState EXCEPT ![j][n] = a]
    BY <1>7 DEF RecordFailure, FinishCancelled, CloseFailed, CloseCancelled
  <2>3. /\ attState'[j][n] = a
        /\ \A k \in Jobs, m \in AttemptNumbers : k # j \/ m # n => attState'[k][m] = attState[k][m]
    BY <2>2 DEF TaskInv, QueueInvariant, TypeOK
  <2>4. Discarded(j, n)'
    BY <1>3, <2>1 DEF TaskOK, Discarded
  <2>5. TaskOK(j, n)'
    BY <1>2, <1>3, <2>3, <2>4 DEF TaskOK, InItem, AllDone, ItemWritten
  <2>6. KeepsPublished(j, n)
    BY <1>3, <2>1, PublishedSucceeded DEF KeepsPublished, TaskInv
  <2> QED BY <1>1, <1>4, <1>5, <2>1, <2>3, <2>5, <2>6, ReleaseSuffices
<1> QED BY <1>6, <1>7

-----------------------------------------------------------------------------
(***************************************************************************)
(* The theorems.                                                           *)
(***************************************************************************)

\* The transaction of a COMMIT, of an open write or of a write that is refused is that
\* of the task itself.
LEMMA TaskStepKeeps ==
  ASSUME TaskInv, QueueInvariant', NEW j \in Jobs, NEW n \in AttemptNumbers, TaskStep(j, n)
  PROVE  TaskInv'
<1> DEFINE Open == InWrite(j, n) \/ At(j, n, "sent")
<1>1. Open => WriteHeld(j, n)
  BY DEF TaskInv, TaskOK, WriteHeld, InWrite, At
<1>2. CASE \/ Sleep(j, n)
           \/ CheckCancel(j, n)
           \/ Encode(j, n)
           \/ RecordEncoding(j, n)
           \/ WriteRefused(j, n)
           \/ SendCommit(j, n)
           \/ FinishTask(j, n)
  BY <1>2, SleepKeeps, CheckKeeps, EncodeKeeps, RecordEncodingKeeps, RefusalKeeps, SendKeeps, FinishKeeps
<1>3. CASE \E op \in FencedWrites : BeginWrite(j, n, op)
  BY <1>3, BeginWriteKeeps
<1>4. CASE WriteConflicts(j, n)
  <2>1. /\ Open /\ Rollback(j) /\ UNCHANGED <<lost, files, sweeps>>
        /\ Goto(j, n, "error") \/ Goto(j, n, "conflict")
    BY <1>4 DEF WriteConflicts
  <2> QED BY <1>1, <2>1, RollbackKeeps
<1>5. CASE ServerCommits(j, n)
  <2>1. At(j, n, "sent") /\ UNCHANGED <<lost, files, sweeps>>
    BY <1>5 DEF ServerCommits
  <2>2. CASE /\ UpdateProgress(j, n, attProgress[j][n] + 1)
             /\ \/ attProgress[j][n] + 1 < ItemCount /\ Goto(j, n, "check")
                \/ attProgress[j][n] + 1 = ItemCount /\ Goto(j, n, "final")
                \/ Goto(j, n, "error")
    BY <2>1, <2>2, CountKeeps
  <2>3. CASE /\ \/ Complete(j, n)
                \/ CompleteImageJob(j, n)
                \/ \E transient \in BOOLEAN : RecordFailure(j, n, transient)
                \/ FinishCancelled(j, n)
             /\ Goto(j, n, "ok") \/ Goto(j, n, "error")
    BY <2>1, <2>3, CloseKeeps
  <2> QED BY <1>5, <2>2, <2>3 DEF ServerCommits
<1>6. CASE DatabaseError(j, n)
  <2>1. /\ Goto(j, n, "error") /\ UNCHANGED <<lost, files, sweeps>>
        /\ \/ Open /\ Rollback(j)
           \/ ~Open /\ UNCHANGED vars
    BY <1>6 DEF DatabaseError
  <2>2. CASE Open /\ Rollback(j)
    BY <1>1, <2>1, <2>2, RollbackKeeps
  <2>3. CASE ~Open /\ UNCHANGED vars
    BY <2>1, <2>3, QuietEndKeeps
  <2> QED BY <2>1, <2>2, <2>3
<1>7. CASE TaskDies(j, n)
  <2>1. /\ Goto(j, n, "dead") \/ (At(j, n, "encode") /\ Goto(j, n, "unlinked"))
        /\ UNCHANGED <<lost, files, sweeps>>
        /\ \/ ~Open /\ UNCHANGED vars
           \/ Open /\ Rollback(j)
           \/ At(j, n, "sent") /\ ServerEnds(j, n)
    BY <1>7 DEF TaskDies, ServerEnds
  <2>2. At(j, n, "encode") => ~Open
    BY DEF InWrite, At
  <2>3. CASE ~Open /\ UNCHANGED vars
    BY <2>1, <2>3, QuietEndKeeps
  <2>4. CASE Open /\ Rollback(j)
    BY <1>1, <2>1, <2>2, <2>4, RollbackKeeps
  <2>5. CASE At(j, n, "sent") /\ ServerEnds(j, n)
    <3>1. Goto(j, n, "dead")
      BY <2>1, <2>2, <2>5
    <3> QED BY <2>1, <2>5, <3>1, CountKeeps, CloseKeeps DEF ServerEnds
  <2> QED BY <2>1, <2>3, <2>4, <2>5
<1>8. CASE TickRenewal(j, n) \/ AnswerRenewal(j, n) \/ RenewalFails(j, n)
  BY <1>8, RenewalKeeps
<1>9. CASE Reclaim(j, n) \/ Sweep(j, n)
  BY <1>9, ReclaimKeeps, SweepKeeps
<1>10. CASE \E w \in Workers : ClaimAndSpawn(w, j, n)
  BY <1>10, ClaimKeeps
<1> QED BY <1>2, <1>3, <1>4, <1>5, <1>6, <1>7, <1>8, <1>9, <1>10 DEF TaskStep, Process

\* Every step keeps the invariant; for the tables the queue's own proof says so.
LEMMA TaskInvNext == TaskInv /\ [TaskNext]_allVars => TaskInv'
<1> SUFFICES ASSUME TaskInv, [TaskNext]_allVars PROVE TaskInv'
  OBVIOUS
<1>1. QueueInvariant'
  BY StepOfQueue, InvariantNext DEF TaskInv
<1> QED BY <1>1, TaskStepKeeps, OutsideKeeps DEF TaskNext

\* Before the first claim there is no task.
LEMMA TaskInvInit == TaskInit => TaskInv
<1> SUFFICES ASSUME TaskInit PROVE TaskInv
  OBVIOUS
<1>1. QueueInvariant
  BY InvariantInit DEF TaskInit
<1>2. TaskTypeOK
  BY DEF TaskInit, TaskTypeOK, Steps, Gone
<1>3. LockHasTask /\ PublishedOrDisowned
  BY DEF TaskInit, Init, LockHasTask, PublishedOrDisowned
<1>4. ASSUME NEW j \in Jobs, NEW n \in AttemptNumbers
      PROVE  TaskOK(j, n)
  <2>1. pc[j][n] = "none" /\ Stage(j, n) = "none" /\ attState[j][n] = "none" /\ sweeps = {}
    BY DEF TaskInit, Init, Stage
  <2> QED BY <2>1 DEF TaskOK, InItem, AllDone, ItemWritten, Discarded
<1> QED BY <1>1, <1>2, <1>3, <1>4 DEF TaskInv

\* What every position of a task promises holds throughout.
THEOREM TaskInvCorrect == TaskSpec => []TaskInv
<1> QED BY TaskInvInit, TaskInvNext, PTL DEF TaskSpec

\* The tasks use the queue only in ways its specification allows, whatever their
\* interleaving with renewals, recovery and their own deaths: what is proved about
\* the queue for arbitrary holders of claims holds of the worker's tasks.
THEOREM TasksUseTheQueue == TaskSpec => Spec
<1>1. TaskInit => Init
  BY DEF TaskInit
<1> QED BY <1>1, TaskInvCorrect, StepOfQueue, PTL DEF TaskSpec, Spec

\* What the owner of a job is promised is kept by the worker's own tasks, with their
\* renewals, crashes, late encoders and late commits.
THEOREM TasksImplementLifecycle == TaskSpec => ImplementsLifecycle
<1> QED BY TasksUseTheQueue, QueueImplementsLifecycle

\* Positions, files and sweeps keep to their types.
THEOREM TaskTypesCorrect == TaskSpec => []TaskTypeOK
<1>1. TaskInv => TaskTypeOK
  BY DEF TaskInv
<1> QED BY <1>1, TaskInvCorrect, PTL

\* A published row has its file, unless a renewal told the task that its claim was lost.
THEOREM PublicationsKept == TaskSpec => []PublishedOrDisowned
<1>1. TaskInv => PublishedOrDisowned
  BY DEF TaskInv
<1> QED BY <1>1, TaskInvCorrect, PTL

\* The task that holds a row lock is there to release it.
THEOREM LocksHaveTasks == TaskSpec => []LockHasTask
<1>1. TaskInv => LockHasTask
  BY DEF TaskInv
<1> QED BY <1>1, TaskInvCorrect, PTL

\* A task that ends by itself leaves no files of an attempt that did not succeed.
THEOREM TidyEnds == TaskSpec => []TidyEnd
<1>1. ASSUME TaskInv, NEW j \in Jobs, NEW n \in AttemptNumbers,
             At(j, n, "ended"), attState[j][n] # "succeeded"
      PROVE  files \cap Tree(j, n) = {}
  <2>1. Discarded(j, n)
    BY <1>1 DEF TaskInv, TaskOK, Stage, At
  <2>2. files \subseteq Jobs \X AttemptNumbers \X Items
    BY <1>1 DEF TaskInv, TaskTypeOK
  <2> QED BY <2>1, <2>2 DEF Discarded, Tree
<1>2. TaskInv => TidyEnd
  BY <1>1 DEF TidyEnd
<1> QED BY <1>2, TaskInvCorrect, PTL

=============================================================================
