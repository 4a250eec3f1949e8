------------------------------ MODULE WorkerLoop ------------------------------
(***************************************************************************)
(* The life of one worker process: registration, the loop that recovers,   *)
(* ticks schedules and claims up to the concurrency limit, and the drain   *)
(* after a shutdown signal or an error.  One thread of control awaits one  *)
(* thing at a time; its tasks, the signal and the clock go on beside it.   *)
(*                                                                         *)
(* What a claim, a recovery or a tick does to the tables is in JobQueue    *)
(* and Scheduler, what a task does is in WorkerTask; here is which of them *)
(* the process awaits when, and what an error of each one leads to.  A     *)
(* crash, which ends everything at once, is TaskDies of WorkerTask.        *)
(***************************************************************************)
EXTENDS Naturals, FiniteSets

CONSTANTS
  Slots,     \* identities for tasks of the JoinSet, more than the limit allows
  TaskLimit  \* concurrency_limit

ASSUME LoopAssumption == IsFiniteSet(Slots) /\ TaskLimit \in Nat \ {0}

VARIABLES
  at,          \* what run_with_config does or awaits next
  task,        \* tasks of the JoinSet: "none", "running", or ended and not yet joined
  stopping,    \* the shutdown flag of the watch channel
  lapsed,      \* the database has not seen a heartbeat for the whole window
  late,        \* the deadline of the drain has passed
  cutShort,    \* an error ended the drain
  lateClaims   \* tasks spawned since the flag was set, for TasksBounded

loopVars == <<at, task, stopping, lapsed, late, cutShort, lateClaims>>

Held == {t \in Slots : task[t] # "none"}

InLoop == {"top", "reclaim", "schedule", "fill", "claim", "select", "heartbeat", "maintenance"}
InDrain == {"drain", "drain_heartbeat"}
Positions == {"register", "startup"} \cup InLoop \cup InDrain \cup {"stop", "stopped"}

LoopTypeOK ==
  /\ at \in Positions
  /\ task \in [Slots -> {"none", "running", "done", "failed"}]
  /\ <<stopping, lapsed, late, cutShort>> \in BOOLEAN \X BOOLEAN \X BOOLEAN \X BOOLEAN
  /\ lateClaims \in Nat

Goto(from, to) == at = from /\ at' = to

\* <Definition>_<Slip> is the definition with one slip in it, there to check that a
\* property notices.

-----------------------------------------------------------------------------
\* Start.

\* An error of register_worker is returned at once.
Register ==
  /\ Goto("register", "startup") \/ Goto("register", "stopped")
  /\ UNCHANGED <<task, stopping, lapsed, late, cutShort, lateClaims>>

\* The first maintenance pass; its error is only logged.
InitialMaintenance ==
  /\ Goto("startup", "top")
  /\ UNCHANGED <<task, stopping, lapsed, late, cutShort, lateClaims>>

-----------------------------------------------------------------------------
\* worker_loop.

\* The worker ends at once, with its tasks.
LeaveLoop_NoDrain == at' = "stop"

\* Shutdown or an error: drain_tasks, which has nothing to do without tasks.
LeaveLoop == at' = IF Held = {} THEN "stop" ELSE "drain"

CheckShutdown ==
  /\ at = "top"
  /\ IF stopping THEN LeaveLoop ELSE at' = "reclaim"
  /\ UNCHANGED <<task, stopping, lapsed, late, cutShort, lateClaims>>

\* reclaim_expired_attempts, until there is none left.
ReclaimExpired ==
  /\ Goto("reclaim", "schedule")
  /\ UNCHANGED <<task, stopping, lapsed, late, cutShort, lateClaims>>

\* A recorded occurrence starts the round over.
MaterializeSchedule ==
  /\ Goto("schedule", "top") \/ Goto("schedule", "fill")
  /\ UNCHANGED <<task, stopping, lapsed, late, cutShort, lateClaims>>

\* The flag is only looked at between rounds.
Fill_FlagUnread ==
  /\ at = "fill"
  /\ at' = IF Cardinality(Held) < TaskLimit THEN "claim" ELSE "select"
  /\ UNCHANGED <<task, stopping, lapsed, late, cutShort, lateClaims>>

\* while tasks.len() < concurrency_limit && !*shutdown.borrow(): a task that has
\* ended but is not joined yet still counts.
Fill ==
  /\ at = "fill"
  /\ at' = IF Cardinality(Held) < TaskLimit /\ ~stopping THEN "claim" ELSE "select"
  /\ UNCHANGED <<task, stopping, lapsed, late, cutShort, lateClaims>>

\* claim_next returns a job, which a lapsed worker cannot get; the flag may have been
\* set while the claim was on its way.
ClaimAndSpawnTask(t) ==
  /\ Goto("claim", "fill")
  /\ ~lapsed
  /\ task[t] = "none"
  /\ task' = [task EXCEPT ![t] = "running"]
  /\ lateClaims' = IF stopping THEN lateClaims + 1 ELSE lateClaims
  /\ UNCHANGED <<stopping, lapsed, late, cutShort>>

NothingToClaim ==
  /\ Goto("claim", "select")
  /\ UNCHANGED <<task, stopping, lapsed, late, cutShort, lateClaims>>

\* A database error, or the claim of a job by a lapsed worker.
LoopError ==
  /\ at \in {"reclaim", "schedule", "claim", "heartbeat"}
  /\ LeaveLoop
  /\ UNCHANGED <<task, stopping, lapsed, late, cutShort, lateClaims>>

\* shutdown.changed()
NoticeShutdown ==
  /\ at = "select"
  /\ stopping
  /\ LeaveLoop
  /\ UNCHANGED <<task, stopping, lapsed, late, cutShort, lateClaims>>

\* join_next: the error of one task ends the loop.
JoinTask(t) ==
  /\ at = "select"
  /\ task[t] \in {"done", "failed"}
  /\ task' = [task EXCEPT ![t] = "none"]
  /\ at' = IF task[t] = "done" THEN "top" ELSE IF Held = {t} THEN "stop" ELSE "drain"
  /\ UNCHANGED <<stopping, lapsed, late, cutShort, lateClaims>>

\* A timer of the select! fires: heartbeat, maintenance or the poll interval.
TimerFires ==
  /\ \E next \in {"heartbeat", "maintenance", "top"} : Goto("select", next)
  /\ UNCHANGED <<task, stopping, lapsed, late, cutShort, lateClaims>>

Heartbeat ==
  /\ Goto("heartbeat", "top") \/ Goto("drain_heartbeat", "drain")
  /\ lapsed' = FALSE
  /\ UNCHANGED <<task, stopping, late, cutShort, lateClaims>>

\* A pass inside the loop, an error is only logged: no heartbeat while it lasts.
ScheduledMaintenance ==
  /\ Goto("maintenance", "top")
  /\ UNCHANGED <<task, stopping, lapsed, late, cutShort, lateClaims>>

-----------------------------------------------------------------------------
\* drain_tasks.

DrainDone ==
  /\ Goto("drain", "stop")
  /\ Held = {}
  /\ UNCHANGED <<task, stopping, lapsed, late, cutShort, lateClaims>>

\* The error of one task ends the drain.
DrainTask(t) ==
  /\ at = "drain"
  /\ task[t] \in {"done", "failed"}
  /\ task' = [task EXCEPT ![t] = "none"]
  /\ at' = IF task[t] = "done" THEN "drain" ELSE "stop"
  /\ cutShort' = (task[t] = "failed")
  /\ UNCHANGED <<stopping, lapsed, late, lateClaims>>

DrainTimer ==
  /\ Goto("drain", "drain_heartbeat")
  /\ UNCHANGED <<task, stopping, lapsed, late, cutShort, lateClaims>>

DrainHeartbeatError ==
  /\ Goto("drain_heartbeat", "stop")
  /\ cutShort' = TRUE
  /\ UNCHANGED <<task, stopping, lapsed, late, lateClaims>>

\* The deadline only stops the wait once every task has ended by itself.
CutOff_Waits ==
  /\ Goto("drain", "stop")
  /\ late
  /\ \A t \in Slots : task[t] # "running"
  /\ task' = [t \in Slots |-> "none"]
  /\ UNCHANGED <<stopping, lapsed, late, cutShort, lateClaims>>

\* The deadline: abort_all, and join_next until the set is empty.  An abort takes
\* effect at the task's next await; a panic met here has the tasks dropped instead.
CutOff ==
  /\ Goto("drain", "stop")
  /\ late
  /\ task' = [t \in Slots |-> "none"]
  /\ UNCHANGED <<stopping, lapsed, late, cutShort, lateClaims>>

\* stop_worker and the return, which drops the tasks that are left.
StopLoop ==
  /\ Goto("stop", "stopped")
  /\ task' = [t \in Slots |-> "none"]
  /\ UNCHANGED <<stopping, lapsed, late, cutShort, lateClaims>>

-----------------------------------------------------------------------------
\* Beside the loop.

\* Ok, or an error of the repository or a panic.
TaskEnds(t) ==
  /\ task[t] = "running"
  /\ \E result \in {"done", "failed"} : task' = [task EXCEPT ![t] = result]
  /\ UNCHANGED <<at, stopping, lapsed, late, cutShort, lateClaims>>

\* Ctrl+C
RequestShutdown ==
  /\ ~stopping
  /\ stopping' = TRUE
  /\ UNCHANGED <<at, task, lapsed, late, cutShort, lateClaims>>

\* The loop was busy for longer than the heartbeat window.
HeartbeatWindowEnds ==
  /\ at \notin {"register", "stopped"}
  /\ ~lapsed
  /\ lapsed' = TRUE
  /\ UNCHANGED <<at, task, stopping, late, cutShort, lateClaims>>

DeadlinePasses ==
  /\ at \in InDrain
  /\ ~late
  /\ late' = TRUE
  /\ UNCHANGED <<at, task, stopping, lapsed, cutShort, lateClaims>>

-----------------------------------------------------------------------------
LoopInit ==
  /\ at = "register"
  /\ task = [t \in Slots |-> "none"]
  /\ stopping = FALSE /\ lapsed = FALSE /\ late = FALSE /\ cutShort = FALSE
  /\ lateClaims = 0

\* The thread of control.
LoopStep ==
  \/ Register \/ InitialMaintenance
  \/ CheckShutdown \/ ReclaimExpired \/ MaterializeSchedule \/ Fill
  \/ NothingToClaim \/ LoopError \/ NoticeShutdown \/ TimerFires
  \/ Heartbeat \/ ScheduledMaintenance
  \/ DrainDone \/ DrainTimer \/ DrainHeartbeatError \/ CutOff \/ StopLoop
  \/ \E t \in Slots : ClaimAndSpawnTask(t) \/ JoinTask(t) \/ DrainTask(t)

LoopNext ==
  \/ LoopStep
  \/ \E t \in Slots : TaskEnds(t)
  \/ RequestShutdown \/ HeartbeatWindowEnds \/ DeadlinePasses

LoopSpec == LoopInit /\ [][LoopNext]_loopVars

\* Every await of the loop is answered and the clock goes on.  The deadline stays
\* ready while heartbeats, which are due every few seconds, come and go.  Nothing is
\* assumed of the tasks.
LoopFairness ==
  /\ WF_loopVars(LoopStep)
  /\ WF_loopVars(DeadlinePasses)
  /\ SF_loopVars(CutOff)

FairLoopSpec == LoopSpec /\ LoopFairness

-----------------------------------------------------------------------------
\* Safety.

\* The worker never has more tasks than its limit, ended ones that wait to be joined
\* included: each of them may hold a database connection and an encoder.  And after
\* Ctrl+C it "stops accepting new jobs": only a claim that was already on its way can
\* still start a task, and only one is ever on its way.
TasksBounded == Cardinality(Held) <= TaskLimit /\ lateClaims <= 1

\* A worker that ends lets its running tasks finish for the grace period, whatever
\* made it end; they are cut off before only if a task or a heartbeat fails during
\* the drain.
DrainPatience ==
  [][\A t \in Slots :
       task[t] = "running" /\ task'[t] = "none" => late \/ cutShort]_loopVars

-----------------------------------------------------------------------------
\* Liveness.

\* A worker that was asked to stop stops, even if its tasks never end, at whatever
\* point of a round the signal arrived.
DrainEnds == stopping ~> at = "stopped"

=============================================================================
