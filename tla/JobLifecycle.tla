----------------------------- MODULE JobLifecycle -----------------------------
(***************************************************************************)
(* What the queue promises the owner of a job, without workers, leases or  *)
(* locks: the seven states of JobStatus and the moves between them, at     *)
(* most MaxAttempts executions numbered without gaps, and a manifest that  *)
(* appears whole when the job succeeds and is only ever removed whole.     *)
(***************************************************************************)
EXTENDS Integers

CONSTANTS Jobs, ImageJobs, MaxAttempts  \* as in JobQueue, which states what they must satisfy

VARIABLES
  status,    \* JobStatus, or "absent"
  tried,     \* numbers of the executions started so far
  manifest   \* "none", "complete" or "expired"

vars == <<status, tried, manifest>>

Waiting == {"queued", "retry_waiting"}
Final == {"succeeded", "failed", "cancelled"}

Move(j, from, to) ==
  /\ status[j] \in from
  /\ status' = [status EXCEPT ![j] = to]

-----------------------------------------------------------------------------
Submit(j) ==
  /\ Move(j, {"absent"}, "queued")
  /\ UNCHANGED <<tried, manifest>>

Start(j) ==
  /\ Move(j, Waiting, "running")
  /\ \E n \in 1..MaxAttempts :
       /\ tried[j] = 1..(n - 1)
       /\ tried' = [tried EXCEPT ![j] = 1..n]
  /\ UNCHANGED manifest

Succeed(j) ==
  /\ Move(j, {"running"}, "succeeded")
  /\ manifest' = [manifest EXCEPT ![j] = IF j \in ImageJobs THEN "complete" ELSE @]
  /\ UNCHANGED tried

WaitForRetry(j) ==
  /\ tried[j] # 1..MaxAttempts
  /\ Move(j, {"running"}, "retry_waiting")
  /\ UNCHANGED <<tried, manifest>>

GiveUp(j) ==
  /\ Move(j, {"running"}, "failed")
  /\ UNCHANGED <<tried, manifest>>

\* At once while the job waits, at a safe boundary while it runs.
Cancel(j) ==
  /\ \/ Move(j, Waiting, "cancelled")
     \/ Move(j, {"running"}, "cancel_requested")
     \/ Move(j, {"cancel_requested"}, "cancelled")
  /\ UNCHANGED <<tried, manifest>>

\* Retention removes the manifests of a set of finished jobs.
Expire(old) ==
  /\ \A j \in old : status[j] \in Final
  /\ manifest' = [j \in Jobs |-> IF j \in old THEN "expired" ELSE manifest[j]]
  /\ UNCHANGED <<status, tried>>

-----------------------------------------------------------------------------
Init ==
  /\ status = [j \in Jobs |-> "absent"]
  /\ tried = [j \in Jobs |-> {}]
  /\ manifest = [j \in Jobs |-> "none"]

Next ==
  \/ \E j \in Jobs :
       Submit(j) \/ Start(j) \/ Succeed(j) \/ WaitForRetry(j) \/ GiveUp(j) \/ Cancel(j)
  \/ \E old \in SUBSET Jobs : Expire(old)

Spec == Init /\ [][Next]_vars

=============================================================================
