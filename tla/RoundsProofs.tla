----------------------------- MODULE RoundsProofs -----------------------------
(***************************************************************************)
(* Proofs about what a worker does around its tasks: the loop that claims  *)
(* them, for any concurrency limit and any finite set of task identities,  *)
(* and the maintenance passes, for any number of uploads, attempts and     *)
(* overlapping passes.                                                     *)
(*                                                                         *)
(* The limit alone is not inductive: what makes a claim safe was read at   *)
(* an earlier step, before the claim was awaited.  LoopInv says what of it *)
(* is still true when the claim is answered: nothing but the claim itself  *)
(* adds a task, and a flag set meanwhile is seen before the next one.      *)
(*                                                                         *)
(* Nor is it inductive that maintenance never removes the input of a       *)
(* committed job or schedule, or the file of a running attempt: what a     *)
(* walk will remove is settled before it starts, so MaintenanceInv says    *)
(* which files a pass may have settled on at each of its statements.       *)
(***************************************************************************)
EXTENDS WorkerLoop, Maintenance, FiniteSetTheorems, TLAPS

\* What the position of the thread of control says about tasks and claims.
LoopInv ==
  /\ LoopTypeOK
  /\ Cardinality(Held) <= TaskLimit
  /\ at = "claim" => Cardinality(Held) < TaskLimit /\ lateClaims = 0
  /\ lateClaims <= 1
  /\ lateClaims > 0 => stopping
  /\ at = "stop" => Held = {} \/ late \/ cutShort

-----------------------------------------------------------------------------
(***************************************************************************)
(* The set of held tasks.                                                  *)
(***************************************************************************)

\* The tasks of the JoinSet can be counted.
LEMMA HeldFinite == IsFiniteSet(Held) /\ Cardinality(Held) \in Nat
<1>1. IsFiniteSet(Slots) /\ Held \subseteq Slots
  BY LoopAssumption DEF Held
<1>2. IsFiniteSet(Held)
  BY <1>1, FS_Subset
<1> QED  BY <1>2, FS_CardinalityType

\* Whatever only ends, joins or drops tasks leaves no more of them.
LEMMA HeldShrinks ==
  ASSUME \A t \in Slots : task'[t] # "none" => task[t] # "none"
  PROVE  Held' \subseteq Held /\ Cardinality(Held') \in Nat /\ Cardinality(Held') <= Cardinality(Held)
<1>1. Held' \subseteq Held
  BY DEF Held
<1>2. IsFiniteSet(Held) /\ Cardinality(Held) \in Nat
  BY HeldFinite
<1>3. IsFiniteSet(Held') /\ Cardinality(Held') <= Cardinality(Held)
  BY <1>1, <1>2, FS_Subset
<1>4. Cardinality(Held') \in Nat
  BY <1>3, FS_CardinalityType
<1> QED  BY <1>1, <1>3, <1>4

-----------------------------------------------------------------------------
(***************************************************************************)
(* Steps.                                                                  *)
(***************************************************************************)

\* A step that adds no task and does not touch the count of late claims keeps LoopInv,
\* if it starts a claim only below the limit and with the flag unset, and ends a wait
\* for running tasks only for a reason.
LEMMA QuietStep ==
  ASSUME LoopInv, LoopTypeOK',
         \A t \in Slots : task'[t] # "none" => task[t] # "none",
         lateClaims' = lateClaims,
         stopping => stopping',
         at' = "claim" => at = "claim" \/ (Cardinality(Held) < TaskLimit /\ ~stopping),
         at' = "stop" => (at = "stop" \/ Held' = {} \/ late' \/ cutShort'),
         at = "stop" => (late => late') /\ (cutShort => cutShort')
  PROVE  LoopInv'
<1>1. /\ Held' \subseteq Held
      /\ Cardinality(Held') \in Nat
      /\ Cardinality(Held') <= Cardinality(Held)
  BY HeldShrinks
<1>2. Cardinality(Held) \in Nat
  BY HeldFinite
<1>3. lateClaims \in Nat /\ TaskLimit \in Nat
  BY LoopAssumption DEF LoopInv, LoopTypeOK
<1>4. Cardinality(Held') <= TaskLimit
  BY <1>1, <1>2, <1>3 DEF LoopInv
<1>5. at' = "claim" => Cardinality(Held') < TaskLimit /\ lateClaims' = 0
  <2>1. CASE at = "claim"
    BY <2>1, <1>1, <1>2, <1>3 DEF LoopInv
  <2>2. CASE at' = "claim" /\ at # "claim"
    <3>1. Cardinality(Held) < TaskLimit /\ ~stopping
      BY <2>2
    <3>2. lateClaims = 0
      BY <3>1, <1>3 DEF LoopInv
    <3> QED  BY <3>1, <3>2, <1>1, <1>2, <1>3
  <2> QED  BY <2>1, <2>2
<1>6. lateClaims' <= 1 /\ (lateClaims' > 0 => stopping')
  BY DEF LoopInv
<1>7. at' = "stop" => Held' = {} \/ late' \/ cutShort'
  BY <1>1 DEF LoopInv
<1> QED  BY <1>4, <1>5, <1>6, <1>7 DEF LoopInv

\* A claim answered with a job: the slot was free when the claim was sent and still
\* is, and no task was started since the flag was set.
LEMMA ClaimStep ==
  ASSUME LoopInv, LoopTypeOK', NEW t \in Slots, ClaimAndSpawnTask(t)
  PROVE  LoopInv'
<1>1. /\ at = "claim" /\ at' = "fill"
      /\ task[t] = "none"
      /\ task' = [task EXCEPT ![t] = "running"]
      /\ stopping' = stopping
  BY DEF ClaimAndSpawnTask, Goto
<1>2. lateClaims' = IF stopping THEN lateClaims + 1 ELSE lateClaims
  BY DEF ClaimAndSpawnTask
<1>3. task \in [Slots -> {"none", "running", "done", "failed"}]
  BY DEF LoopInv, LoopTypeOK
<1>4. Held' = Held \cup {t} /\ t \notin Held
  BY <1>1, <1>3 DEF Held
<1>5. IsFiniteSet(Held) /\ Cardinality(Held) \in Nat
  BY HeldFinite
<1>6. Cardinality(Held') = Cardinality(Held) + 1
  BY <1>4, <1>5, FS_AddElement
<1>7. Cardinality(Held) < TaskLimit /\ lateClaims = 0 /\ TaskLimit \in Nat
  BY <1>1, LoopAssumption DEF LoopInv
<1>8. Cardinality(Held') <= TaskLimit
  BY <1>5, <1>6, <1>7
<1>9. lateClaims' <= 1 /\ (lateClaims' > 0 => stopping')
  BY <1>1, <1>2, <1>7
<1> QED  BY <1>1, <1>8, <1>9 DEF LoopInv

\* Every step keeps the types.
LEMMA LoopTypeStep ==
  ASSUME LoopTypeOK, [LoopNext]_loopVars
  PROVE  LoopTypeOK'
<1> USE DEF LoopTypeOK, Positions, InLoop, InDrain
<1>1. CASE UNCHANGED loopVars
  BY <1>1 DEF loopVars
<1>2. CASE Register \/ InitialMaintenance \/ ReclaimExpired \/ MaterializeSchedule \/ NothingToClaim
  BY <1>2 DEF Register, InitialMaintenance, ReclaimExpired, MaterializeSchedule, NothingToClaim, Goto
<1>3. CASE CheckShutdown \/ Fill \/ LoopError \/ NoticeShutdown
  BY <1>3 DEF CheckShutdown, Fill, LoopError, NoticeShutdown, LeaveLoop
<1>4. CASE TimerFires \/ Heartbeat \/ ScheduledMaintenance
  BY <1>4 DEF TimerFires, Heartbeat, ScheduledMaintenance, Goto
<1>5. CASE DrainDone \/ DrainTimer \/ DrainHeartbeatError
  BY <1>5 DEF DrainDone, DrainTimer, DrainHeartbeatError, Goto
<1>6. CASE CutOff \/ StopLoop
  BY <1>6 DEF CutOff, StopLoop, Goto
<1>7. ASSUME NEW t \in Slots, ClaimAndSpawnTask(t) \/ JoinTask(t) \/ DrainTask(t) \/ TaskEnds(t)
      PROVE  LoopTypeOK'
  <2>1. CASE ClaimAndSpawnTask(t)
    BY <2>1 DEF ClaimAndSpawnTask, Goto
  <2>2. CASE JoinTask(t)
    BY <2>2 DEF JoinTask
  <2>3. CASE DrainTask(t)
    BY <2>3 DEF DrainTask
  <2>4. CASE TaskEnds(t)
    BY <2>4 DEF TaskEnds
  <2> QED  BY <1>7, <2>1, <2>2, <2>3, <2>4
<1>8. CASE RequestShutdown \/ HeartbeatWindowEnds \/ DeadlinePasses
  BY <1>8 DEF RequestShutdown, HeartbeatWindowEnds, DeadlinePasses
<1> QED  BY <1>1, <1>2, <1>3, <1>4, <1>5, <1>6, <1>7, <1>8 DEF LoopNext, LoopStep

\* One step of the worker keeps LoopInv.
LEMMA LoopInvStep ==
  ASSUME LoopInv, [LoopNext]_loopVars
  PROVE  LoopInv'
<1>1. LoopTypeOK'
  BY LoopTypeStep DEF LoopInv
<1>2. task \in [Slots -> {"none", "running", "done", "failed"}]
  BY DEF LoopInv, LoopTypeOK
<1>3. CASE UNCHANGED loopVars
  BY <1>1, <1>3, QuietStep DEF loopVars
<1>4. CASE Register \/ InitialMaintenance \/ ReclaimExpired \/ MaterializeSchedule \/ NothingToClaim
  <2>1. /\ UNCHANGED <<task, stopping, late, cutShort, lateClaims>>
        /\ at' # "claim" /\ at' # "stop"
    BY <1>4 DEF Register, InitialMaintenance, ReclaimExpired, MaterializeSchedule, NothingToClaim, Goto
  <2> QED  BY <1>1, <2>1, QuietStep
<1>5. CASE CheckShutdown \/ LoopError \/ NoticeShutdown
  <2>1. /\ UNCHANGED <<task, stopping, late, cutShort, lateClaims>>
        /\ at' # "claim" /\ (at' = "stop" => Held = {})
    BY <1>5 DEF CheckShutdown, LoopError, NoticeShutdown, LeaveLoop
  <2>2. Held' = Held
    BY <2>1 DEF Held
  <2> QED  BY <1>1, <2>1, <2>2, QuietStep
<1>6. CASE Fill
  <2>1. /\ UNCHANGED <<task, stopping, late, cutShort, lateClaims>>
        /\ at' # "stop" /\ (at' = "claim" => Cardinality(Held) < TaskLimit /\ ~stopping)
    BY <1>6 DEF Fill
  <2> QED  BY <1>1, <2>1, QuietStep
<1>7. CASE TimerFires \/ Heartbeat \/ ScheduledMaintenance \/ DrainTimer
  <2>1. /\ UNCHANGED <<task, stopping, late, cutShort, lateClaims>>
        /\ at' # "claim" /\ at' # "stop"
    BY <1>7 DEF TimerFires, Heartbeat, ScheduledMaintenance, DrainTimer, Goto
  <2> QED  BY <1>1, <2>1, QuietStep
<1>8. CASE DrainDone \/ DrainHeartbeatError
  <2>1. /\ UNCHANGED <<task, stopping, late, lateClaims>>
        /\ at # "stop" /\ at' = "stop" /\ (Held = {} \/ cutShort')
    BY <1>8 DEF DrainDone, DrainHeartbeatError, Goto
  <2>2. Held' = Held
    BY <2>1 DEF Held
  <2> QED  BY <1>1, <2>1, <2>2, QuietStep
<1>9. CASE CutOff \/ StopLoop
  <2>1. /\ UNCHANGED <<stopping, late, cutShort, lateClaims>>
        /\ task' = [t \in Slots |-> "none"]
        /\ at' # "claim"
    BY <1>9 DEF CutOff, StopLoop, Goto
  <2>2. Held' = {}
    BY <2>1 DEF Held
  <2>3. \A t \in Slots : task'[t] = "none"
    BY <2>1
  <2> QED  BY <1>1, <2>1, <2>2, <2>3, QuietStep
<1>10. ASSUME NEW t \in Slots, JoinTask(t)
       PROVE  LoopInv'
  <2>1. /\ UNCHANGED <<stopping, late, cutShort, lateClaims>>
        /\ task' = [task EXCEPT ![t] = "none"]
        /\ at # "stop" /\ at' # "claim" /\ (at' = "stop" => Held = {t})
    BY <1>10 DEF JoinTask
  <2>2. /\ \A s \in Slots : task'[s] # "none" => task[s] # "none"
        /\ Held' = Held \ {t}
    BY <2>1, <1>2 DEF Held
  <2>3. at' = "stop" => Held' = {}
    BY <2>1, <2>2
  <2> QED  BY <1>1, <2>1, <2>2, <2>3, QuietStep
<1>11. ASSUME NEW t \in Slots, DrainTask(t)
       PROVE  LoopInv'
  <2>1. /\ UNCHANGED <<stopping, late, lateClaims>>
        /\ task' = [task EXCEPT ![t] = "none"]
        /\ at = "drain" /\ task[t] \in {"done", "failed"}
        /\ at' = (IF task[t] = "done" THEN "drain" ELSE "stop")
        /\ cutShort' = (task[t] = "failed")
    BY <1>11 DEF DrainTask
  <2>2. \A s \in Slots : task'[s] # "none" => task[s] # "none"
    BY <2>1, <1>2
  <2>3. at' # "claim" /\ (at' = "stop" => cutShort')
    BY <2>1
  <2> QED  BY <1>1, <2>1, <2>2, <2>3, QuietStep
<1>12. ASSUME NEW t \in Slots, TaskEnds(t)
       PROVE  LoopInv'
  <2>1. /\ UNCHANGED <<at, stopping, late, cutShort, lateClaims>>
        /\ task[t] = "running"
    BY <1>12 DEF TaskEnds
  <2>2. PICK result \in {"done", "failed"} : task' = [task EXCEPT ![t] = result]
    BY <1>12 DEF TaskEnds
  <2>3. \A s \in Slots : task'[s] # "none" => task[s] # "none"
    BY <2>1, <2>2, <1>2
  <2> QED  BY <1>1, <2>1, <2>3, QuietStep
<1>13. ASSUME NEW t \in Slots, ClaimAndSpawnTask(t)
       PROVE  LoopInv'
  BY <1>1, <1>13, ClaimStep
<1>14. CASE RequestShutdown \/ HeartbeatWindowEnds \/ DeadlinePasses
  <2>1. /\ UNCHANGED <<at, task, cutShort, lateClaims>>
        /\ stopping => stopping'
        /\ late => late'
    BY <1>14 DEF RequestShutdown, HeartbeatWindowEnds, DeadlinePasses
  <2> QED  BY <1>1, <2>1, QuietStep
<1> QED
  BY <1>3, <1>4, <1>5, <1>6, <1>7, <1>8, <1>9, <1>10, <1>11, <1>12, <1>13, <1>14
  DEF LoopNext, LoopStep

-----------------------------------------------------------------------------
(***************************************************************************)
(* Theorems.                                                               *)
(***************************************************************************)

\* The inductive invariant holds from the registration of a worker to its end.
THEOREM LoopInvCorrect == LoopSpec => []LoopInv
<1>1. LoopInit => LoopInv
  <2> SUFFICES ASSUME LoopInit PROVE LoopInv  OBVIOUS
  <2>1. LoopTypeOK
    BY DEF LoopInit, LoopTypeOK, Positions
  <2>2. Held = {}
    BY DEF LoopInit, Held
  <2>3. Cardinality(Held) = 0
    BY <2>2, FS_EmptySet
  <2> QED  BY <2>1, <2>3, LoopAssumption DEF LoopInit, LoopInv
<1>2. LoopInv /\ [LoopNext]_loopVars => LoopInv'
  BY LoopInvStep
<1> QED  BY <1>1, <1>2, PTL DEF LoopSpec

\* No worker ever has more tasks than its limit, and at most one is started after the
\* flag is set.
THEOREM TasksAreBounded == LoopSpec => []TasksBounded
<1>1. LoopInv => TasksBounded
  BY DEF LoopInv, TasksBounded
<1> QED  BY <1>1, LoopInvCorrect, PTL

\* No running task is dropped before the grace period is over, unless a task or a
\* heartbeat failed during the drain.
THEOREM DrainIsPatient == LoopSpec => DrainPatience
<1> DEFINE Patient == \A t \in Slots :
             task[t] = "running" /\ task'[t] = "none" => late \/ cutShort
<1>1. LoopInv /\ [LoopNext]_loopVars => [Patient]_loopVars
  <2> SUFFICES ASSUME LoopInv, LoopNext,
                      NEW t \in Slots, task[t] = "running", task'[t] = "none"
               PROVE  late \/ cutShort
    OBVIOUS
  <2>1. task \in [Slots -> {"none", "running", "done", "failed"}]
    BY DEF LoopInv, LoopTypeOK
  <2>2. CASE CutOff
    BY <2>2 DEF CutOff
  <2>3. CASE StopLoop
    BY <2>3 DEF StopLoop, Goto, LoopInv, Held
  <2>4. ASSUME NEW s \in Slots, ClaimAndSpawnTask(s) \/ JoinTask(s) \/ DrainTask(s) \/ TaskEnds(s)
        PROVE  FALSE
    <3>1. task'[t] = task[t] \/ task[t] # "running" \/ task'[t] # "none"
      BY <2>1, <2>4 DEF ClaimAndSpawnTask, JoinTask, DrainTask, TaskEnds
    <3> QED  BY <3>1
  <2>5. task' # task
    OBVIOUS
  <2> QED
    BY <2>2, <2>3, <2>4, <2>5
    DEF LoopNext, LoopStep, Register, InitialMaintenance, CheckShutdown, ReclaimExpired,
        MaterializeSchedule, Fill, NothingToClaim, LoopError, NoticeShutdown, TimerFires,
        Heartbeat, ScheduledMaintenance, DrainDone, DrainTimer, DrainHeartbeatError,
        RequestShutdown, HeartbeatWindowEnds, DeadlinePasses
<1> QED  BY <1>1, LoopInvCorrect, PTL DEF LoopSpec, DrainPatience

-----------------------------------------------------------------------------
(***************************************************************************)
(* Maintenance.                                                            *)
(***************************************************************************)

\* A file whose upload was accepted has its row and is there; one that is staged is
\* there, but is not old yet.
UploadsHeld ==
  \A u \in Uploads :
    /\ u \in rows <=> upload[u] = "accepted"
    /\ upload[u] \in {"staged", "accepted"} => u \in files
    /\ upload[u] = "staged" => u \notin old
    /\ upload[u] = "none" => u \notin files

\* A pass between its two reads has seen every row whose file is old by now, and a
\* walk is only after uploads that ended without a row.
PassesSpareUploads ==
  \A w \in Workers, u \in Uploads :
    /\ phase[w] = "prefixes" /\ u \in rows /\ u \in old => u \in kept[w]
    /\ u \in doomed[w] => upload[u] = "ended"

\* An attempt that has not started has no file.  A pass unlinks the outputs of
\* expired attempts, and its walk is after attempts that do not run any more.
PassesSpareAttempts ==
  /\ \A a \in Attempts : attempt[a] = "none" => a \notin files
  /\ \A w \in Workers, a \in Attempts :
       /\ a \in unlink[w] => attempt[a] = "expired"
       /\ a \in doomed[w] => attempt[a] \notin {"none", "running"}

MaintenanceInv ==
  MaintenanceTypeOK /\ UploadsHeld /\ PassesSpareUploads /\ PassesSpareAttempts

-----------------------------------------------------------------------------
\* The invariant holds initially.
LEMMA InvInitially == MaintenanceInit => MaintenanceInv
  BY DEF MaintenanceInit, MaintenanceInv, MaintenanceTypeOK, UploadsHeld, PassesSpareUploads,
     PassesSpareAttempts, Phases, Paths

\* Every action keeps the types.
LEMMA MaintenanceTypeStep == MaintenanceTypeOK /\ [MaintenanceNext]_maintenanceVars => MaintenanceTypeOK'
<1> SUFFICES ASSUME MaintenanceTypeOK, [MaintenanceNext]_maintenanceVars PROVE MaintenanceTypeOK'
  OBVIOUS
<1> USE MaintenanceAssumption
<1>1. ASSUME NEW u \in Uploads, StageUpload(u) PROVE MaintenanceTypeOK'
  BY <1>1 DEF StageUpload, MaintenanceTypeOK, Phases, Paths, passVars
<1>2. ASSUME NEW u \in Uploads, AcceptUpload(u) PROVE MaintenanceTypeOK'
  BY <1>2 DEF AcceptUpload, MaintenanceTypeOK, Phases, Paths, passVars
<1>3. ASSUME NEW u \in Uploads, RefuseUpload(u) PROVE MaintenanceTypeOK'
  BY <1>3 DEF RefuseUpload, RemoveFiles, MaintenanceTypeOK, Phases, Paths, passVars
<1>4. ASSUME NEW u \in Uploads, AbandonUpload(u) PROVE MaintenanceTypeOK'
  BY <1>4 DEF AbandonUpload, MaintenanceTypeOK, Phases, Paths, passVars
<1>5. ASSUME NEW a \in Attempts, ClaimAttempt(a) PROVE MaintenanceTypeOK'
  BY <1>5 DEF ClaimAttempt, MaintenanceTypeOK, Phases, Paths, passVars
<1>6. ASSUME NEW a \in Attempts, WriteOutput(a) PROVE MaintenanceTypeOK'
  BY <1>6 DEF WriteOutput, MaintenanceTypeOK, Phases, Paths, passVars
<1>7. ASSUME NEW a \in Attempts, Publish(a) PROVE MaintenanceTypeOK'
  BY <1>7 DEF Publish, MaintenanceTypeOK, Phases, Paths, passVars
<1>8. ASSUME NEW a \in Attempts, CloseAttempt(a) PROVE MaintenanceTypeOK'
  BY <1>8 DEF CloseAttempt, RemoveFiles, MaintenanceTypeOK, Phases, Paths, passVars
<1>9. ASSUME NEW f \in Paths, FileAges(f) PROVE MaintenanceTypeOK'
  BY <1>9 DEF FileAges, MaintenanceTypeOK, Phases, Paths, passVars
<1>10. ASSUME NEW w \in Workers, NEW expired \in SUBSET Attempts, ExpireOutputs(w, expired) PROVE MaintenanceTypeOK'
  BY <1>10 DEF ExpireOutputs, MaintenanceTypeOK, Phases, Paths, passVars
<1>11. ASSUME NEW w \in Workers, NEW a \in Attempts, UnlinkExpired(w, a) PROVE MaintenanceTypeOK'
  BY <1>11 DEF UnlinkExpired, RemoveFiles, MaintenanceTypeOK, Phases, Paths, passVars
<1>12. ASSUME NEW w \in Workers, ReadReferences(w) PROVE MaintenanceTypeOK'
  BY <1>12 DEF ReadReferences, MaintenanceTypeOK, Phases, Paths, passVars
<1>13. ASSUME NEW w \in Workers, ReadPrefixes(w) PROVE MaintenanceTypeOK'
  BY <1>13 DEF ReadPrefixes, MaintenanceTypeOK, Phases, Paths, passVars
<1>14. ASSUME NEW w \in Workers, NEW f \in Paths, RemoveOrphan(w, f) PROVE MaintenanceTypeOK'
  BY <1>14 DEF RemoveOrphan, RemoveFiles, MaintenanceTypeOK, Phases, Paths, passVars
<1>15. ASSUME NEW w \in Workers, ForgetPass(w) PROVE MaintenanceTypeOK'
  BY <1>15 DEF ForgetPass, MaintenanceTypeOK, Phases, Paths, passVars
<1>16. CASE UNCHANGED maintenanceVars
  BY <1>16 DEF maintenanceVars, passVars, MaintenanceTypeOK, Phases, Paths, passVars
<1> QED
  BY <1>1, <1>2, <1>3, <1>4, <1>5, <1>6, <1>7, <1>8, <1>9, <1>10, <1>11, <1>12, <1>13, <1>14, <1>15, <1>16
     DEF MaintenanceNext, UploadStep, AttemptStep, PassStep, EndPass, AbortPass

\* Every action keeps what is known of the uploads.
LEMMA UploadsStep == MaintenanceInv /\ [MaintenanceNext]_maintenanceVars => UploadsHeld'
<1> SUFFICES ASSUME MaintenanceInv, [MaintenanceNext]_maintenanceVars PROVE UploadsHeld'
  OBVIOUS
<1> USE MaintenanceAssumption DEF MaintenanceInv, MaintenanceTypeOK
<1>1. ASSUME NEW u \in Uploads, StageUpload(u) PROVE UploadsHeld'
  BY <1>1 DEF StageUpload, UploadsHeld, PassesSpareUploads, PassesSpareAttempts, Phases, Paths, passVars
<1>2. ASSUME NEW u \in Uploads, AcceptUpload(u) PROVE UploadsHeld'
  BY <1>2 DEF AcceptUpload, UploadsHeld, PassesSpareUploads, PassesSpareAttempts, Phases, Paths, passVars
<1>3. ASSUME NEW u \in Uploads, RefuseUpload(u) PROVE UploadsHeld'
  BY <1>3 DEF RefuseUpload, RemoveFiles, UploadsHeld, PassesSpareUploads, PassesSpareAttempts, Phases, Paths, passVars
<1>4. ASSUME NEW u \in Uploads, AbandonUpload(u) PROVE UploadsHeld'
  BY <1>4 DEF AbandonUpload, UploadsHeld, PassesSpareUploads, PassesSpareAttempts, Phases, Paths, passVars
<1>5. ASSUME NEW a \in Attempts, ClaimAttempt(a) PROVE UploadsHeld'
  BY <1>5 DEF ClaimAttempt, UploadsHeld, PassesSpareUploads, PassesSpareAttempts, Phases, Paths, passVars
<1>6. ASSUME NEW a \in Attempts, WriteOutput(a) PROVE UploadsHeld'
  BY <1>6 DEF WriteOutput, UploadsHeld, PassesSpareUploads, PassesSpareAttempts, Phases, Paths, passVars
<1>7. ASSUME NEW a \in Attempts, Publish(a) PROVE UploadsHeld'
  BY <1>7 DEF Publish, UploadsHeld, PassesSpareUploads, PassesSpareAttempts, Phases, Paths, passVars
<1>8. ASSUME NEW a \in Attempts, CloseAttempt(a) PROVE UploadsHeld'
  BY <1>8 DEF CloseAttempt, RemoveFiles, UploadsHeld, PassesSpareUploads, PassesSpareAttempts, Phases, Paths, passVars
<1>9. ASSUME NEW f \in Paths, FileAges(f) PROVE UploadsHeld'
  BY <1>9 DEF FileAges, UploadWithinGrace, UploadsHeld, PassesSpareUploads, PassesSpareAttempts, Phases, Paths, passVars
<1>10. ASSUME NEW w \in Workers, NEW expired \in SUBSET Attempts, ExpireOutputs(w, expired) PROVE UploadsHeld'
  BY <1>10 DEF ExpireOutputs, UploadsHeld, PassesSpareUploads, PassesSpareAttempts, Phases, Paths, passVars
<1>11. ASSUME NEW w \in Workers, NEW a \in Attempts, UnlinkExpired(w, a) PROVE UploadsHeld'
  BY <1>11 DEF UnlinkExpired, RemoveFiles, UploadsHeld, PassesSpareUploads, PassesSpareAttempts, Phases, Paths, passVars
<1>12. ASSUME NEW w \in Workers, ReadReferences(w) PROVE UploadsHeld'
  BY <1>12 DEF ReadReferences, UploadsHeld, PassesSpareUploads, PassesSpareAttempts, Phases, Paths, passVars
<1>13. ASSUME NEW w \in Workers, ReadPrefixes(w) PROVE UploadsHeld'
  BY <1>13 DEF ReadPrefixes, UploadsHeld, PassesSpareUploads, PassesSpareAttempts, Phases, Paths, passVars
<1>14. ASSUME NEW w \in Workers, NEW f \in Paths, RemoveOrphan(w, f) PROVE UploadsHeld'
  BY <1>14 DEF RemoveOrphan, RemoveFiles, UploadsHeld, PassesSpareUploads, PassesSpareAttempts, Phases, Paths, passVars
<1>15. ASSUME NEW w \in Workers, ForgetPass(w) PROVE UploadsHeld'
  BY <1>15 DEF ForgetPass, UploadsHeld, PassesSpareUploads, PassesSpareAttempts, Phases, Paths, passVars
<1>16. CASE UNCHANGED maintenanceVars
  BY <1>16 DEF maintenanceVars, passVars, UploadsHeld, PassesSpareUploads, PassesSpareAttempts, Phases, Paths, passVars
<1> QED
  BY <1>1, <1>2, <1>3, <1>4, <1>5, <1>6, <1>7, <1>8, <1>9, <1>10, <1>11, <1>12, <1>13, <1>14, <1>15, <1>16
     DEF MaintenanceNext, UploadStep, AttemptStep, PassStep, EndPass, AbortPass

\* Every action keeps what passes are known to spare.
LEMMA PassesStep == MaintenanceInv /\ [MaintenanceNext]_maintenanceVars => PassesSpareUploads'
<1> SUFFICES ASSUME MaintenanceInv, [MaintenanceNext]_maintenanceVars PROVE PassesSpareUploads'
  OBVIOUS
<1> USE MaintenanceAssumption DEF MaintenanceInv, MaintenanceTypeOK
<1>1. ASSUME NEW u \in Uploads, StageUpload(u) PROVE PassesSpareUploads'
  BY <1>1 DEF StageUpload, UploadsHeld, PassesSpareUploads, Phases, Paths, passVars
<1>2. ASSUME NEW u \in Uploads, AcceptUpload(u) PROVE PassesSpareUploads'
  BY <1>2 DEF AcceptUpload, UploadsHeld, PassesSpareUploads, Phases, Paths, passVars
<1>3. ASSUME NEW u \in Uploads, RefuseUpload(u) PROVE PassesSpareUploads'
  BY <1>3 DEF RefuseUpload, RemoveFiles, UploadsHeld, PassesSpareUploads, Phases, Paths, passVars
<1>4. ASSUME NEW u \in Uploads, AbandonUpload(u) PROVE PassesSpareUploads'
  BY <1>4 DEF AbandonUpload, UploadsHeld, PassesSpareUploads, Phases, Paths, passVars
<1>5. ASSUME NEW a \in Attempts, ClaimAttempt(a) PROVE PassesSpareUploads'
  BY <1>5 DEF ClaimAttempt, UploadsHeld, PassesSpareUploads, Phases, Paths, passVars
<1>6. ASSUME NEW a \in Attempts, WriteOutput(a) PROVE PassesSpareUploads'
  BY <1>6 DEF WriteOutput, UploadsHeld, PassesSpareUploads, Phases, Paths, passVars
<1>7. ASSUME NEW a \in Attempts, Publish(a) PROVE PassesSpareUploads'
  BY <1>7 DEF Publish, UploadsHeld, PassesSpareUploads, Phases, Paths, passVars
<1>8. ASSUME NEW a \in Attempts, CloseAttempt(a) PROVE PassesSpareUploads'
  BY <1>8 DEF CloseAttempt, RemoveFiles, UploadsHeld, PassesSpareUploads, Phases, Paths, passVars
<1>9. ASSUME NEW f \in Paths, FileAges(f) PROVE PassesSpareUploads'
  BY <1>9 DEF FileAges, UploadWithinGrace, UploadsHeld, PassesSpareUploads, Phases, Paths, passVars
<1>10. ASSUME NEW w \in Workers, NEW expired \in SUBSET Attempts, ExpireOutputs(w, expired) PROVE PassesSpareUploads'
  BY <1>10 DEF ExpireOutputs, UploadsHeld, PassesSpareUploads, Phases, Paths, passVars
<1>11. ASSUME NEW w \in Workers, NEW a \in Attempts, UnlinkExpired(w, a) PROVE PassesSpareUploads'
  BY <1>11 DEF UnlinkExpired, RemoveFiles, UploadsHeld, PassesSpareUploads, Phases, Paths, passVars
<1>12. ASSUME NEW w \in Workers, ReadReferences(w) PROVE PassesSpareUploads'
  BY <1>12 DEF ReadReferences, UploadsHeld, PassesSpareUploads, Phases, Paths, passVars
<1>13. ASSUME NEW w \in Workers, ReadPrefixes(w) PROVE PassesSpareUploads'
  BY <1>13 DEF ReadPrefixes, UploadsHeld, PassesSpareUploads, Phases, Paths, passVars
<1>14. ASSUME NEW w \in Workers, NEW f \in Paths, RemoveOrphan(w, f) PROVE PassesSpareUploads'
  BY <1>14 DEF RemoveOrphan, RemoveFiles, UploadsHeld, PassesSpareUploads, Phases, Paths, passVars
<1>15. ASSUME NEW w \in Workers, ForgetPass(w) PROVE PassesSpareUploads'
  BY <1>15 DEF ForgetPass, UploadsHeld, PassesSpareUploads, Phases, Paths, passVars
<1>16. CASE UNCHANGED maintenanceVars
  BY <1>16 DEF maintenanceVars, passVars, UploadsHeld, PassesSpareUploads, Phases, Paths, passVars
<1> QED
  BY <1>1, <1>2, <1>3, <1>4, <1>5, <1>6, <1>7, <1>8, <1>9, <1>10, <1>11, <1>12, <1>13, <1>14, <1>15, <1>16
     DEF MaintenanceNext, UploadStep, AttemptStep, PassStep, EndPass, AbortPass

\* Every action keeps what is known of the attempts.
LEMMA AttemptsStep == MaintenanceInv /\ [MaintenanceNext]_maintenanceVars => PassesSpareAttempts'
<1> SUFFICES ASSUME MaintenanceInv, [MaintenanceNext]_maintenanceVars PROVE PassesSpareAttempts'
  OBVIOUS
<1> USE MaintenanceAssumption DEF MaintenanceInv, MaintenanceTypeOK
<1>1. ASSUME NEW u \in Uploads, StageUpload(u) PROVE PassesSpareAttempts'
  BY <1>1 DEF StageUpload, PassesSpareAttempts, UploadsHeld, PassesSpareUploads, Phases, Paths, passVars
<1>2. ASSUME NEW u \in Uploads, AcceptUpload(u) PROVE PassesSpareAttempts'
  BY <1>2 DEF AcceptUpload, PassesSpareAttempts, UploadsHeld, PassesSpareUploads, Phases, Paths, passVars
<1>3. ASSUME NEW u \in Uploads, RefuseUpload(u) PROVE PassesSpareAttempts'
  BY <1>3 DEF RefuseUpload, RemoveFiles, PassesSpareAttempts, UploadsHeld, PassesSpareUploads, Phases, Paths, passVars
<1>4. ASSUME NEW u \in Uploads, AbandonUpload(u) PROVE PassesSpareAttempts'
  BY <1>4 DEF AbandonUpload, PassesSpareAttempts, UploadsHeld, PassesSpareUploads, Phases, Paths, passVars
<1>5. ASSUME NEW a \in Attempts, ClaimAttempt(a) PROVE PassesSpareAttempts'
  BY <1>5 DEF ClaimAttempt, PassesSpareAttempts, UploadsHeld, PassesSpareUploads, Phases, Paths, passVars
<1>6. ASSUME NEW a \in Attempts, WriteOutput(a) PROVE PassesSpareAttempts'
  BY <1>6 DEF WriteOutput, PassesSpareAttempts, UploadsHeld, PassesSpareUploads, Phases, Paths, passVars
<1>7. ASSUME NEW a \in Attempts, Publish(a) PROVE PassesSpareAttempts'
  BY <1>7 DEF Publish, PassesSpareAttempts, UploadsHeld, PassesSpareUploads, Phases, Paths, passVars
<1>8. ASSUME NEW a \in Attempts, CloseAttempt(a) PROVE PassesSpareAttempts'
  BY <1>8 DEF CloseAttempt, RemoveFiles, PassesSpareAttempts, UploadsHeld, PassesSpareUploads, Phases, Paths, passVars
<1>9. ASSUME NEW f \in Paths, FileAges(f) PROVE PassesSpareAttempts'
  BY <1>9 DEF FileAges, PassesSpareAttempts, UploadsHeld, PassesSpareUploads, Phases, Paths, passVars
<1>10. ASSUME NEW w \in Workers, NEW expired \in SUBSET Attempts, ExpireOutputs(w, expired) PROVE PassesSpareAttempts'
  BY <1>10 DEF ExpireOutputs, PassesSpareAttempts, UploadsHeld, PassesSpareUploads, Phases, Paths, passVars
<1>11. ASSUME NEW w \in Workers, NEW a \in Attempts, UnlinkExpired(w, a) PROVE PassesSpareAttempts'
  BY <1>11 DEF UnlinkExpired, RemoveFiles, PassesSpareAttempts, UploadsHeld, PassesSpareUploads, Phases, Paths, passVars
<1>12. ASSUME NEW w \in Workers, ReadReferences(w) PROVE PassesSpareAttempts'
  BY <1>12 DEF ReadReferences, PassesSpareAttempts, UploadsHeld, PassesSpareUploads, Phases, Paths, passVars
<1>13. ASSUME NEW w \in Workers, ReadPrefixes(w) PROVE PassesSpareAttempts'
  BY <1>13 DEF ReadPrefixes, PassesSpareAttempts, UploadsHeld, PassesSpareUploads, Phases, Paths, passVars
<1>14. ASSUME NEW w \in Workers, NEW f \in Paths, RemoveOrphan(w, f) PROVE PassesSpareAttempts'
  BY <1>14 DEF RemoveOrphan, RemoveFiles, PassesSpareAttempts, UploadsHeld, PassesSpareUploads, Phases, Paths, passVars
<1>15. ASSUME NEW w \in Workers, ForgetPass(w) PROVE PassesSpareAttempts'
  BY <1>15 DEF ForgetPass, PassesSpareAttempts, UploadsHeld, PassesSpareUploads, Phases, Paths, passVars
<1>16. CASE UNCHANGED maintenanceVars
  BY <1>16 DEF maintenanceVars, passVars, PassesSpareAttempts, UploadsHeld, PassesSpareUploads, Phases, Paths, passVars
<1> QED
  BY <1>1, <1>2, <1>3, <1>4, <1>5, <1>6, <1>7, <1>8, <1>9, <1>10, <1>11, <1>12, <1>13, <1>14, <1>15, <1>16
     DEF MaintenanceNext, UploadStep, AttemptStep, PassStep, EndPass, AbortPass

-----------------------------------------------------------------------------
\* The invariant holds in every reachable state, whatever passes overlap, are cut
\* short or start over.
THEOREM MaintenanceInvCorrect == MaintenanceSpec => []MaintenanceInv
<1>1. MaintenanceInit => MaintenanceInv
  BY InvInitially
<1>2. MaintenanceInv /\ [MaintenanceNext]_maintenanceVars => MaintenanceInv'
  BY MaintenanceTypeStep, UploadsStep, PassesStep, AttemptsStep DEF MaintenanceInv
<1> QED  BY <1>1, <1>2, PTL DEF MaintenanceSpec

\* Every reachable state of the storage and its passes is type correct.
THEOREM MaintenanceTypeCorrect == MaintenanceSpec => []MaintenanceTypeOK
<1>1. MaintenanceInv => MaintenanceTypeOK
  BY DEF MaintenanceInv
<1> QED  BY <1>1, MaintenanceInvCorrect, PTL

\* No pass removes the input of a committed job or schedule, whatever it read before
\* the row was committed.
THEOREM InputsStay == MaintenanceSpec => []InputsKept
<1>1. MaintenanceInv => InputsKept
  BY DEF MaintenanceInv, UploadsHeld, InputsKept
<1> QED  BY <1>1, MaintenanceInvCorrect, PTL

\* No pass removes the file of an attempt that is still running, however old it is.
THEOREM ActiveOutputsStay == MaintenanceSpec => ActiveOutputsKept
<1> DEFINE Spared == \A a \in Attempts : a \in files /\ a \notin files' => attempt'[a] # "running"
<1>1. MaintenanceInv /\ [MaintenanceNext]_maintenanceVars => [Spared]_maintenanceVars
  <2> SUFFICES ASSUME MaintenanceInv, MaintenanceNext, NEW b \in Attempts, b \in files, b \notin files'
               PROVE  attempt'[b] # "running"
    OBVIOUS
  <2> USE MaintenanceAssumption DEF MaintenanceInv, MaintenanceTypeOK, RemoveFiles
  <2>1. ASSUME NEW u \in Uploads, RefuseUpload(u) PROVE attempt'[b] # "running"
    BY <2>1 DEF RefuseUpload
  <2>2. ASSUME NEW a \in Attempts, CloseAttempt(a) PROVE attempt'[b] # "running"
    BY <2>2 DEF CloseAttempt
  <2>3. ASSUME NEW w \in Workers, NEW a \in Attempts, UnlinkExpired(w, a) PROVE attempt'[b] # "running"
    BY <2>3 DEF UnlinkExpired, PassesSpareAttempts
  <2>4. ASSUME NEW w \in Workers, NEW f \in Paths, RemoveOrphan(w, f) PROVE attempt'[b] # "running"
    BY <2>4 DEF RemoveOrphan, PassesSpareAttempts
  <2> QED
    BY <2>1, <2>2, <2>3, <2>4
    DEF MaintenanceNext, UploadStep, AttemptStep, PassStep, EndPass, AbortPass, ForgetPass, StageUpload,
        AcceptUpload, AbandonUpload, ClaimAttempt, WriteOutput, Publish, FileAges, ExpireOutputs,
        ReadReferences, ReadPrefixes
<1> QED  BY <1>1, MaintenanceInvCorrect, PTL DEF MaintenanceSpec, ActiveOutputsKept

=============================================================================
