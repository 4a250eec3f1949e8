---------------------------- MODULE SchedulerProofs ----------------------------
(***************************************************************************)
(* Proofs about Scheduler, for any schedules, workers, edits in flight,    *)
(* intervals and anchors.                                                  *)
(*                                                                         *)
(* None of the properties is inductive by itself.  OneTickPerSchedule and  *)
(* TickRelies carry the rest: a tick that has locked a row knows that no   *)
(* other tick and no edit moves the row's cursor or disables it, so the    *)
(* slot it computes from that cursor is an instant between the cursor and  *)
(* the clock (TickSlotBounds).  That gives the types, and with HasOverlap  *)
(* read under the same lock the exclusion of jobs; the grid needs the      *)
(* arithmetic of latest_due_slot and next_slot_after only.  The same facts *)
(* make the COMMIT of a tick, and the UPDATE of an edit, a step of         *)
(* Recurrence, and every other step of schedulers and editors invisible    *)
(* there.                                                                  *)
(***************************************************************************)
EXTENDS Scheduler, FiniteSetTheorems, FunctionTheorems, TLAPS

-----------------------------------------------------------------------------
(***************************************************************************)
(* Slot arithmetic.                                                        *)
(***************************************************************************)

\* Division by an interval.
LEMMA DivisionBounds ==
  ASSUME NEW a \in Nat, NEW d \in Nat \ {0}
  PROVE  /\ a \div d \in Nat
         /\ (a \div d) * d \in Nat
         /\ (a \div d) * d <= a
         /\ a < (a \div d) * d + d
  OBVIOUS

\* latest_due_slot returns the last slot counted from the cursor that is not in
\* the future.
LEMMA MissedSlotsBounds ==
  ASSUME NEW next \in Nat, NEW step \in Nat \ {0}, NEW t \in Nat, next <= t
  PROVE  /\ MissedSlots(next, step, t) \in Nat
         /\ LatestDueSlot(next, step, t) \in Nat
         /\ next <= LatestDueSlot(next, step, t)
         /\ LatestDueSlot(next, step, t) <= t
         /\ t < LatestDueSlot(next, step, t) + step
<1> DEFINE a == t - next
<1>1. a \in Nat  OBVIOUS
<1>2. /\ a \div step \in Nat
      /\ (a \div step) * step \in Nat
      /\ (a \div step) * step <= a
      /\ a < (a \div step) * step + step
  BY <1>1, DivisionBounds
<1> DEFINE m == a \div step
           p == m * step
<1>3. /\ m \in Nat /\ p \in Nat /\ p <= a /\ a < p + step
  BY <1>2
<1>4. MissedSlots(next, step, t) = m /\ LatestDueSlot(next, step, t) = next + p
  BY DEF MissedSlots, LatestDueSlot
<1> HIDE DEF m, p
<1> QED  BY <1>1, <1>3, <1>4

\* A slot and a number of intervals further on is a slot again.
LEMMA SlotsAdd ==
  ASSUME NEW start \in Nat, NEW step \in Nat \ {0}, NEW k \in Nat, NEW m \in Nat
  PROVE  /\ k <= start + k * step
         /\ start + k * step + m * step + step = start + (k + m + 1) * step
  OBVIOUS

\* next_slot_after returns a slot of the new anchor and interval in the future.
LEMMA NextSlotAfterOnGrid ==
  ASSUME NEW start \in Nat, NEW step \in Nat \ {0}, NEW t \in Nat
  PROVE  /\ NextSlotAfter(start, step, t) \in Nat
         /\ t < NextSlotAfter(start, step, t)
         /\ \E k \in 0..NextSlotAfter(start, step, t) :
              NextSlotAfter(start, step, t) = start + k * step
<1>1. CASE start > t
  <2>1. NextSlotAfter(start, step, t) = start
    BY <1>1 DEF NextSlotAfter
  <2>2. 0 \in 0..start /\ start = start + 0 * step
    OBVIOUS
  <2> QED  BY <1>1, <2>1, <2>2
<1>2. CASE ~(start > t)
  <2> DEFINE n == (t - start) \div step
             slot == start + (n + 1) * step
  <2>1. t - start \in Nat
    BY <1>2
  <2>2. /\ n \in Nat
        /\ t - start < n * step + step
    BY <2>1, DivisionBounds
  <2>3. NextSlotAfter(start, step, t) = slot
    BY <1>2 DEF NextSlotAfter
  <2> HIDE DEF n
  <2>4. slot \in Nat /\ slot = start + n * step + step /\ n + 1 <= slot
    BY <2>2
  <2>5. t < slot
    <3> DEFINE p == n * step
    <3>1. p \in Nat
      BY <2>2
    <3>2. t - start < p + step /\ slot = start + p + step
      BY <2>2, <2>4
    <3> HIDE DEF p, slot
    <3> QED  BY <3>1, <3>2
  <2>6. n + 1 \in 0..slot
    BY <2>2, <2>4
  <2> HIDE DEF slot
  <2>7. \E k \in 0..slot : slot = start + k * step
    BY <2>6 DEF slot
  <2> QED  BY <2>3, <2>4, <2>5, <2>7
<1> QED  BY <1>1, <1>2

-----------------------------------------------------------------------------
(***************************************************************************)
(* What is in flight may rely on: the clock values of ticks and edits are  *)
(* not ahead of the clock, and the row a tick has locked exists, is        *)
(* enabled, is due and is no other tick's.                                 *)
(***************************************************************************)
TickRelies ==
  /\ \A c \in Schedulers : asOf[c] # Idle => asOf[c] <= now
  /\ \A e \in Editors : editAsOf[e] # Idle => editAsOf[e] <= now
  /\ \A c \in Schedulers : locked[c] # NoSchedule =>
       /\ asOf[c] # Idle
       /\ locked[c] \in known
       /\ enabled[locked[c]]
       /\ cursor[locked[c]] <= asOf[c]

OneTickPerSchedule ==
  \A c, d \in Schedulers : locked[c] = locked[d] /\ locked[c] # NoSchedule => c = d

SchedulerInvariant ==
  /\ SchedulerTypeOK
  /\ OneTickPerSchedule
  /\ TickRelies
  /\ NoOverlap
  /\ HistoryHasJobs
  /\ CursorOnGrid

\* The invariant holds before the first schedule is created.
LEMMA InitHolds == Init => SchedulerInvariant
<1> SUFFICES ASSUME Init PROVE SchedulerInvariant
  OBVIOUS
<1> USE ScheduleAssumption
<1>1. SchedulerTypeOK
  BY DEF Init, SchedulerTypeOK, Times, Live
<1>2. OneTickPerSchedule /\ TickRelies
  BY DEF Init, OneTickPerSchedule, TickRelies
<1>3. NoOverlap /\ HistoryHasJobs
  BY DEF Init, NoOverlap, HistoryHasJobs, Times, Live
<1>4. CursorOnGrid
  BY DEF Init, CursorOnGrid
<1> QED  BY <1>1, <1>2, <1>3, <1>4 DEF SchedulerInvariant

\* The slot a tick records lies between the cursor and the tick's clock value.
LEMMA TickSlotBounds ==
  ASSUME SchedulerTypeOK, TickRelies, NEW c \in Schedulers, NEW s \in Schedules, locked[c] = s
  PROVE  /\ TickSlot(c) = LatestDueSlot(cursor[s], interval[s], asOf[c])
         /\ TickSlot(c) \in Times
         /\ TickSlot(c) <= now
         /\ cursor[s] <= TickSlot(c)
         /\ MissedSlots(cursor[s], interval[s], asOf[c]) \in Nat
<1>1. s # NoSchedule
  BY ScheduleAssumption
<1>2. asOf[c] \in Times /\ asOf[c] <= now /\ cursor[s] <= asOf[c]
  BY <1>1 DEF TickRelies, SchedulerTypeOK
<1>3. cursor[s] \in Nat /\ interval[s] \in Nat \ {0} /\ now \in Times
  BY ScheduleAssumption DEF SchedulerTypeOK
<1>4. asOf[c] \in Nat /\ asOf[c] <= Horizon /\ now \in Nat /\ Horizon \in Nat
  BY <1>2, <1>3, ScheduleAssumption DEF Times
<1>5. TickSlot(c) = LatestDueSlot(cursor[s], interval[s], asOf[c])
  BY DEF TickSlot
<1>6. /\ MissedSlots(cursor[s], interval[s], asOf[c]) \in Nat
      /\ TickSlot(c) \in Nat
      /\ cursor[s] <= TickSlot(c)
      /\ TickSlot(c) <= asOf[c]
  BY <1>2, <1>3, <1>4, <1>5, MissedSlotsBounds
<1>7. TickSlot(c) \in Times /\ TickSlot(c) <= now
  BY <1>2, <1>4, <1>6 DEF Times
<1> QED  BY <1>5, <1>6, <1>7

-----------------------------------------------------------------------------
\* Type correctness, one step per action.
LEMMA TypeStep ==
  ASSUME SchedulerTypeOK, TickRelies, Next
  PROVE  SchedulerTypeOK'
<1> USE ScheduleAssumption
<1>1. ASSUME NEW s \in Schedules, NEW step \in Intervals, NEW start \in Anchors,
             CreateSchedule(s, step, start)
      PROVE  SchedulerTypeOK'
  BY <1>1 DEF CreateSchedule, SchedulerTypeOK, history, ticks
<1>2. ASSUME NEW s \in Schedules, NEW step \in Intervals, NEW start \in Anchors,
             NEW e \in Editors, NEW on \in BOOLEAN, UpdateSchedule(e, s, on, step, start)
      PROVE  SchedulerTypeOK'
  <2>1. editAsOf[e] \in Nat /\ start \in Nat /\ step \in Nat \ {0}
    BY <1>2 DEF UpdateSchedule, SchedulerTypeOK, Times
  <2>2. NextSlotAfter(start, step, editAsOf[e]) \in Nat
    BY <2>1, NextSlotAfterOnGrid
  <2>3. cursor' \in [Schedules -> Nat]
    BY <1>2, <2>2 DEF UpdateSchedule, SchedulerTypeOK
  <2> QED  BY <1>2, <2>3 DEF UpdateSchedule, SchedulerTypeOK, history, ticks
<1>3. ASSUME NEW e \in Editors, BeginEdit(e)
      PROVE  SchedulerTypeOK'
  BY <1>3 DEF BeginEdit, SchedulerTypeOK, plan, history, ticks
<1>4. ASSUME NEW c \in Schedulers, BeginTick(c)
      PROVE  SchedulerTypeOK'
  BY <1>4 DEF BeginTick, SchedulerTypeOK, plan, history
<1>5. ASSUME NEW c \in Schedulers, NothingDue(c)
      PROVE  SchedulerTypeOK'
  BY <1>5 DEF NothingDue, SchedulerTypeOK, plan, history
<1>6. ASSUME NEW c \in Schedulers, RestartWorker(c)
      PROVE  SchedulerTypeOK'
  BY <1>6 DEF RestartWorker, SchedulerTypeOK, plan, history
<1>7. ASSUME NEW c \in Schedulers, NEW s \in Schedules, LockDueSchedule(c, s)
      PROVE  SchedulerTypeOK'
  BY <1>7 DEF LockDueSchedule, SchedulerTypeOK, plan, history
<1>8. ASSUME NEW c \in Schedulers, NEW s \in Schedules, RecordOccurrence(c, s)
      PROVE  SchedulerTypeOK'
  <2> DEFINE t == TickSlot(c)
  <2>1. locked[c] = s
    BY <1>8 DEF RecordOccurrence
  <2>2. t \in Times /\ MissedSlots(cursor[s], interval[s], asOf[c]) \in Nat
    BY <2>1, TickSlotBounds
  <2> HIDE DEF t
  <2>3. t \in Nat /\ interval[s] \in Nat
    <3>1. t \in Nat
      BY <2>2 DEF Times
    <3>2. interval[s] \in Intervals
      BY DEF SchedulerTypeOK
    <3> QED  BY <3>1, <3>2
  <2>4. /\ occurrence' \in [Schedules -> [Times -> {"none", "created", "skipped_overlap"}]]
        /\ job' \in [Schedules -> [Times -> {"none", "ended"} \cup Live]]
    <3>1. CASE HasOverlap(s)
      <4>1. occurrence' = [occurrence EXCEPT ![s][t] = "skipped_overlap"] /\ job' = job
        BY <1>8, <3>1 DEF RecordOccurrence, t
      <4> QED  BY <2>2, <4>1 DEF SchedulerTypeOK
    <3>2. CASE ~HasOverlap(s)
      <4>1. occurrence' = [occurrence EXCEPT ![s][t] = "created"] /\ job' = [job EXCEPT ![s][t] = "waiting"]
        BY <1>8, <3>2 DEF RecordOccurrence, t
      <4>2. "waiting" \in {"none", "ended"} \cup Live
        BY DEF Live
      <4>3. \A r \in Schedules : job[r] \in [Times -> {"none", "ended"} \cup Live]
        BY DEF SchedulerTypeOK
      <4>4. [job[s] EXCEPT ![t] = "waiting"] \in [Times -> {"none", "ended"} \cup Live]
        BY <2>2, <4>2, <4>3
      <4>5. job' = [job EXCEPT ![s] = [job[s] EXCEPT ![t] = "waiting"]]
        BY <4>1
      <4>6. job' \in [Schedules -> [Times -> {"none", "ended"} \cup Live]]
        BY <4>4, <4>5 DEF SchedulerTypeOK
      <4>7. occurrence' \in [Schedules -> [Times -> {"none", "created", "skipped_overlap"}]]
        BY <2>2, <4>1 DEF SchedulerTypeOK
      <4> QED  BY <4>6, <4>7
    <3> QED  BY <3>1, <3>2
  <2>6. coalesced' \in [Schedules -> [Times -> Nat]]
    <3>1. coalesced' = [coalesced EXCEPT ![s][t] = MissedSlots(cursor[s], interval[s], asOf[c])]
      BY <1>8 DEF RecordOccurrence, t
    <3> QED  BY <2>2, <3>1 DEF SchedulerTypeOK
  <2>7. cursor' \in [Schedules -> Nat]
    BY <1>8, <2>3 DEF RecordOccurrence, SchedulerTypeOK, t
  <2>8. asOf' \in [Schedulers -> Times \cup {Idle}] /\ locked' \in [Schedulers -> Schedules \cup {NoSchedule}]
    BY <1>8 DEF RecordOccurrence, SchedulerTypeOK
  <2>9. UNCHANGED <<now, known, enabled, interval, anchor, loop, editAsOf>>
    BY <1>8 DEF RecordOccurrence
  <2> QED  BY <2>4, <2>6, <2>7, <2>8, <2>9 DEF SchedulerTypeOK
<1>9. ASSUME NEW c \in Schedulers, LoopEnds(c)
      PROVE  SchedulerTypeOK'
  BY <1>9 DEF LoopEnds, SchedulerTypeOK, plan, history
<1>10. ASSUME NEW s \in Schedules, NEW t \in Times, JobMoves(s, t)
       PROVE  SchedulerTypeOK'
  <2>1. PICK next \in (Live \cup {"ended"}) \ {job[s][t]} : job' = [job EXCEPT ![s][t] = next]
    BY <1>10 DEF JobMoves
  <2>2. job' \in [Schedules -> [Times -> {"none", "ended"} \cup Live]]
    BY <2>1 DEF SchedulerTypeOK
  <2> QED  BY <1>10, <2>2 DEF JobMoves, SchedulerTypeOK, plan, ticks
<1>11. ASSUME Tick
       PROVE  SchedulerTypeOK'
  BY <1>11 DEF Tick, SchedulerTypeOK, Times, plan, history, ticks
<1> QED
  BY <1>1, <1>2, <1>3, <1>4, <1>5, <1>6, <1>7, <1>8, <1>9, <1>10, <1>11
     DEF Next, ClientStep, SchedulerStep, SelectDueSchedule, DuplicateSlot, CrashWorker

-----------------------------------------------------------------------------
\* The row lock: a tick keeps what it relies on, and keeps it alone.
LEMMA TickStep ==
  ASSUME SchedulerTypeOK, OneTickPerSchedule, TickRelies, Next
  PROVE  OneTickPerSchedule' /\ TickRelies'
<1> USE ScheduleAssumption DEF OneTickPerSchedule, TickRelies
<1>n. now \in Nat
  BY DEF SchedulerTypeOK, Times
<1>1. ASSUME NEW s \in Schedules, NEW step \in Intervals, NEW start \in Anchors,
             CreateSchedule(s, step, start)
      PROVE  OneTickPerSchedule' /\ TickRelies'
  <2>1. \A c \in Schedulers : locked[c] # NoSchedule =>
          cursor'[locked[c]] = cursor[locked[c]] /\ enabled'[locked[c]] = enabled[locked[c]]
    BY <1>1 DEF CreateSchedule, SchedulerTypeOK
  <2> QED  BY <1>1, <2>1 DEF CreateSchedule, ticks
<1>2. ASSUME NEW s \in Schedules, NEW step \in Intervals, NEW start \in Anchors,
             NEW e \in Editors, NEW on \in BOOLEAN, UpdateSchedule(e, s, on, step, start)
      PROVE  OneTickPerSchedule' /\ TickRelies'
  <2>1. \A c \in Schedulers : locked[c] # NoSchedule =>
          cursor'[locked[c]] = cursor[locked[c]] /\ enabled'[locked[c]] = enabled[locked[c]]
    BY <1>2 DEF UpdateSchedule, SchedulerTypeOK
  <2>2. \A d \in Editors : editAsOf'[d] # Idle => editAsOf'[d] = editAsOf[d]
    BY <1>2 DEF UpdateSchedule, SchedulerTypeOK
  <2> QED  BY <1>2, <2>1, <2>2 DEF UpdateSchedule, ticks
<1>3. ASSUME NEW e \in Editors, BeginEdit(e)
      PROVE  OneTickPerSchedule' /\ TickRelies'
  BY <1>3, <1>n DEF BeginEdit, plan, ticks, SchedulerTypeOK
<1>4. ASSUME NEW c \in Schedulers, BeginTick(c)
      PROVE  OneTickPerSchedule' /\ TickRelies'
  BY <1>4, <1>n DEF BeginTick, plan, SchedulerTypeOK
<1>5. ASSUME NEW c \in Schedulers, NothingDue(c)
      PROVE  OneTickPerSchedule' /\ TickRelies'
  BY <1>5 DEF NothingDue, plan, SchedulerTypeOK
<1>6. ASSUME NEW c \in Schedulers, RestartWorker(c)
      PROVE  OneTickPerSchedule' /\ TickRelies'
  BY <1>6 DEF RestartWorker, plan
<1>7. ASSUME NEW c \in Schedulers, NEW s \in Schedules, LockDueSchedule(c, s)
      PROVE  OneTickPerSchedule' /\ TickRelies'
  <2>1. /\ s \in known /\ enabled[s] /\ cursor[s] <= asOf[c] /\ asOf[c] # Idle
        /\ \A d \in Schedulers : locked[d] # s
        /\ locked' = [locked EXCEPT ![c] = s]
        /\ UNCHANGED <<now, known, enabled, cursor, asOf, editAsOf>>
    BY <1>7 DEF LockDueSchedule, Due, plan
  <2> QED  BY <2>1 DEF SchedulerTypeOK
<1>8. ASSUME NEW c \in Schedulers, NEW s \in Schedules, RecordOccurrence(c, s)
      PROVE  OneTickPerSchedule' /\ TickRelies'
  <2>1. /\ locked[c] = s
        /\ cursor' = [cursor EXCEPT ![s] = TickSlot(c) + interval[s]]
        /\ locked' = [locked EXCEPT ![c] = NoSchedule]
        /\ asOf' = [asOf EXCEPT ![c] = Idle]
        /\ UNCHANGED <<now, known, enabled, editAsOf>>
    BY <1>8 DEF RecordOccurrence
  <2>2. \A d \in Schedulers : d # c => locked'[d] = locked[d] /\ asOf'[d] = asOf[d] /\ locked[d] # s
    BY <2>1 DEF SchedulerTypeOK
  <2>3. locked'[c] = NoSchedule /\ asOf'[c] = Idle
    BY <2>1 DEF SchedulerTypeOK
  <2>4. \A r \in Schedules : r # s => cursor'[r] = cursor[r]
    BY <2>1 DEF SchedulerTypeOK
  <2>5. \A d \in Schedulers : locked[d] # NoSchedule => locked[d] \in Schedules
    BY DEF SchedulerTypeOK
  <2> QED  BY <2>1, <2>2, <2>3, <2>4, <2>5
<1>9. ASSUME NEW c \in Schedulers, LoopEnds(c)
      PROVE  OneTickPerSchedule' /\ TickRelies'
  BY <1>9 DEF LoopEnds, plan, SchedulerTypeOK
<1>10. ASSUME NEW s \in Schedules, NEW t \in Times, JobMoves(s, t)
       PROVE  OneTickPerSchedule' /\ TickRelies'
  BY <1>10 DEF JobMoves, plan, ticks
<1>11. ASSUME Tick
       PROVE  OneTickPerSchedule' /\ TickRelies'
  <2>1. now' = now + 1 /\ UNCHANGED <<known, enabled, cursor, asOf, locked, editAsOf>>
    BY <1>11 DEF Tick, plan, ticks
  <2>2. /\ \A c \in Schedulers : asOf[c] # Idle => asOf[c] \in Nat
        /\ \A e \in Editors : editAsOf[e] # Idle => editAsOf[e] \in Nat
    BY DEF SchedulerTypeOK, Times
  <2> QED  BY <1>n, <2>1, <2>2
<1> HIDE DEF OneTickPerSchedule, TickRelies
<1> QED
  BY <1>1, <1>2, <1>3, <1>4, <1>5, <1>6, <1>7, <1>8, <1>9, <1>10, <1>11
     DEF Next, ClientStep, SchedulerStep, SelectDueSchedule, DuplicateSlot, CrashWorker

\* What one tick writes to the history, with the two outcomes told apart.
LEMMA RecordWrites ==
  ASSUME SchedulerTypeOK, TickRelies, NEW c \in Schedulers, NEW s \in Schedules,
         RecordOccurrence(c, s)
  PROVE  \E t \in Times :
           /\ t <= now
           /\ occurrence[s][t] = "none"
           /\ \/ /\ \A u \in Times : job[s][u] \notin Live
                 /\ occurrence' = [occurrence EXCEPT ![s][t] = "created"]
                 /\ job' = [job EXCEPT ![s][t] = "waiting"]
              \/ /\ occurrence' = [occurrence EXCEPT ![s][t] = "skipped_overlap"]
                 /\ job' = job
<1>1. locked[c] = s
  BY DEF RecordOccurrence
<1>2. TickSlot(c) \in Times /\ TickSlot(c) <= now
  BY <1>1, TickSlotBounds
<1>3. occurrence[s][TickSlot(c)] = "none"
  BY DEF RecordOccurrence
<1>4. CASE HasOverlap(s)
  <2>1. occurrence' = [occurrence EXCEPT ![s][TickSlot(c)] = "skipped_overlap"] /\ job' = job
    BY <1>4 DEF RecordOccurrence
  <2> QED  BY <1>2, <1>3, <2>1
<1>5. CASE ~HasOverlap(s)
  <2>1. /\ occurrence' = [occurrence EXCEPT ![s][TickSlot(c)] = "created"]
        /\ job' = [job EXCEPT ![s][TickSlot(c)] = "waiting"]
    BY <1>5 DEF RecordOccurrence
  <2>2. \A u \in Times : job[s][u] \notin Live
    BY <1>5 DEF HasOverlap
  <2> QED  BY <1>2, <1>3, <2>1, <2>2
<1> QED  BY <1>4, <1>5

\* Every other action leaves the history and its jobs alone.
LEMMA HistoryUntouched ==
  ASSUME Next,
         \A c \in Schedulers, s \in Schedules : ~RecordOccurrence(c, s),
         \A s \in Schedules, t \in Times : ~JobMoves(s, t)
  PROVE  UNCHANGED history
<1>1. ASSUME NEW s \in Schedules, NEW step \in Intervals, NEW start \in Anchors,
             CreateSchedule(s, step, start)
      PROVE  UNCHANGED history
  BY <1>1 DEF CreateSchedule
<1>2. ASSUME NEW s \in Schedules, NEW step \in Intervals, NEW start \in Anchors,
             NEW e \in Editors, NEW on \in BOOLEAN, UpdateSchedule(e, s, on, step, start)
      PROVE  UNCHANGED history
  BY <1>2 DEF UpdateSchedule
<1>3. ASSUME NEW e \in Editors, BeginEdit(e)
      PROVE  UNCHANGED history
  BY <1>3 DEF BeginEdit
<1>4. ASSUME NEW c \in Schedulers, BeginTick(c) \/ NothingDue(c) \/ RestartWorker(c) \/ LoopEnds(c)
      PROVE  UNCHANGED history
  BY <1>4 DEF BeginTick, NothingDue, RestartWorker, LoopEnds
<1>5. ASSUME NEW c \in Schedulers, NEW s \in Schedules, LockDueSchedule(c, s)
      PROVE  UNCHANGED history
  BY <1>5 DEF LockDueSchedule
<1>6. ASSUME Tick
      PROVE  UNCHANGED history
  BY <1>6 DEF Tick
<1> QED
  BY <1>1, <1>2, <1>3, <1>4, <1>5, <1>6
     DEF Next, ClientStep, SchedulerStep, SelectDueSchedule, DuplicateSlot, CrashWorker

\* The jobs of a schedule exclude each other, and its history names them.
LEMMA HistoryStep ==
  ASSUME SchedulerTypeOK, TickRelies, NoOverlap, HistoryHasJobs, Next
  PROVE  NoOverlap' /\ HistoryHasJobs'
<1>n. now \in Nat /\ Times \subseteq Nat
  BY ScheduleAssumption DEF SchedulerTypeOK, Times
<1>1. ASSUME NEW c \in Schedulers, NEW s \in Schedules, RecordOccurrence(c, s)
      PROVE  NoOverlap' /\ HistoryHasJobs'
  <2>1. PICK t \in Times :
          /\ t <= now
          /\ occurrence[s][t] = "none"
          /\ \/ /\ \A u \in Times : job[s][u] \notin Live
                /\ occurrence' = [occurrence EXCEPT ![s][t] = "created"]
                /\ job' = [job EXCEPT ![s][t] = "waiting"]
             \/ /\ occurrence' = [occurrence EXCEPT ![s][t] = "skipped_overlap"]
                /\ job' = job
    BY <1>1, RecordWrites
  <2>2. job[s][t] = "none"
    <3>1. job[s][t] # "none" => occurrence[s][t] = "created"
      BY DEF HistoryHasJobs
    <3> QED  BY <2>1, <3>1
  <2>3. now' = now
    BY <1>1 DEF RecordOccurrence
  <2>4. CASE /\ \A u \in Times : job[s][u] \notin Live
             /\ occurrence' = [occurrence EXCEPT ![s][t] = "created"]
             /\ job' = [job EXCEPT ![s][t] = "waiting"]
    <3>1. \A r \in Schedules, u \in Times :
            /\ r = s /\ u = t => job'[r][u] = "waiting" /\ occurrence'[r][u] = "created"
            /\ ~(r = s /\ u = t) => job'[r][u] = job[r][u] /\ occurrence'[r][u] = occurrence[r][u]
      BY <2>4 DEF SchedulerTypeOK
    <3>2. NoOverlap'
      BY <2>4, <3>1 DEF NoOverlap
    <3>3. HistoryHasJobs'
      BY <2>1, <2>3, <3>1 DEF HistoryHasJobs
    <3> QED  BY <3>2, <3>3
  <2>5. CASE /\ occurrence' = [occurrence EXCEPT ![s][t] = "skipped_overlap"]
             /\ job' = job
    <3>1. \A r \in Schedules, u \in Times :
            /\ r = s /\ u = t => occurrence'[r][u] = "skipped_overlap"
            /\ ~(r = s /\ u = t) => occurrence'[r][u] = occurrence[r][u]
      BY <2>5 DEF SchedulerTypeOK
    <3>2. NoOverlap'
      BY <2>5 DEF NoOverlap
    <3>3. HistoryHasJobs'
      BY <2>1, <2>2, <2>3, <2>5, <3>1 DEF HistoryHasJobs
    <3> QED  BY <3>2, <3>3
  <2> QED  BY <2>1, <2>4, <2>5
<1>2. ASSUME NEW s \in Schedules, NEW t \in Times, JobMoves(s, t)
      PROVE  NoOverlap' /\ HistoryHasJobs'
  <2>1. job[s][t] \in Live /\ UNCHANGED <<now, occurrence>>
    BY <1>2 DEF JobMoves
  <2>2. PICK next \in (Live \cup {"ended"}) \ {job[s][t]} : job' = [job EXCEPT ![s][t] = next]
    BY <1>2 DEF JobMoves
  <2>3. \A r \in Schedules, u \in Times :
          /\ r = s /\ u = t => job'[r][u] = next
          /\ ~(r = s /\ u = t) => job'[r][u] = job[r][u]
    BY <2>2 DEF SchedulerTypeOK
  <2>4. next # "none" /\ job[s][t] # "none"
    BY <2>1, <2>2 DEF Live
  <2>5. NoOverlap'
    BY <2>1, <2>3 DEF NoOverlap
  <2>6. HistoryHasJobs'
    BY <2>1, <2>3, <2>4 DEF HistoryHasJobs
  <2> QED  BY <2>5, <2>6
<1>3. CASE UNCHANGED history
  <2>1. now' \in Nat /\ now <= now'
    <3>1. ASSUME Tick PROVE now' \in Nat /\ now <= now'
      BY <1>n, <3>1 DEF Tick
    <3>2. ASSUME ~Tick PROVE now' = now
      BY <3>2 DEF Next, ClientStep, SchedulerStep, SelectDueSchedule, CreateSchedule, UpdateSchedule, BeginEdit, BeginTick,
                  NothingDue, RestartWorker, LockDueSchedule, RecordOccurrence, DuplicateSlot,
                  CrashWorker, LoopEnds, JobMoves
    <3> QED  BY <1>n, <3>1, <3>2
  <2>2. NoOverlap'
    BY <1>3 DEF NoOverlap, history
  <2>3. HistoryHasJobs'
    <3>1. occurrence' = occurrence /\ job' = job
      BY <1>3 DEF history
    <3>2. \A t \in Times : t <= now => t <= now'
      BY <1>n, <2>1
    <3> QED  BY <3>1, <3>2 DEF HistoryHasJobs
  <2> QED  BY <2>2, <2>3
<1> QED  BY <1>1, <1>2, <1>3, HistoryUntouched

-----------------------------------------------------------------------------
\* The cursor stays on the grid of interval and anchor.
LEMMA GridStep ==
  ASSUME SchedulerTypeOK, TickRelies, CursorOnGrid, Next
  PROVE  CursorOnGrid'
<1>n. Intervals \subseteq Nat \ {0} /\ Anchors \subseteq Nat
  BY ScheduleAssumption
<1>1. ASSUME NEW s \in Schedules, NEW step \in Intervals, NEW start \in Anchors,
             CreateSchedule(s, step, start)
      PROVE  CursorOnGrid'
  <2>1. cursor'[s] = start /\ anchor'[s] = start /\ interval'[s] = step
    BY <1>1 DEF CreateSchedule, SchedulerTypeOK
  <2>2. \A r \in known : cursor'[r] = cursor[r] /\ anchor'[r] = anchor[r] /\ interval'[r] = interval[r]
    BY <1>1 DEF CreateSchedule, SchedulerTypeOK
  <2>3. known' = known \cup {s}
    BY <1>1 DEF CreateSchedule
  <2>4. 0 \in 0..start /\ start = start + 0 * step
    BY <1>n
  <2>5. OnGrid(s, cursor[s])'
    BY <2>1, <2>4 DEF OnGrid
  <2>6. \A r \in known : OnGrid(r, cursor[r])'
    BY <2>2 DEF CursorOnGrid, OnGrid
  <2> QED  BY <2>3, <2>5, <2>6 DEF CursorOnGrid
<1>2. ASSUME NEW s \in Schedules, NEW step \in Intervals, NEW start \in Anchors,
             NEW e \in Editors, NEW on \in BOOLEAN, UpdateSchedule(e, s, on, step, start)
      PROVE  CursorOnGrid'
  <2> DEFINE slot == NextSlotAfter(start, step, editAsOf[e])
  <2>1. cursor'[s] = slot /\ anchor'[s] = start /\ interval'[s] = step
    BY <1>2 DEF UpdateSchedule, SchedulerTypeOK
  <2>2. known' = known
    BY <1>2 DEF UpdateSchedule
  <2>3. \A r \in known : r # s => /\ cursor'[r] = cursor[r]
                                  /\ anchor'[r] = anchor[r]
                                  /\ interval'[r] = interval[r]
    BY <1>2 DEF UpdateSchedule, SchedulerTypeOK
  <2>4. editAsOf[e] \in Nat /\ start \in Nat /\ step \in Nat \ {0}
    BY <1>n, <1>2, ScheduleAssumption DEF UpdateSchedule, SchedulerTypeOK, Times
  <2>5. \E k \in 0..slot : slot = start + k * step
    BY <2>4, NextSlotAfterOnGrid
  <2> HIDE DEF slot
  <2>6. OnGrid(s, cursor[s])'
    BY <2>1, <2>5 DEF OnGrid
  <2>7. \A r \in known : r # s => OnGrid(r, cursor[r])'
    BY <2>3 DEF CursorOnGrid, OnGrid
  <2> QED  BY <2>2, <2>6, <2>7 DEF CursorOnGrid
<1>3. ASSUME NEW c \in Schedulers, NEW s \in Schedules, RecordOccurrence(c, s)
      PROVE  CursorOnGrid'
  <2> DEFINE m == MissedSlots(cursor[s], interval[s], asOf[c])
             a == anchor[s]
             i == interval[s]
  <2>1. locked[c] = s
    BY <1>3 DEF RecordOccurrence
  <2>2. s \in known
    BY <2>1, ScheduleAssumption DEF TickRelies
  <2>3. m \in Nat /\ TickSlot(c) = cursor[s] + m * i
    BY <2>1, TickSlotBounds DEF LatestDueSlot
  <2>4. a \in Nat /\ i \in Nat \ {0}
    BY <1>n DEF SchedulerTypeOK
  <2>5. PICK k \in 0..cursor[s] : cursor[s] = a + k * i
    BY <2>2 DEF CursorOnGrid, OnGrid
  <2>6. k \in Nat
    BY <2>5 DEF SchedulerTypeOK
  <2>7. cursor'[s] = cursor[s] + m * i + i
    BY <1>3, <2>3 DEF RecordOccurrence, SchedulerTypeOK
  <2>8. UNCHANGED <<known, anchor, interval>>
    BY <1>3 DEF RecordOccurrence
  <2>9. \A r \in known : r # s => cursor'[r] = cursor[r]
    BY <1>3 DEF RecordOccurrence, SchedulerTypeOK
  <2> HIDE DEF m, a, i
  <2> DEFINE n == k + m + 1
  <2>10. n \in Nat /\ cursor'[s] = a + n * i
    BY <2>3, <2>4, <2>5, <2>6, <2>7, SlotsAdd
  <2>11. n <= a + n * i /\ a + n * i \in Nat
    BY <2>4, <2>10, SlotsAdd
  <2> HIDE DEF n
  <2>12. n \in 0..cursor'[s]
    BY <2>10, <2>11
  <2>13. OnGrid(s, cursor[s])'
    BY <2>8, <2>10, <2>12 DEF OnGrid, a, i
  <2>14. \A r \in known : r # s => OnGrid(r, cursor[r])'
    BY <2>8, <2>9 DEF CursorOnGrid, OnGrid
  <2> QED  BY <2>8, <2>13, <2>14 DEF CursorOnGrid
<1>4. CASE UNCHANGED plan
  BY <1>4 DEF CursorOnGrid, OnGrid, plan
<1>5. ASSUME \A c \in Schedulers, s \in Schedules : ~RecordOccurrence(c, s),
             ~ClientStep
      PROVE  UNCHANGED plan
  BY <1>5 DEF Next, SchedulerStep, SelectDueSchedule, BeginEdit, BeginTick, NothingDue, RestartWorker, LockDueSchedule,
              DuplicateSlot, CrashWorker, LoopEnds, JobMoves, Tick
<1> QED  BY <1>1, <1>2, <1>3, <1>4, <1>5 DEF ClientStep

-----------------------------------------------------------------------------
\* The invariant is inductive, so it holds in every reachable state.
LEMMA SchedulerInvariantHolds == Spec => []SchedulerInvariant
<1>1. Init => SchedulerInvariant
  BY InitHolds
<1>2. SchedulerInvariant /\ [Next]_vars => SchedulerInvariant'
  <2> SUFFICES ASSUME SchedulerInvariant, [Next]_vars PROVE SchedulerInvariant'
    OBVIOUS
  <2>1. CASE Next
    BY <2>1, TypeStep, TickStep, HistoryStep, GridStep DEF SchedulerInvariant
  <2>2. CASE UNCHANGED vars
    <3> USE <2>2 DEF vars, plan, history, ticks
    <3>1. SchedulerTypeOK'
      BY DEF SchedulerInvariant, SchedulerTypeOK
    <3>2. OneTickPerSchedule' /\ TickRelies'
      BY DEF SchedulerInvariant, OneTickPerSchedule, TickRelies
    <3>3. NoOverlap' /\ HistoryHasJobs'
      BY DEF SchedulerInvariant, NoOverlap, HistoryHasJobs
    <3>4. CursorOnGrid'
      BY DEF SchedulerInvariant, CursorOnGrid, OnGrid
    <3> QED  BY <3>1, <3>2, <3>3, <3>4 DEF SchedulerInvariant
  <2> QED  BY <2>1, <2>2
<1> QED  BY <1>1, <1>2, PTL DEF Spec

-----------------------------------------------------------------------------
(***************************************************************************)
(* Schedules that nobody edits.  That the history lies before the next run *)
(* is false with edits (an edit that read the clock early may put the next *)
(* run back onto a recorded slot), so the invariant below is under the     *)
(* assumption that there are none.                                         *)
(***************************************************************************)

\* Of a schedule that nobody edits, the history lies before the next run, and goes
\* back without gaps to the anchor.
Unedited ==
  /\ \A s \in Schedules, t \in Times : occurrence[s][t] # "none" => s \in known
  /\ CursorAhead
  /\ EverySlotAccounted

\* A tick writes one row, for its slot, and puts the next run one interval further.
LEMMA RecordMoves ==
  ASSUME SchedulerTypeOK, TickRelies, NEW c \in Schedulers, NEW s \in Schedules,
         RecordOccurrence(c, s)
  PROVE  \E t \in Times, m \in Nat :
           /\ s \in known
           /\ t = cursor[s] + m * interval[s]
           /\ cursor[s] <= t
           /\ occurrence[s][t] = "none"
           /\ occurrence'[s][t] # "none"
           /\ coalesced'[s][t] = m
           /\ cursor'[s] = t + interval[s]
           /\ \A r \in Schedules, u \in Times : r # s \/ u # t =>
                occurrence'[r][u] = occurrence[r][u] /\ coalesced'[r][u] = coalesced[r][u]
           /\ \A r \in Schedules : r # s => cursor'[r] = cursor[r]
           /\ UNCHANGED <<known, interval, anchor>>
<1> DEFINE t == TickSlot(c)
           m == MissedSlots(cursor[s], interval[s], asOf[c])
<1>1. locked[c] = s
  BY DEF RecordOccurrence
<1>2. t \in Times /\ m \in Nat /\ cursor[s] <= t /\ t = cursor[s] + m * interval[s]
  BY <1>1, TickSlotBounds DEF LatestDueSlot
<1>3. s \in known
  BY <1>1, ScheduleAssumption DEF TickRelies
<1>4. /\ occurrence[s][t] = "none"
      /\ \/ occurrence' = [occurrence EXCEPT ![s][t] = "created"]
         \/ occurrence' = [occurrence EXCEPT ![s][t] = "skipped_overlap"]
      /\ coalesced' = [coalesced EXCEPT ![s][t] = m]
      /\ cursor' = [cursor EXCEPT ![s] = t + interval[s]]
      /\ UNCHANGED <<known, interval, anchor>>
  BY DEF RecordOccurrence
<1> HIDE DEF t, m
<1>5. /\ occurrence'[s][t] # "none" /\ coalesced'[s][t] = m /\ cursor'[s] = t + interval[s]
      /\ \A r \in Schedules : r # s => cursor'[r] = cursor[r]
  BY <1>2, <1>4 DEF SchedulerTypeOK
<1>6. \A r \in Schedules, u \in Times : r # s \/ u # t =>
        occurrence'[r][u] = occurrence[r][u] /\ coalesced'[r][u] = coalesced[r][u]
  BY <1>2, <1>4 DEF SchedulerTypeOK
<1> QED  BY <1>2, <1>3, <1>4, <1>5, <1>6

\* What was recorded stays recorded, so a predecessor is never lost.
LEMMA PrecedesStays ==
  ASSUME NEW s \in Schedules, NEW t \in Int, Precedes(s, t),
         anchor'[s] = anchor[s], interval'[s] = interval[s],
         \A u \in Times : occurrence[s][u] # "none" => occurrence'[s][u] # "none"
  PROVE  t = anchor'[s] \/ (t - interval'[s] \in Times /\ occurrence'[s][t - interval'[s]] # "none")
  BY DEF Precedes

\* Creation starts an empty history at the anchor.
LEMMA UneditedCreation ==
  ASSUME SchedulerTypeOK, Unedited, NEW s \in Schedules, NEW step \in Intervals, NEW start \in Anchors,
         CreateSchedule(s, step, start)
  PROVE  Unedited'
<1>1. /\ s \notin known /\ known' = known \cup {s}
      /\ UNCHANGED <<occurrence, coalesced>>
  BY DEF CreateSchedule, history
<1>2. /\ cursor'[s] = start /\ anchor'[s] = start
      /\ \A r \in Schedules : r # s =>
           cursor'[r] = cursor[r] /\ anchor'[r] = anchor[r] /\ interval'[r] = interval[r]
  BY DEF CreateSchedule, SchedulerTypeOK
<1>3. \A t \in Times : occurrence[s][t] = "none"
  BY <1>1 DEF Unedited
<1>4. CursorAhead'
  BY <1>1, <1>2, <1>3 DEF CursorAhead, Unedited
<1>5. EverySlotAccounted'
  <2> SUFFICES ASSUME NEW r \in known'
               PROVE  /\ Precedes(r, cursor[r])'
                      /\ \A t \in Times : occurrence'[r][t] # "none" =>
                           /\ Precedes(r, FirstCounted(r, t))'
                           /\ \A u \in Times : FirstCounted(r, t)' <= u /\ u < t => occurrence'[r][u] = "none"
    BY DEF EverySlotAccounted
  <2>1. CASE r = s
    BY <1>1, <1>2, <1>3, <2>1 DEF Precedes
  <2>2. CASE r # s
    <3>1. r \in known /\ r \in Schedules
      BY <1>1, <2>2 DEF SchedulerTypeOK
    <3>2. /\ cursor'[r] = cursor[r] /\ anchor'[r] = anchor[r] /\ interval'[r] = interval[r]
          /\ occurrence'[r] = occurrence[r] /\ coalesced'[r] = coalesced[r]
      BY <1>1, <1>2, <2>2, <3>1
    <3> QED  BY <3>1, <3>2 DEF Unedited, EverySlotAccounted, Precedes, FirstCounted
  <2> QED  BY <2>1, <2>2
<1> QED  BY <1>1, <1>4, <1>5 DEF Unedited

\* A tick adds the row of its slot, which accounts for the slots since the cursor.
LEMMA UneditedTick ==
  ASSUME SchedulerTypeOK, TickRelies, Unedited, NEW c \in Schedulers, NEW s \in Schedules,
         RecordOccurrence(c, s)
  PROVE  Unedited'
<1>n. /\ interval[s] \in Nat \ {0} /\ cursor[s] \in Nat /\ Times \subseteq Nat
  <2>1. interval[s] \in Intervals /\ cursor[s] \in Nat
    BY DEF SchedulerTypeOK
  <2>2. Times \subseteq Nat
    BY ScheduleAssumption DEF Times
  <2> QED  BY <2>1, <2>2, ScheduleAssumption
<1>1. PICK t \in Times, m \in Nat :
        /\ s \in known
        /\ t = cursor[s] + m * interval[s]
        /\ cursor[s] <= t
        /\ occurrence[s][t] = "none"
        /\ occurrence'[s][t] # "none"
        /\ coalesced'[s][t] = m
        /\ cursor'[s] = t + interval[s]
        /\ \A r \in Schedules, u \in Times : r # s \/ u # t =>
             occurrence'[r][u] = occurrence[r][u] /\ coalesced'[r][u] = coalesced[r][u]
        /\ \A r \in Schedules : r # s => cursor'[r] = cursor[r]
        /\ UNCHANGED <<known, interval, anchor>>
  BY RecordMoves
<1>2. \A r \in Schedules, u \in Times : occurrence[r][u] # "none" => occurrence'[r][u] # "none"
  BY <1>1
<1>3. CursorAhead'
  <2> SUFFICES ASSUME NEW r \in Schedules, NEW u \in Times, occurrence'[r][u] # "none"
               PROVE  u < cursor'[r]
    BY DEF CursorAhead
  <2>1. CASE r # s
    BY <1>1, <2>1 DEF Unedited, CursorAhead
  <2>2. CASE r = s /\ u = t
    BY <1>n, <1>1, <2>2
  <2>3. CASE r = s /\ u # t
    <3>1. u < cursor[s]
      BY <1>1, <2>3 DEF Unedited, CursorAhead
    <3>2. cursor[s] < t + interval[s]
      BY <1>n, <1>1
    <3> QED  BY <1>n, <1>1, <2>3, <3>1, <3>2
  <2> QED  BY <2>1, <2>2, <2>3
<1>4. EverySlotAccounted'
  <2> SUFFICES ASSUME NEW r \in known'
               PROVE  /\ Precedes(r, cursor[r])'
                      /\ \A u \in Times : occurrence'[r][u] # "none" =>
                           /\ Precedes(r, FirstCounted(r, u))'
                           /\ \A w \in Times : FirstCounted(r, u)' <= w /\ w < u => occurrence'[r][w] = "none"
    BY DEF EverySlotAccounted
  <2>1. r \in known /\ r \in Schedules
    BY <1>1 DEF SchedulerTypeOK
  <2>2. Precedes(r, cursor[r])'
    <3>1. CASE r = s
      <4>1. cursor'[s] - interval'[s] = t
        BY <1>n, <1>1
      <4> QED  BY <1>1, <3>1, <4>1 DEF Precedes
    <3>2. CASE r # s
      <4>1. cursor'[r] = cursor[r] /\ anchor'[r] = anchor[r] /\ interval'[r] = interval[r]
        BY <1>1, <2>1, <3>2
      <4>2. Precedes(r, cursor[r])
        BY <2>1 DEF Unedited, EverySlotAccounted
      <4> QED  BY <1>2, <2>1, <4>1, <4>2 DEF Precedes
    <3> QED  BY <3>1, <3>2
  <2>3. ASSUME NEW u \in Times, occurrence'[r][u] # "none"
        PROVE  /\ Precedes(r, FirstCounted(r, u))'
               /\ \A w \in Times : FirstCounted(r, u)' <= w /\ w < u => occurrence'[r][w] = "none"
    <3>1. anchor'[r] = anchor[r] /\ interval'[r] = interval[r]
      BY <1>1
    <3>2. CASE r = s /\ u = t
      <4>1. Precedes(s, cursor[s])
        BY <1>1 DEF Unedited, EverySlotAccounted
      <4>2. FirstCounted(r, u)' = cursor[s]
        <5> DEFINE p == m * interval[s]
        <5>1. p \in Nat /\ t = cursor[s] + p
          BY <1>n, <1>1
        <5>2. coalesced'[r][u] * interval'[r] = p
          BY <1>1, <3>1, <3>2
        <5> HIDE DEF p
        <5> QED  BY <1>n, <3>2, <5>1, <5>2 DEF FirstCounted
      <4>3. ASSUME NEW w \in Times, cursor[s] <= w, w < t
            PROVE  occurrence'[s][w] = "none"
        <5>1. occurrence[s][w] = "none"
          BY <1>n, <4>3 DEF Unedited, CursorAhead
        <5> QED  BY <1>n, <1>1, <4>3, <5>1
      <4>4. Precedes(r, FirstCounted(r, u))'
        BY <1>2, <2>1, <3>1, <3>2, <4>1, <4>2 DEF Precedes
      <4> QED  BY <3>2, <4>2, <4>3, <4>4
    <3>3. CASE r # s \/ u # t
      <4>1. occurrence[r][u] # "none" /\ coalesced'[r][u] = coalesced[r][u]
        BY <1>1, <2>1, <2>3, <3>3
      <4>2. /\ Precedes(r, FirstCounted(r, u))
            /\ \A w \in Times : FirstCounted(r, u) <= w /\ w < u => occurrence[r][w] = "none"
        BY <2>1, <4>1 DEF Unedited, EverySlotAccounted
      <4>3. FirstCounted(r, u)' = FirstCounted(r, u)
        BY <3>1, <4>1 DEF FirstCounted
      <4>4. Precedes(r, FirstCounted(r, u))'
        BY <1>2, <2>1, <3>1, <4>2, <4>3 DEF Precedes
      <4>5. ASSUME NEW w \in Times, w < u
            PROVE  occurrence'[r][w] = occurrence[r][w]
        <5>1. CASE r = s
          <6>1. u < cursor[s]
            BY <4>1, <5>1 DEF Unedited, CursorAhead
          <6>2. w # t
            BY <1>n, <1>1, <4>5, <6>1
          <6> QED  BY <1>1, <2>1, <6>2
        <5>2. CASE r # s
          BY <1>1, <2>1, <5>2
        <5> QED  BY <5>1, <5>2
      <4> QED  BY <4>2, <4>3, <4>4, <4>5
    <3> QED  BY <3>2, <3>3
  <2> QED  BY <2>2, <2>3
<1>5. \A r \in Schedules, u \in Times : occurrence'[r][u] # "none" => r \in known'
  BY <1>1 DEF Unedited
<1> QED  BY <1>3, <1>4, <1>5 DEF Unedited

\* Nothing else touches the plan or the history of a schedule that nobody edits.
LEMMA UneditedStep ==
  ASSUME SchedulerTypeOK, TickRelies, Editors = {}, Unedited, [Next]_vars
  PROVE  Unedited'
<1>1. CASE UNCHANGED <<plan, occurrence, coalesced>>
  BY <1>1 DEF plan, Unedited, CursorAhead, EverySlotAccounted, Precedes, FirstCounted
<1>2. ASSUME NEW s \in Schedules, NEW step \in Intervals, NEW start \in Anchors,
             CreateSchedule(s, step, start)
      PROVE  Unedited'
  BY <1>2, UneditedCreation
<1>3. ASSUME NEW c \in Schedulers, NEW s \in Schedules, RecordOccurrence(c, s)
      PROVE  Unedited'
  BY <1>3, UneditedTick
<1>4. \/ UNCHANGED <<plan, occurrence, coalesced>>
      \/ \E s \in Schedules, step \in Intervals, start \in Anchors : CreateSchedule(s, step, start)
      \/ \E c \in Schedulers, s \in Schedules : RecordOccurrence(c, s)
  BY DEF Next, ClientStep, SchedulerStep, SelectDueSchedule, BeginTick, NothingDue, RestartWorker, LockDueSchedule,
         DuplicateSlot, CrashWorker, LoopEnds, JobMoves, Tick, vars, plan, history
<1> QED  BY <1>1, <1>2, <1>3, <1>4

\* The invariant of unedited schedules holds in every reachable state.
LEMMA UneditedHolds == Spec => [](Editors = {} => Unedited)
<1>1. Init => (Editors = {} => Unedited)
  BY DEF Init, Unedited, CursorAhead, EverySlotAccounted
<1>2. SchedulerInvariant /\ (Editors = {} => Unedited) /\ [Next]_vars => (Editors = {} => Unedited)'
  BY UneditedStep DEF SchedulerInvariant
<1> QED  BY <1>1, <1>2, SchedulerInvariantHolds, PTL DEF Spec

-----------------------------------------------------------------------------
(***************************************************************************)
(* The slot of a tick is the latest one.                                   *)
(***************************************************************************)

\* Between a slot of the grid and the next there is none.
LEMMA GridGap ==
  ASSUME NEW a \in Nat, NEW i \in Nat \ {0}, NEW k \in Nat, NEW n \in Nat,
         a + k * i < a + n * i
  PROVE  a + k * i + i <= a + n * i
<1>1. CASE n <= k
  <2> DEFINE d == k - n
  <2>1. d \in Nat /\ k = n + d
    BY <1>1
  <2>2. k * i = n * i + d * i /\ d * i \in Nat
    BY <2>1
  <2> HIDE DEF d
  <2>3. FALSE
    BY <2>2
  <2> QED  BY <2>3
<1>2. CASE n > k
  <2> DEFINE d == n - k - 1
  <2>1. d \in Nat /\ n = k + 1 + d
    BY <1>2
  <2>2. n * i = k * i + i + d * i /\ d * i \in Nat
    BY <2>1
  <2> HIDE DEF d
  <2> QED  BY <2>2
<1> QED  BY <1>1, <1>2

\* Slots of a grid are in the order of their numbers.
LEMMA GridOrder ==
  ASSUME NEW a \in Nat, NEW i \in Nat \ {0}, NEW k \in Nat, NEW n \in Nat
  PROVE  /\ a + k * i \in Nat
         /\ k < n => a + k * i < a + n * i
         /\ a + k * i < a + n * i => k < n
<1>1. ASSUME NEW p \in Nat, NEW q \in Nat, p < q PROVE a + p * i < a + q * i
  <2> DEFINE d == q - p - 1
  <2>1. d \in Nat /\ q = p + 1 + d
    BY <1>1
  <2>2. q * i = p * i + i + d * i /\ d * i \in Nat
    BY <2>1
  <2> HIDE DEF d
  <2> QED  BY <2>2
<1>2. a + k * i \in Nat /\ a + n * i \in Nat
  OBVIOUS
<1>3. ASSUME ~(k < n) PROVE ~(a + k * i < a + n * i)
  <2>1. CASE n = k
    BY <1>2, <2>1
  <2>2. CASE n < k
    <3>1. a + n * i < a + k * i
      BY <1>1, <2>2
    <3> QED  BY <1>2, <3>1
  <2> QED  BY <1>3, <2>1, <2>2
<1> QED  BY <1>1, <1>2, <1>3

\* The m slots of a grid from the k-th on.
SlotsFrom(a, i, k, m) == {u \in Nat : \E l \in Nat : k <= l /\ l < k + m /\ u = a + l * i}

\* There are m of them.
LEMMA CountSlots ==
  ASSUME NEW a \in Nat, NEW i \in Nat \ {0}, NEW k \in Nat, NEW m \in Nat
  PROVE  Cardinality(SlotsFrom(a, i, k, m)) = m
<1> DEFINE S == SlotsFrom(a, i, k, m)
<1>0. \A u : u \in S <=> \E l \in Nat : k <= l /\ l < k + m /\ u = a + l * i
  BY GridOrder DEF SlotsFrom
<1> HIDE DEF S
<1> DEFINE slot == [j \in 1..m |-> a + (k + j - 1) * i]
<1>1. ASSUME NEW j \in 1..m PROVE slot[j] \in S
  <2> DEFINE l == k + j - 1
  <2>1. l \in Nat /\ k <= l /\ l < k + m /\ slot[j] = a + l * i
    OBVIOUS
  <2> HIDE DEF l
  <2> QED  BY <1>0, <2>1
<1>2. \A j, n \in 1..m : slot[j] = slot[n] => j = n
  <2> SUFFICES ASSUME NEW j \in 1..m, NEW n \in 1..m, j < n PROVE slot[j] < slot[n] /\ slot[j] \in Nat
    <3>1. \A x, y \in 1..m : x < y \/ y < x \/ x = y
      OBVIOUS
    <3> QED  BY <3>1
  <2> DEFINE p == k + j - 1
             q == k + n - 1
  <2>1. p \in Nat /\ q \in Nat /\ p < q /\ slot[j] = a + p * i /\ slot[n] = a + q * i
    OBVIOUS
  <2> HIDE DEF p, q
  <2> QED  BY <2>1, GridOrder
<1>3. ASSUME NEW u \in S PROVE \E j \in 1..m : slot[j] = u
  <2>1. PICK l \in Nat : k <= l /\ l < k + m /\ u = a + l * i
    BY <1>0
  <2> DEFINE j == l - k + 1
  <2>2. j \in 1..m /\ k + j - 1 = l
    BY <2>1
  <2> HIDE DEF j
  <2> QED  BY <2>1, <2>2
<1>4. slot \in [1..m -> S]
  BY <1>1
<1> HIDE DEF slot
<1>5. slot \in Bijection(1..m, S)
  BY <1>2, <1>3, <1>4, Fun_IsBij
<1>6. ExistsBijection(1..m, S)
  BY <1>5 DEF ExistsBijection
<1> QED  BY <1>6, FS_CountingElements DEF S

\* What the tick records when a slot enters the history, and who it was.
LEMMA SlotOfTick ==
  ASSUME SchedulerInvariant, Next, NEW c \in Schedulers, NEW s \in Schedules, NEW t \in Times,
         occurrence[s][t] = "none", occurrence'[s][t] # "none", locked[c] = s
  PROVE  /\ s \in known
         /\ coalesced'[s][t] \in Nat
         /\ t = cursor[s] + coalesced'[s][t] * interval[s]
         /\ asOf[c] \in Times
         /\ asOf[c] < t + interval[s]
         /\ cursor'[s] = t + interval[s]
<1> USE DEF SchedulerInvariant
<1>1. PICK d \in Schedulers, r \in Schedules : RecordOccurrence(d, r)
  BY HistoryUntouched DEF history, JobMoves
<1>2. r = s /\ t = TickSlot(d)
  <2> DEFINE x == TickSlot(d)
  <2>1. \/ occurrence' = [occurrence EXCEPT ![r][x] = "created"]
        \/ occurrence' = [occurrence EXCEPT ![r][x] = "skipped_overlap"]
    BY <1>1 DEF RecordOccurrence
  <2> HIDE DEF x
  <2>2. r # s \/ t # x => occurrence'[s][t] = occurrence[s][t]
    BY <2>1 DEF SchedulerTypeOK
  <2> QED  BY <2>2 DEF x
<1>3. s # NoSchedule
  BY ScheduleAssumption
<1>4. locked[d] = s
  BY <1>1, <1>2 DEF RecordOccurrence
<1>5. d = c
  BY <1>3, <1>4 DEF OneTickPerSchedule
<1>6. s \in known /\ asOf[c] \in Times /\ cursor[s] <= asOf[c]
  BY <1>3 DEF TickRelies, SchedulerTypeOK
<1>7. cursor[s] \in Nat /\ interval[s] \in Nat \ {0} /\ asOf[c] \in Nat
  <2>1. cursor[s] \in Nat /\ interval[s] \in Intervals
    BY DEF SchedulerTypeOK
  <2>2. Times \subseteq Nat
    BY ScheduleAssumption DEF Times
  <2> QED  BY <1>6, <2>1, <2>2, ScheduleAssumption
<1>8. t = LatestDueSlot(cursor[s], interval[s], asOf[c])
  BY <1>2, <1>4, <1>5 DEF TickSlot
<1>9. /\ asOf[c] < t + interval[s]
      /\ MissedSlots(cursor[s], interval[s], asOf[c]) \in Nat
      /\ t = cursor[s] + MissedSlots(cursor[s], interval[s], asOf[c]) * interval[s]
  BY <1>6, <1>7, <1>8, MissedSlotsBounds DEF LatestDueSlot
<1>10. cursor'[s] = t + interval[s]
  BY <1>1, <1>2 DEF RecordOccurrence, SchedulerTypeOK
<1>11. coalesced'[s][t] = MissedSlots(cursor[s], interval[s], asOf[c])
  BY <1>1, <1>2, <1>5 DEF RecordOccurrence, SchedulerTypeOK
<1> QED  BY <1>6, <1>9, <1>10, <1>11

\* The slot lies on the grid, and no slot of the grid is between it and the clock
\* value of the tick or the next run; those from the cursor up to it are counted.
LEMMA LatestSlotStep ==
  ASSUME SchedulerInvariant, Next, NEW c \in Schedulers, NEW s \in Schedules, NEW t \in Times,
         occurrence[s][t] = "none", occurrence'[s][t] # "none", locked[c] = s
  PROVE  /\ OnGrid(s, t)
         /\ \A u \in (t + 1)..asOf[c] : ~OnGrid(s, u)
         /\ \A u \in (t + 1)..(cursor'[s] - 1) : ~OnGrid(s, u)
         /\ coalesced'[s][t] = Cardinality({u \in cursor[s]..(t - 1) : OnGrid(s, u)})
<1> DEFINE a == anchor[s]
           i == interval[s]
           m == coalesced'[s][t]
<1>1. /\ s \in known /\ asOf[c] \in Times /\ asOf[c] < t + i /\ cursor'[s] = t + i
      /\ m \in Nat /\ t = cursor[s] + m * i
  BY SlotOfTick
<1>2. a \in Nat /\ i \in Nat \ {0} /\ t \in Nat /\ asOf[c] \in Nat /\ cursor[s] \in Nat
  <2>1. cursor[s] \in Nat /\ i \in Intervals /\ a \in Anchors
    BY DEF SchedulerInvariant, SchedulerTypeOK
  <2>2. Times \subseteq Nat
    BY ScheduleAssumption DEF Times
  <2> QED  BY <1>1, <2>1, <2>2, ScheduleAssumption
<1>3. PICK k \in 0..cursor[s] : cursor[s] = a + k * i
  BY <1>1 DEF SchedulerInvariant, CursorOnGrid, OnGrid
<1> HIDE DEF a, i, m
<1> DEFINE n == k + m
<1>4. n \in Nat /\ t = a + n * i
  <2>1. k \in Nat /\ (k + m) * i = k * i + m * i
    BY <1>1, <1>2, <1>3
  <2> QED  BY <1>1, <1>2, <1>3, <2>1
<1>5. m = Cardinality({u \in cursor[s]..(t - 1) : OnGrid(s, u)})
  <2> DEFINE S == {u \in cursor[s]..(t - 1) : OnGrid(s, u)}
  <2>1. k \in Nat /\ n = k + m
    BY <1>2, <1>3
  <2> HIDE DEF n
  <2>2. \A u : OnGrid(s, u) <=> \E l \in 0..u : u = a + l * i
    BY DEF OnGrid, a, i
  <2>3. ASSUME NEW u \in S PROVE \E l \in Nat : k <= l /\ l < n /\ u = a + l * i
    <3>1. PICK l \in 0..u : u = a + l * i
      BY <2>2
    <3>2. u \in Nat /\ cursor[s] <= u /\ u < t
      BY <1>2
    <3>3. l \in Nat
      BY <3>1, <3>2
    <3>4. ~(l < k) /\ l < n
      BY <1>2, <1>3, <1>4, <2>1, <3>1, <3>2, <3>3, GridOrder
    <3> QED  BY <1>4, <2>1, <3>1, <3>3, <3>4
  <2>4. ASSUME NEW l \in Nat, k <= l, l < n PROVE a + l * i \in S
    <3> DEFINE u == a + l * i
    <3>1. u \in Nat /\ u < t /\ l <= u
      BY <1>2, <1>4, <2>4, GridOrder, SlotsAdd
    <3>2. cursor[s] <= u
      <4>1. ~(u < cursor[s])
        BY <1>2, <1>3, <2>1, <2>4, GridOrder
      <4> QED  BY <1>2, <3>1, <4>1
    <3>3. OnGrid(s, u)
      BY <2>2, <3>1
    <3> HIDE DEF u
    <3>4. u \in cursor[s]..(t - 1)
      BY <1>2, <3>1, <3>2
    <3> QED  BY <3>3, <3>4 DEF u
  <2>5. S = SlotsFrom(a, i, k, m)
    <3>1. \A u : u \in SlotsFrom(a, i, k, m) <=> u \in Nat /\ \E l \in Nat : k <= l /\ l < n /\ u = a + l * i
      BY <2>1 DEF SlotsFrom
    <3>2. \A u \in S : u \in Nat
      BY <1>2
    <3> HIDE DEF S
    <3> QED  BY <2>3, <2>4, <3>1, <3>2
  <2> HIDE DEF S
  <2>6. Cardinality(SlotsFrom(a, i, k, m)) = m
    BY <1>1, <1>2, <2>1, CountSlots
  <2> QED  BY <2>5, <2>6 DEF S
<1> HIDE DEF n
<1>6. OnGrid(s, t)
  <2>1. n \in 0..t
    BY <1>2, <1>4, SlotsAdd
  <2> QED  BY <1>4, <2>1 DEF OnGrid, a, i
<1>7. ASSUME NEW u \in Nat, t < u, u < t + i PROVE ~OnGrid(s, u)
  <2> SUFFICES ASSUME OnGrid(s, u) PROVE FALSE
    OBVIOUS
  <2>1. PICK l \in 0..u : u = a + l * i
    BY DEF OnGrid, a, i
  <2>2. l \in Nat
    BY <2>1
  <2>3. t + i <= u
    BY <1>2, <1>4, <1>7, <2>1, <2>2, GridGap
  <2> QED  BY <1>2, <1>7, <2>3
<1>8. ASSUME NEW u \in (t + 1)..asOf[c] PROVE ~OnGrid(s, u)
  <2>1. u \in Nat /\ t < u /\ u < t + i
    BY <1>1, <1>2
  <2> QED  BY <1>7, <2>1
<1>9. ASSUME NEW u \in (t + 1)..(cursor'[s] - 1) PROVE ~OnGrid(s, u)
  <2>1. u \in Nat /\ t < u /\ u < t + i
    BY <1>1, <1>2
  <2> QED  BY <1>7, <2>1
<1> QED  BY <1>5, <1>6, <1>8, <1>9 DEF m

-----------------------------------------------------------------------------
(***************************************************************************)
(* Schedulers and editors implement Recurrence: the COMMIT of a tick is    *)
(* the run, the UPDATE of an edit the edit, and what leads up to them does *)
(* not show.                                                               *)
(***************************************************************************)

\* The slot next_slot_after returns is the first of its grid.
LEMMA NextSlotAfterIsFirst ==
  ASSUME NEW start \in Nat, NEW step \in Nat \ {0}, NEW t \in Nat
  PROVE  \E k \in 0..(t + 1) :
           /\ NextSlotAfter(start, step, t) = start + k * step
           /\ t < start + k * step
           /\ k = 0 \/ start + k * step <= t + step
<1>1. CASE start > t
  <2>1. 0 \in 0..(t + 1) /\ start = start + 0 * step
    OBVIOUS
  <2> QED  BY <1>1, <2>1 DEF NextSlotAfter
<1>2. CASE ~(start > t)
  <2> DEFINE n == (t - start) \div step
             p == n * step
             k == n + 1
  <2>1. n \in Nat /\ p \in Nat /\ p <= t - start /\ t - start < p + step
    <3>1. t - start \in Nat
      BY <1>2
    <3> QED  BY <3>1, DivisionBounds
  <2>2. NextSlotAfter(start, step, t) = start + k * step
    BY <1>2 DEF NextSlotAfter
  <2>3. n <= p
    <3> HIDE DEF n
    <3>1. n <= 0 + n * step
      BY <2>1, SlotsAdd
    <3> QED  BY <2>1, <3>1
  <2>4. k * step = p + step
    <3> HIDE DEF n
    <3> QED  BY <2>1
  <2>5. k \in 0..(t + 1)
    <3> HIDE DEF p, n
    <3> QED  BY <1>2, <2>1, <2>3
  <2> HIDE DEF k, p, n
  <2> QED  BY <1>2, <2>1, <2>2, <2>4, <2>5
<1> QED  BY <1>1, <1>2

\* The UPDATE of an edit continues at the slot that followed when it was asked for.
LEMMA EditShows ==
  ASSUME SchedulerInvariant, NEW s \in Schedules, NEW step \in Intervals, NEW start \in Anchors,
         NEW e \in Editors, NEW on \in BOOLEAN, UpdateSchedule(e, s, on, step, start)
  PROVE  Recurring!Edit(s, on, step, start)
<1> DEFINE t == editAsOf[e]
<1>1. t \in Nat /\ t <= now /\ now \in Nat /\ start \in Nat /\ step \in Nat \ {0}
  <2>1. editAsOf[e] # Idle
    BY DEF UpdateSchedule
  <2> QED  BY <2>1, ScheduleAssumption DEF SchedulerInvariant, SchedulerTypeOK, TickRelies, Times
<1>2. PICK k \in 0..(t + 1) :
        /\ NextSlotAfter(start, step, t) = start + k * step
        /\ t < start + k * step
        /\ k = 0 \/ start + k * step <= t + step
  BY <1>1, NextSlotAfterIsFirst
<1>3. k \in 0..(now + 1) /\ t \in 0..now
  BY <1>1, <1>2
<1>4. cursor' = [cursor EXCEPT ![s] = start + k * step]
  BY <1>2 DEF UpdateSchedule
<1>5. /\ s \in known
      /\ enabled' = [enabled EXCEPT ![s] = on]
      /\ interval' = [interval EXCEPT ![s] = step]
      /\ anchor' = [anchor EXCEPT ![s] = start]
      /\ UNCHANGED <<now, known, occurrence, coalesced, job>>
  BY DEF UpdateSchedule, history
<1> HIDE DEF t
<1> QED  BY <1>2, <1>3, <1>4, <1>5 DEF Recurring!Edit, Recurring!Plan

\* The COMMIT of a tick is a run of an enabled schedule, of a slot that is due.
LEMMA RunShows ==
  ASSUME SchedulerInvariant, NEW c \in Schedulers, NEW s \in Schedules, RecordOccurrence(c, s)
  PROVE  \E m \in 0..now : Recurring!Run(s, m)
<1> DEFINE m == MissedSlots(cursor[s], interval[s], asOf[c])
           t == cursor[s] + m * interval[s]
<1>1. locked[c] = s /\ s # NoSchedule
  BY ScheduleAssumption DEF RecordOccurrence
<1>2. s \in known /\ enabled[s]
  BY <1>1 DEF SchedulerInvariant, TickRelies
<1>3. TickSlot(c) = t /\ m \in Nat /\ t \in Times /\ t <= now
  BY <1>1, TickSlotBounds DEF SchedulerInvariant, LatestDueSlot
<1>4. m \in 0..now
  <2> HIDE DEF m
  <2>1. now \in Nat /\ t \in Nat /\ cursor[s] \in Nat /\ interval[s] \in Nat \ {0}
    <3> HIDE DEF t
    <3>1. now \in Nat /\ t \in Nat
      BY <1>3, ScheduleAssumption DEF SchedulerInvariant, SchedulerTypeOK, Times
    <3>2. cursor[s] \in Nat /\ interval[s] \in Nat \ {0}
      BY ScheduleAssumption DEF SchedulerInvariant, SchedulerTypeOK
    <3> QED  BY <3>1, <3>2
  <2>2. m <= t
    BY <1>3, <2>1, SlotsAdd
  <2> HIDE DEF t
  <2> QED  BY <1>3, <2>1, <2>2
<1>5. /\ occurrence[s][t] = "none"
      /\ coalesced' = [coalesced EXCEPT ![s][t] = m]
      /\ cursor' = [cursor EXCEPT ![s] = t + interval[s]]
      /\ UNCHANGED <<now, known, enabled, interval, anchor>>
  BY <1>3 DEF RecordOccurrence
<1>6. \/ /\ ~HasOverlap(s)
         /\ occurrence' = [occurrence EXCEPT ![s][t] = "created"]
         /\ job' = [job EXCEPT ![s][t] = "waiting"]
      \/ /\ HasOverlap(s)
         /\ occurrence' = [occurrence EXCEPT ![s][t] = "skipped_overlap"]
         /\ job' = job
  BY <1>3 DEF RecordOccurrence
<1> HIDE DEF m
<1>7. CASE HasOverlap(s)
  <2>1. job' = [job EXCEPT ![s][t] = @]
    BY <1>3, <1>6, <1>7 DEF SchedulerInvariant, SchedulerTypeOK
  <2>2. Recurring!Run(s, m)
    BY <1>2, <1>3, <1>5, <1>6, <1>7, <2>1 DEF Recurring!Run, HasOverlap, Recurring!Times, Times, Recurring!Live, Live
  <2> QED  BY <1>4, <2>2
<1>8. CASE ~HasOverlap(s)
  <2>1. Recurring!Run(s, m)
    BY <1>2, <1>3, <1>5, <1>6, <1>8 DEF Recurring!Run, HasOverlap, Recurring!Times, Times, Recurring!Live, Live
  <2> QED  BY <1>4, <2>1
<1> QED  BY <1>7, <1>8

\* Every step is a step of Recurrence or does not show there.
LEMMA RecurrenceStep ==
  ASSUME SchedulerInvariant, [Next]_vars
  PROVE  Recurring!Next \/ UNCHANGED Recurring!vars
<1> USE DEF Recurring!vars, plan, history
<1>1. ASSUME NEW s \in Schedules, NEW step \in Intervals, NEW start \in Anchors,
             CreateSchedule(s, step, start)
      PROVE  Recurring!Create(s, step, start)
  BY <1>1 DEF CreateSchedule, Recurring!Create, Recurring!Plan
<1>2. ASSUME NEW s \in Schedules, NEW t \in Times, JobMoves(s, t)
      PROVE  Recurring!JobMoves(s, t)
  BY <1>2 DEF JobMoves, Recurring!JobMoves, Recurring!Live, Live
<1>3. ASSUME Tick
      PROVE  Recurring!TimePasses
  BY <1>3 DEF Tick, Recurring!TimePasses
<1>4. ASSUME NEW c \in Schedulers,
             BeginTick(c) \/ SelectDueSchedule(c) \/ RestartWorker(c) \/ LoopEnds(c)
      PROVE  UNCHANGED Recurring!vars
  BY <1>4 DEF BeginTick, SelectDueSchedule, NothingDue, LockDueSchedule, RestartWorker, LoopEnds
<1>5. ASSUME NEW e \in Editors, BeginEdit(e)
      PROVE  UNCHANGED Recurring!vars
  BY <1>5 DEF BeginEdit
<1>6. CASE UNCHANGED vars
  BY <1>6 DEF vars
<1> HIDE DEF Recurring!vars, plan, history
<1>7. CASE Next
  <2>1. ASSUME ClientStep PROVE Recurring!Next
    BY <1>1, <2>1, EditShows DEF ClientStep, Recurring!Next
  <2>2. ASSUME NEW c \in Schedulers, NEW s \in Schedules, RecordOccurrence(c, s) PROVE Recurring!Next
    BY <2>2, RunShows DEF Recurring!Next
  <2>3. ASSUME NEW s \in Schedules, NEW t \in Times, JobMoves(s, t) PROVE Recurring!Next
    BY <1>2, <2>3 DEF Recurring!Next, Recurring!Times, Times
  <2>4. ASSUME Tick PROVE Recurring!Next
    BY <1>3, <2>4 DEF Recurring!Next
  <2> QED
    BY <1>4, <1>5, <1>7, <2>1, <2>2, <2>3, <2>4 DEF Next, SchedulerStep, DuplicateSlot, CrashWorker
<1> QED  BY <1>6, <1>7

-----------------------------------------------------------------------------
(***************************************************************************)
(* The results.                                                            *)
(***************************************************************************)

\* Every reachable state of the schedules, their history and the ticks in flight
\* is type correct: every slot that is recorded is an instant of the clock, and
\* MissedSlots is never negative.
THEOREM SchedulerTypeCorrect == Spec => []SchedulerTypeOK
<1>1. SchedulerInvariant => SchedulerTypeOK
  BY DEF SchedulerInvariant
<1> QED  BY <1>1, SchedulerInvariantHolds, PTL

\* At most one job of a schedule is not terminal.
THEOREM OverlapFree == Spec => []NoOverlap
<1>1. SchedulerInvariant => NoOverlap
  BY DEF SchedulerInvariant
<1> QED  BY <1>1, SchedulerInvariantHolds, PTL

\* The job row and the occurrence row of a slot are written together, and never
\* for a slot of the future.
THEOREM HistoryCorrect == Spec => []HistoryHasJobs
<1>1. SchedulerInvariant => HistoryHasJobs
  BY DEF SchedulerInvariant
<1> QED  BY <1>1, SchedulerInvariantHolds, PTL

\* Runs do not drift: next_run_at stays on the grid of anchor and interval through
\* creations, edits and late ticks.
THEOREM NoDrift == Spec => []CursorOnGrid
<1>1. SchedulerInvariant => CursorOnGrid
  BY DEF SchedulerInvariant
<1> QED  BY <1>1, SchedulerInvariantHolds, PTL

\* While nobody edits, no tick ever meets a slot that is in the history already: the
\* unique index, which would end the worker's loop, never refuses a row.
THEOREM NoSlotTwice == Spec => [](Editors = {} => CursorAhead)
<1>1. (Editors = {} => Unedited) => (Editors = {} => CursorAhead)
  BY DEF Unedited
<1> QED  BY <1>1, UneditedHolds, PTL

\* While nobody edits, every slot from the anchor to the next run is either recorded
\* or counted by the row that follows it, and not both, however late ticks came.
THEOREM NoSlotLost == Spec => [](Editors = {} => EverySlotAccounted)
<1>1. (Editors = {} => Unedited) => (Editors = {} => EverySlotAccounted)
  BY DEF Unedited
<1> QED  BY <1>1, UneditedHolds, PTL

\* A tick records the latest slot that was due when it read the clock, and its count
\* is the number of slots of the grid from the next run up to the one it records,
\* through any edits before it.
THEOREM OnlyTheLatest == Spec => LatestSlotOnly
<1>1. SchedulerInvariant /\ Next =>
        \A c \in Schedulers, s \in Schedules, t \in Times :
          locked[c] = s /\ occurrence[s][t] = "none" /\ occurrence'[s][t] # "none" =>
            /\ OnGrid(s, t)
            /\ \A u \in (t + 1)..asOf[c] : ~OnGrid(s, u)
            /\ \A u \in (t + 1)..(cursor'[s] - 1) : ~OnGrid(s, u)
            /\ coalesced'[s][t] = Cardinality({u \in cursor[s]..(t - 1) : OnGrid(s, u)})
  BY LatestSlotStep
<1> QED  BY <1>1, SchedulerInvariantHolds, PTL DEF Spec, LatestSlotOnly

\* Any number of schedulers that tick with old clock values, crash and restart, and of
\* edits that wait for them, implement schedules whose runs and edits happen at one
\* instant: a run is of an enabled schedule, of a slot that is due on its present plan
\* and not before its next run, and makes a job only if none is live.
THEOREM TicksImplementRecurrence == Spec => ImplementsRecurrence
<1>1. Init => Recurring!Init
  BY DEF Init, Recurring!Init, Recurring!Times, Times
<1>2. SchedulerInvariant /\ [Next]_vars => [Recurring!Next]_Recurring!vars
  BY RecurrenceStep
<1> QED  BY <1>1, <1>2, SchedulerInvariantHolds, PTL DEF Spec, ImplementsRecurrence, Recurring!Spec

=============================================================================
