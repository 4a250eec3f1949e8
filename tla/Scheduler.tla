------------------------------- MODULE Scheduler -------------------------------
(***************************************************************************)
(* Recurring schedules: every worker loop is a scheduler, any API request  *)
(* may edit a schedule.  Both read the database clock in a statement of    *)
(* its own and act on it later: a scheduler in a transaction that holds    *)
(* the row lock of one due schedule, an edit in an UPDATE that waits for   *)
(* that lock.  In between, the clock and the other actors move.            *)
(*                                                                         *)
(* Time is a natural number of ticks no finer than the code's clock; a job *)
(* is named by the slot it was created for, and is waiting (queued,        *)
(* retry_waiting), working (running, cancel_requested) or ended.           *)
(***************************************************************************)
EXTENDS Integers, FiniteSets

CONSTANTS
  Schedules,   \* identifiers a schedule row may get
  Schedulers,  \* worker loops
  Editors,     \* update requests that may be in flight at once
  Intervals,   \* values of interval_seconds
  Anchors,     \* values of anchor_at
  Horizon,     \* last tick of the clock
  Idle, NoSchedule

ASSUME ScheduleAssumption ==
  /\ Intervals \subseteq Nat \ {0}
  /\ Anchors \subseteq Nat
  /\ Horizon \in Nat
  /\ Idle \notin Nat
  /\ NoSchedule \notin Schedules

VARIABLES
  now,         \* the database clock
  known,       \* the schedules that exist
  enabled,     \* schedules.enabled
  interval,    \* schedules.interval_seconds
  anchor,      \* schedules.anchor_at
  cursor,      \* schedules.next_run_at
  occurrence,  \* schedule_occurrences.outcome by slot; "none" without a row
  coalesced,   \* schedule_occurrences.coalesced_slots by slot
  job,         \* the job created for the slot
  loop,        \* "up", or "down" once an error or a crash ended the worker
  asOf,        \* clock value a scheduler's tick works with, or Idle
  locked,      \* schedule row locked by the tick, or NoSchedule
  editAsOf     \* clock value an edit in flight works with, or Idle

plan == <<known, enabled, interval, anchor, cursor>>
history == <<occurrence, coalesced, job>>
ticks == <<loop, asOf, locked>>
vars == <<now, plan, history, ticks, editAsOf>>

-----------------------------------------------------------------------------
Times == 0..Horizon
Live == {"waiting", "working"}

SchedulerTypeOK ==
  /\ now \in Times
  /\ known \subseteq Schedules
  /\ enabled \in [Schedules -> BOOLEAN]
  /\ interval \in [Schedules -> Intervals]
  /\ anchor \in [Schedules -> Anchors]
  /\ cursor \in [Schedules -> Nat]
  /\ occurrence \in [Schedules -> [Times -> {"none", "created", "skipped_overlap"}]]
  /\ coalesced \in [Schedules -> [Times -> Nat]]
  /\ job \in [Schedules -> [Times -> {"none", "ended"} \cup Live]]
  /\ loop \in [Schedulers -> {"up", "down"}]
  /\ asOf \in [Schedulers -> Times \cup {Idle}]
  /\ locked \in [Schedulers -> Schedules \cup {NoSchedule}]
  /\ editAsOf \in [Editors -> Times \cup {Idle}]

-----------------------------------------------------------------------------
\* Slot arithmetic.  <Definition>_<Slip> is the definition with one slip in it,
\* there to check that a property notices.

\* How many slots before the latest due one the cursor has missed.
MissedSlots(next, step, t) == (t - next) \div step

\* The oldest missed slot instead of the latest.
LatestDueSlot_Oldest(next, step, t) == next

LatestDueSlot(next, step, t) == next + MissedSlots(next, step, t) * step

\* The next run is counted from the time of the edit, not from the anchor.
NextSlotAfter_Drifting(start, step, t) == IF start > t THEN start ELSE t + step

NextSlotAfter(start, step, t) ==
  IF start > t THEN start ELSE start + ((t - start) \div step + 1) * step

-----------------------------------------------------------------------------
\* API.

\* The first run is at the anchor, which may lie in the past.
CreateSchedule(s, step, start) ==
  /\ s \notin known
  /\ known' = known \cup {s}
  /\ enabled' = [enabled EXCEPT ![s] = TRUE]
  /\ interval' = [interval EXCEPT ![s] = step]
  /\ anchor' = [anchor EXCEPT ![s] = start]
  /\ cursor' = [cursor EXCEPT ![s] = start]
  /\ UNCHANGED <<now, history, ticks, editAsOf>>

\* update_schedule, first statement: SELECT CURRENT_TIMESTAMP.
BeginEdit(e) ==
  /\ editAsOf[e] = Idle
  /\ editAsOf' = [editAsOf EXCEPT ![e] = now]
  /\ UNCHANGED <<now, plan, history, ticks>>

\* Second statement: an UPDATE by id, once no tick holds the row.
UpdateSchedule(e, s, on, step, start) ==
  /\ editAsOf[e] # Idle
  /\ s \in known
  /\ \A c \in Schedulers : locked[c] # s
  /\ enabled' = [enabled EXCEPT ![s] = on]
  /\ interval' = [interval EXCEPT ![s] = step]
  /\ anchor' = [anchor EXCEPT ![s] = start]
  /\ cursor' = [cursor EXCEPT ![s] = NextSlotAfter(start, step, editAsOf[e])]
  /\ editAsOf' = [editAsOf EXCEPT ![e] = Idle]
  /\ UNCHANGED <<now, known, history, ticks>>

-----------------------------------------------------------------------------
\* Scheduler tick: materialize_next_schedule in the loop of a worker.

\* SELECT CURRENT_TIMESTAMP.
BeginTick(c) ==
  /\ loop[c] = "up"
  /\ asOf[c] = Idle
  /\ asOf' = [asOf EXCEPT ![c] = now]
  /\ UNCHANGED <<now, plan, history, loop, locked, editAsOf>>

\* Only a slot that is due right now.
Due_OnTheDot(s, t) ==
  s \in known /\ enabled[s] /\ cursor[s] = t /\ \A c \in Schedulers : locked[c] # s

\* What the SKIP LOCKED candidate query may return.
Due(s, t) ==
  s \in known /\ enabled[s] /\ cursor[s] <= t /\ \A c \in Schedulers : locked[c] # s

\* The query does not lock the row.
LockDueSchedule_Unlocked(c, s) ==
  /\ asOf[c] # Idle
  /\ locked[c] = NoSchedule
  /\ s \in known /\ enabled[s] /\ cursor[s] <= asOf[c]
  /\ locked' = [locked EXCEPT ![c] = s]
  /\ UNCHANGED <<now, plan, history, loop, asOf, editAsOf>>

\* The earliest schedule that is due; ties are left open.
LockDueSchedule(c, s) ==
  /\ asOf[c] # Idle
  /\ locked[c] = NoSchedule
  /\ Due(s, asOf[c])
  /\ \A r \in Schedules : Due(r, asOf[c]) => cursor[s] <= cursor[r]
  /\ locked' = [locked EXCEPT ![c] = s]
  /\ UNCHANGED <<now, plan, history, loop, asOf, editAsOf>>

NothingDue(c) ==
  /\ asOf[c] # Idle
  /\ locked[c] = NoSchedule
  /\ \A s \in Schedules : ~Due(s, asOf[c])
  /\ asOf' = [asOf EXCEPT ![c] = Idle]
  /\ UNCHANGED <<now, plan, history, loop, locked, editAsOf>>

\* The candidate query: a row or none.
SelectDueSchedule(c) == NothingDue(c) \/ \E s \in Schedules : LockDueSchedule(c, s)

\* The slot the tick of c records for the schedule it has locked.
TickSlot(c) == LatestDueSlot(cursor[locked[c]], interval[locked[c]], asOf[c])

\* Only jobs that are being worked on count.
HasOverlap_WorkingOnly(s) == \E t \in Times : job[s][t] = "working"

HasOverlap(s) == \E t \in Times : job[s][t] \in Live

\* The cursor moves one interval on from where it was.
RecordOccurrence_OneStep(c, s) ==
  /\ locked[c] = s
  /\ LET t == TickSlot(c)
     IN  /\ occurrence[s][t] = "none"
         /\ \/ ~HasOverlap(s)
               /\ occurrence' = [occurrence EXCEPT ![s][t] = "created"]
               /\ job' = [job EXCEPT ![s][t] = "waiting"]
            \/ HasOverlap(s)
               /\ occurrence' = [occurrence EXCEPT ![s][t] = "skipped_overlap"]
               /\ UNCHANGED job
         /\ coalesced' = [coalesced EXCEPT ![s][t] = MissedSlots(cursor[s], interval[s], asOf[c])]
         /\ cursor' = [cursor EXCEPT ![s] = @ + interval[s]]
  /\ locked' = [locked EXCEPT ![c] = NoSchedule]
  /\ asOf' = [asOf EXCEPT ![c] = Idle]
  /\ UNCHANGED <<now, known, enabled, interval, anchor, loop, editAsOf>>

\* The job of a slot that overlaps is created all the same.
RecordOccurrence_JobAnyway(c, s) ==
  /\ locked[c] = s
  /\ LET t == TickSlot(c)
     IN  /\ occurrence[s][t] = "none"
         /\ \/ ~HasOverlap(s)
               /\ occurrence' = [occurrence EXCEPT ![s][t] = "created"]
               /\ job' = [job EXCEPT ![s][t] = "waiting"]
            \/ HasOverlap(s)
               /\ occurrence' = [occurrence EXCEPT ![s][t] = "skipped_overlap"]
               /\ job' = [job EXCEPT ![s][t] = "waiting"]
         /\ coalesced' = [coalesced EXCEPT ![s][t] = MissedSlots(cursor[s], interval[s], asOf[c])]
         /\ cursor' = [cursor EXCEPT ![s] = t + interval[s]]
  /\ locked' = [locked EXCEPT ![c] = NoSchedule]
  /\ asOf' = [asOf EXCEPT ![c] = Idle]
  /\ UNCHANGED <<now, known, enabled, interval, anchor, loop, editAsOf>>

\* The slots in between are dropped without being counted.
RecordOccurrence_Uncounted(c, s) ==
  /\ locked[c] = s
  /\ LET t == TickSlot(c)
     IN  /\ occurrence[s][t] = "none"
         /\ \/ ~HasOverlap(s)
               /\ occurrence' = [occurrence EXCEPT ![s][t] = "created"]
               /\ job' = [job EXCEPT ![s][t] = "waiting"]
            \/ HasOverlap(s)
               /\ occurrence' = [occurrence EXCEPT ![s][t] = "skipped_overlap"]
               /\ UNCHANGED job
         /\ coalesced' = [coalesced EXCEPT ![s][t] = 0]
         /\ cursor' = [cursor EXCEPT ![s] = t + interval[s]]
  /\ locked' = [locked EXCEPT ![c] = NoSchedule]
  /\ asOf' = [asOf EXCEPT ![c] = Idle]
  /\ UNCHANGED <<now, known, enabled, interval, anchor, loop, editAsOf>>

\* The rest of the transaction: job with its inputs unless an earlier one is not
\* terminal, occurrence, cursor, commit.
RecordOccurrence(c, s) ==
  /\ locked[c] = s
  /\ LET t == TickSlot(c)
     IN  /\ occurrence[s][t] = "none"
         /\ \/ ~HasOverlap(s)
               /\ occurrence' = [occurrence EXCEPT ![s][t] = "created"]
               /\ job' = [job EXCEPT ![s][t] = "waiting"]
            \/ HasOverlap(s)
               /\ occurrence' = [occurrence EXCEPT ![s][t] = "skipped_overlap"]
               /\ UNCHANGED job
         /\ coalesced' = [coalesced EXCEPT ![s][t] = MissedSlots(cursor[s], interval[s], asOf[c])]
         /\ cursor' = [cursor EXCEPT ![s] = t + interval[s]]
  /\ locked' = [locked EXCEPT ![c] = NoSchedule]
  /\ asOf' = [asOf EXCEPT ![c] = Idle]
  /\ UNCHANGED <<now, known, enabled, interval, anchor, loop, editAsOf>>

\* The loop of the worker ends; an open transaction is rolled back.
LoopEnds(c) ==
  /\ loop' = [loop EXCEPT ![c] = "down"]
  /\ locked' = [locked EXCEPT ![c] = NoSchedule]
  /\ asOf' = [asOf EXCEPT ![c] = Idle]
  /\ UNCHANGED <<now, plan, history, editAsOf>>

\* UNIQUE (schedule_id, scheduled_for) rejects the insert and the error leaves
\* worker_loop.
DuplicateSlot(c, s) ==
  /\ locked[c] = s
  /\ occurrence[s][TickSlot(c)] # "none"
  /\ LoopEnds(c)

\* A crash, a lost connection, any other error.
CrashWorker(c) == loop[c] = "up" /\ LoopEnds(c)

RestartWorker(c) ==
  /\ loop[c] = "down"
  /\ loop' = [loop EXCEPT ![c] = "up"]
  /\ UNCHANGED <<now, plan, history, asOf, locked, editAsOf>>

-----------------------------------------------------------------------------
\* The queue processes the job: claims, retries, ends or is cancelled.
JobMoves(s, t) ==
  /\ job[s][t] \in Live
  /\ \E next \in (Live \cup {"ended"}) \ {job[s][t]} : job' = [job EXCEPT ![s][t] = next]
  /\ UNCHANGED <<now, plan, occurrence, coalesced, ticks, editAsOf>>

\* The clock of the instance stops at Horizon.
Tick ==
  /\ now < Horizon
  /\ now' = now + 1
  /\ UNCHANGED <<plan, history, ticks, editAsOf>>

-----------------------------------------------------------------------------
Init ==
  /\ now = 0
  /\ known = {}
  /\ enabled = [s \in Schedules |-> FALSE]
  /\ interval \in {[s \in Schedules |-> i] : i \in Intervals}
  /\ anchor \in {[s \in Schedules |-> a] : a \in Anchors}
  /\ cursor = [s \in Schedules |-> 0]
  /\ occurrence = [s \in Schedules |-> [t \in Times |-> "none"]]
  /\ coalesced = [s \in Schedules |-> [t \in Times |-> 0]]
  /\ job = [s \in Schedules |-> [t \in Times |-> "none"]]
  /\ loop = [c \in Schedulers |-> "up"]
  /\ asOf = [c \in Schedulers |-> Idle]
  /\ locked = [c \in Schedulers |-> NoSchedule]
  /\ editAsOf = [e \in Editors |-> Idle]

ClientStep ==
  \E s \in Schedules, step \in Intervals, start \in Anchors :
    \/ CreateSchedule(s, step, start)
    \/ \E e \in Editors, on \in BOOLEAN : UpdateSchedule(e, s, on, step, start)

SchedulerStep(c) ==
  \/ BeginTick(c)
  \/ SelectDueSchedule(c)
  \/ \E s \in Schedules : RecordOccurrence(c, s) \/ DuplicateSlot(c, s)
  \/ RestartWorker(c)

Next ==
  \/ ClientStep
  \/ \E e \in Editors : BeginEdit(e)
  \/ \E c \in Schedulers : SchedulerStep(c) \/ CrashWorker(c)
  \/ \E s \in Schedules, t \in Times : JobMoves(s, t)
  \/ Tick

Spec == Init /\ [][Next]_vars

\* A worker is restarted, its loop ticks, and it does not crash in every tick.
Fairness ==
  \A c \in Schedulers :
    /\ WF_vars(RestartWorker(c))
    /\ SF_vars(BeginTick(c))
    /\ SF_vars(SelectDueSchedule(c))
    /\ SF_vars(\E s \in Schedules : RecordOccurrence(c, s))

FairSpec == Spec /\ Fairness

-----------------------------------------------------------------------------
\* Safety.

\* However many schedulers tick, crash and restart, at most one job of a schedule
\* is not terminal.
NoOverlap ==
  \A s \in Schedules, t, u \in Times : job[s][t] \in Live /\ job[s][u] \in Live => t = u

\* A slot of the schedule as it is now.
OnGrid(s, t) == \E k \in 0..t : t = anchor[s] + k * interval[s]

\* The next run lies on the grid of interval and anchor, whatever edits were made
\* and however late ticks came: runs do not drift.
CursorOnGrid ==
  \A s \in known : OnGrid(s, cursor[s])

\* A row of the history and the job it names belong together, and none of them is
\* ahead of the clock.
HistoryHasJobs ==
  \A s \in Schedules, t \in Times :
    /\ job[s][t] # "none" <=> occurrence[s][t] = "created"
    /\ occurrence[s][t] # "none" => t <= now

\* What was recorded lies before the next run: no tick meets a slot that is
\* already in the history.  "An edited schedule continues from the next future
\* slot."
CursorAhead ==
  \A s \in Schedules, t \in Times : occurrence[s][t] # "none" => t < cursor[s]

\* The slots of a schedule that is not edited, from its anchor to its next run,
\* are each accounted for once: a row follows the row before it without a gap but
\* for the slots that it counts, and those have no row.
Precedes(s, t) == t = anchor[s] \/ (t - interval[s] \in Times /\ occurrence[s][t - interval[s]] # "none")
FirstCounted(s, t) == t - coalesced[s][t] * interval[s]
EverySlotAccounted ==
  \A s \in known :
    /\ Precedes(s, cursor[s])
    /\ \A t \in Times : occurrence[s][t] # "none" =>
         /\ Precedes(s, FirstCounted(s, t))
         /\ \A u \in Times : FirstCounted(s, t) <= u /\ u < t => occurrence[s][u] = "none"

\* A tick records the latest slot of the grid that was due when it read the clock
\* and counts the slots since the cursor that it leaves out, each of them.
LatestSlotOnly ==
  [][\A c \in Schedulers, s \in Schedules, t \in Times :
       locked[c] = s /\ occurrence[s][t] = "none" /\ occurrence'[s][t] # "none" =>
         /\ OnGrid(s, t)
         /\ \A u \in (t + 1)..asOf[c] : ~OnGrid(s, u)
         /\ \A u \in (t + 1)..(cursor'[s] - 1) : ~OnGrid(s, u)
         /\ coalesced'[s][t] = Cardinality({u \in cursor[s]..(t - 1) : OnGrid(s, u)})]_vars

\* Clock values in flight, row locks and crashes do not show: to the owner every run
\* and every edit happens at one instant, on the plan as it is then.
Recurring == INSTANCE Recurrence
ImplementsRecurrence == Recurring!Spec

-----------------------------------------------------------------------------
\* Liveness.

\* A slot that is due on an enabled schedule is passed by the cursor: recorded or
\* counted.
DueIsRecorded ==
  \A s \in Schedules, t \in Times :
    s \in known /\ enabled[s] /\ cursor[s] = t /\ t <= now ~> cursor[s] # t

=============================================================================
