------------------------------- MODULE Recurrence -------------------------------
(***************************************************************************)
(* What recurring schedules promise their owner, without schedulers, clock *)
(* values in flight, row locks or crashes: a run happens at one instant,   *)
(* on a schedule that is enabled there and then, takes one slot of the     *)
(* present plan that is due and not before the next run, counts the slots  *)
(* it passes over, and makes a job unless one of the schedule is live.  An *)
(* edit continues at the slot that follows an instant of the past, the one *)
(* at which it was asked for.                                              *)
(***************************************************************************)
EXTENDS Naturals

CONSTANTS Schedules, Intervals, Anchors, Horizon  \* as in Scheduler

VARIABLES
  now,
  known, enabled, interval, anchor, cursor,  \* the schedules and their next runs
  occurrence, coalesced, job                 \* their history by slot

vars == <<now, known, enabled, interval, anchor, cursor, occurrence, coalesced, job>>

Times == 0..Horizon
Live == {"waiting", "working"}

Plan(s, on, step, start) ==
  /\ enabled' = [enabled EXCEPT ![s] = on]
  /\ interval' = [interval EXCEPT ![s] = step]
  /\ anchor' = [anchor EXCEPT ![s] = start]

-----------------------------------------------------------------------------
Create(s, step, start) ==
  /\ s \notin known
  /\ known' = known \cup {s}
  /\ Plan(s, TRUE, step, start)
  /\ cursor' = [cursor EXCEPT ![s] = start]
  /\ UNCHANGED <<now, occurrence, coalesced, job>>

\* The k-th slot of the new plan is its first after t.
Edit(s, on, step, start) ==
  /\ s \in known
  /\ Plan(s, on, step, start)
  /\ \E k \in 0..(now + 1) :
       /\ cursor' = [cursor EXCEPT ![s] = start + k * step]
       /\ \E t \in 0..now : t < start + k * step /\ (k = 0 \/ start + k * step <= t + step)
  /\ UNCHANGED <<now, known, occurrence, coalesced, job>>

\* The slot m intervals after the next run.
Run(s, m) ==
  LET t == cursor[s] + m * interval[s]
      overlap == \E u \in Times : job[s][u] \in Live
  IN  /\ s \in known /\ enabled[s]
      /\ t <= now /\ occurrence[s][t] = "none"
      /\ occurrence' = [occurrence EXCEPT ![s][t] = IF overlap THEN "skipped_overlap" ELSE "created"]
      /\ job' = [job EXCEPT ![s][t] = IF overlap THEN @ ELSE "waiting"]
      /\ coalesced' = [coalesced EXCEPT ![s][t] = m]
      /\ cursor' = [cursor EXCEPT ![s] = t + interval[s]]
      /\ UNCHANGED <<now, known, enabled, interval, anchor>>

JobMoves(s, t) ==
  /\ job[s][t] \in Live
  /\ \E next \in (Live \cup {"ended"}) \ {job[s][t]} : job' = [job EXCEPT ![s][t] = next]
  /\ UNCHANGED <<now, known, enabled, interval, anchor, cursor, occurrence, coalesced>>

TimePasses ==
  /\ now < Horizon
  /\ now' = now + 1
  /\ UNCHANGED <<known, enabled, interval, anchor, cursor, occurrence, coalesced, job>>

-----------------------------------------------------------------------------
Init ==
  /\ now = 0
  /\ known = {}
  /\ enabled = [s \in Schedules |-> FALSE]
  /\ interval \in [Schedules -> Intervals]
  /\ anchor \in [Schedules -> Anchors]
  /\ cursor = [s \in Schedules |-> 0]
  /\ occurrence = [s \in Schedules |-> [t \in Times |-> "none"]]
  /\ coalesced = [s \in Schedules |-> [t \in Times |-> 0]]
  /\ job = [s \in Schedules |-> [t \in Times |-> "none"]]

Next ==
  \/ \E s \in Schedules :
       \/ \E step \in Intervals, start \in Anchors :
            Create(s, step, start) \/ \E on \in BOOLEAN : Edit(s, on, step, start)
       \/ \E m \in 0..now : Run(s, m)
       \/ \E t \in Times : JobMoves(s, t)
  \/ TimePasses

Spec == Init /\ [][Next]_vars

=============================================================================
