\* A loop with more work than its limit allows; one schedule, two schedulers, slots due
\* before, at and after the start.
CONSTANTS
  Slots = {t1, t2, t3}
  TaskLimit = 2
  Schedules = {s1}
  Schedulers = {c1, c2}
  Editors = {}
  Intervals = {1, 2}
  Anchors = {0, 1}
  Horizon = 3
  Idle = Idle
  NoSchedule = NoSchedule
SPECIFICATION RoundsSpec
INVARIANTS
  TasksBounded
  CursorAhead
  EverySlotAccounted
PROPERTIES
  DrainPatience
  DrainEnds
  DueIsRecorded
\* A worker that was stopped rests; the clock stops and every job may end.
CHECK_DEADLOCK FALSE
