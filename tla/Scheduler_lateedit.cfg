\* An edit that read the clock before a tick did, of one schedule with one interval.
CONSTANTS
  Schedules = {s1}
  Schedulers = {c1}
  Editors = {e1}
  Intervals = {2}
  Anchors = {1}
  Horizon = 3
  Idle = Idle
  NoSchedule = NoSchedule
SPECIFICATION Spec
INVARIANTS
  CursorAhead
CHECK_DEADLOCK FALSE
