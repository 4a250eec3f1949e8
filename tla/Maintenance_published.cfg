\* An attempt published between the two reads of a pass.
CONSTANTS
  Attempts = {a1}
  Uploads = {}
  Workers = {w1}
  Steady = {}
SPECIFICATION MaintenanceSpec
INVARIANTS
  OutputsKept
CHECK_DEADLOCK FALSE
