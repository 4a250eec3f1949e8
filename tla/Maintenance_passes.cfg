\* Two workers whose passes overlap, an attempt and an upload.
CONSTANTS
  Attempts = {a1}
  Uploads = {u1}
  Workers = {w1, w2}
  Steady = {w1}
SPECIFICATION FairMaintenanceSpec
INVARIANTS
  MaintenanceTypeOK
  InputsKept
PROPERTIES
  ActiveOutputsKept
  OrphansGo
\* Nothing is left to do once the files are gone and the other worker has stopped.
CHECK_DEADLOCK FALSE
