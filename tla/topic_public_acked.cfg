CONSTANTS
  Messages = {m1, m2}
  Torn = Torn
  MaxRecords = 4
  NewSizes = {1}
  ReloadSizes = {1}
  Restarts = TRUE
  Readers = FALSE
  Faults = {"open"}
SPECIFICATION Spec
INVARIANT AckedOnDisk
