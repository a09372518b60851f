CONSTANTS
  Messages = {m1, m2}
  Torn = Torn
  MaxRecords = 4
  NewSizes = {1}
  ReloadSizes = {1}
  Restarts = TRUE
  Readers = FALSE
  Faults = {}
SPECIFICATION Spec
INVARIANT OldestIsStartOfFile
