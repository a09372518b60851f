CONSTANTS
  Messages = {m1, m2}
  Torn = Torn
  MaxRecords = 4
  NewSizes = {2}
  ReloadSizes = {2}
  Restarts = TRUE
  Readers = FALSE
  Faults = {}
SPECIFICATION Spec
INVARIANT FileOffsetsUnique
