CONSTANTS
  Messages = {m1, m2}
  Torn = Torn
  MaxRecords = 3
  NewSizes = {1}
  ReloadSizes = {1}
  Restarts = TRUE
  Readers = FALSE
  Faults = {"crash", "tear", "look", "open", "write", "flush"}
SPECIFICATION Spec
SYMMETRY Symmetry
INVARIANTS  WholePrefixDense  ConsecutiveInLife
