CONSTANTS
  Messages = {m1, m2}
  Torn = Torn
  MaxRecords = 4
  NewSizes = {0, 1, 2}
  ReloadSizes = {0, 1}
  Restarts = TRUE
  Readers = TRUE
  Faults = {"crash"}
SPECIFICATION Spec
INVARIANTS TypeOK RecentIsEndOfFile RefusedOnlyWhenEmpty
INVARIANTS OldestHoldsStart ReaderSeesStart
PROPERTY FileImplementsLog
