CONSTANTS
  NodeIds = {none, n1}
  NoNode = none
  Node = n1
  ConfigFiles <- MCConfigFiles
  Leftovers = {7}
  Changes <- MCChanges
  Topics = {t1, t2}
  NoTopic = NoTopic
  Shards = {s1, s2}
  MaxRows = 4
  MaxOffset = 2
SPECIFICATION ManagerSpec
SYMMETRY Symmetry
INVARIANTS ManagerTypeOK EndAfterStart SavedLoadsWhole EndRowsAreFound
PROPERTIES RowsKeepTheirKey
