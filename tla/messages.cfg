CONSTANTS
  Shards = {s1}
  MainShard = s1
  Spare = {s2}
  Bytes = {b1}
  IntMax = 0
  Clients = {c1, c2}
  NoClient = NoClient
  MaxSent = 2
SPECIFICATION FairSpec
INVARIANTS TypeOK StoredIsConsumable FoundIsLatest StreamIsStored
PROPERTY WaitingIsAccepted
CHECK_DEADLOCK FALSE
