CONSTANTS
  Shards = {s1, s2}
  MainShard = s1
  Spare = {}
  Bytes = {b1, b2}
  IntMax = 1
  Clients = {c1}
  NoClient = NoClient
  MaxSent = 1
SPECIFICATION Spec
INVARIANT StoredIsConsumable
CHECK_DEADLOCK FALSE
