CONSTANTS
  NodeIds = {none, n1}
  NoNode = none
  Node = n1
  ConfigFiles <- AnyFile
  Leftovers = {0, 70001}
  Changes = {}
  Topics = {t_users, t_user}
  UsersTopic = t_users
  UserOffsets = t_user
  NoTopic = NoTopic
  MaxRows = 0
  MaxOffset = 0
  Shards = {s1}
  MainShard = s1
  Accounts = {a1, a2}
  Admin = admin
  MaxUsers = 6
SPECIFICATION FairSpec
INVARIANTS TypeOK EndRowIsLastOffset ServesAsConfigured
PROPERTIES ImplementsAppendLog
CHECK_DEADLOCK FALSE
