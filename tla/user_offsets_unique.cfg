CONSTANTS
  NodeIds = {none, n1}
  NoNode = none
  Node = n1
  ConfigFiles <- OneFile
  Leftovers = {0}
  Changes = {}
  Topics = {t_users, t_user}
  UsersTopic = t_users
  UserOffsets = t_user
  NoTopic = NoTopic
  MaxRows = 0
  MaxOffset = 0
  Shards = {s1, s2}
  MainShard = s1
  Accounts = {a1}
  Admin = admin
  MaxUsers = 3
SPECIFICATION Spec
INVARIANT UserOffsetsUnique
CHECK_DEADLOCK FALSE
