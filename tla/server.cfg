SPECIFICATION FairServer
CONSTANTS
  key1 = key1
  key2 = key2
  list = list
  search = search
  ann = ann
  NoOne = NoOne
  Null = Null
  Requests = {key1, key2, list, search}
  Kind <- MCKind
  Locks = {ann}
  LockOf <- MCLockOf
  MaxConns = 2
  PlanCodes = {"free", "gold", "premium"}
  FeatureKeys = {"list", "search", ""}
  Blank = ""
  Databases <- MCDatabases
CONSTRAINT EditsBetween
INVARIANTS
  PoolTypeOK
  NoConnectionLost
  ServesWholePolicies
PROPERTIES
  EveryRequestEnds
  StartEnds
