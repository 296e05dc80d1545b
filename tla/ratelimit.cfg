SPECIFICATION FairSpec
CONSTANTS
  r1 = r1
  r2 = r2
  r3 = r3
  ann = ann
  NoRequest = NoRequest
  Requests = {r1, r2, r3}
  Clients = {ann}
  Plans <- MCPlans
  PolicyOf <- MCPolicyOf
  LastMinute = 1
  LastBoot = 1
INVARIANTS
  TypeOK
  PassedWithinLimit
  RefusalJustified
PROPERTIES
  CountsAtomically
  EveryRequestDecided
CHECK_DEADLOCK FALSE
