SPECIFICATION Spec
CONSTANTS
  r1 = r1
  r2 = r2
  ann = ann
  bob = bob
  k1 = k1
  NoPlan = NoPlan
  NoProfile = NoProfile
  Requests = {r1, r2}
  Users = {ann, bob}
  Keys = {"free-demo-key", "standard-demo-key"}
  DemoKeys = {"free-demo-key", "standard-demo-key"}
  Length <- KeyLength
  Plans <- TwoPlans
  FirstPlans <- TwoPlans
  Features <- OnlyList
  AllowedFeatures <- ListAllowed
  RequestsPerMinute <- WideLimit
  MonthlyQuota <- MCQuota
  Slots = 1
  LastMinute = 0
  LastMonth = 0
  LastEra = 0
  Faults = {}
INVARIANT
  IssuedKeysWork
CHECK_DEADLOCK FALSE
