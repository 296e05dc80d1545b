SPECIFICATION Spec
CONSTANTS
  r1 = r1
  r2 = r2
  ann = ann
  bob = bob
  k1 = k1
  NoPlan = NoPlan
  NoProfile = NoProfile
  Requests = {r1, r2}
  Users = {ann}
  Keys = {"free-demo-key", k1}
  DemoKeys = {"free-demo-key"}
  Length <- KeyLength
  Plans <- ThreePlans
  FirstPlans <- TwoPlans
  Features <- TwoFeatures
  AllowedFeatures <- TwoAllowed
  RequestsPerMinute <- TightLimit
  MonthlyQuota <- ChainQuota
  Slots = 2
  LastMinute = 1
  LastMonth = 1
  LastEra = 1
  Faults <- FaultKinds
CONSTRAINTS
  MonthAlone
  TrialAlone
  SuspensionAlone
PROPERTIES
  RevokedKeysAreCutOff
  DowngradeTakesEffect
INVARIANTS
  TypeOK
  LoggedExactlyOnce
CHECK_DEADLOCK FALSE
