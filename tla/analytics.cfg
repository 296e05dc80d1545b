SPECIFICATION ReportSpec
CONSTANTS
  r1 = r1
  r2 = r2
  r3 = r3
  ann = ann
  k1 = k1
  NoPlan = NoPlan
  NoProfile = NoProfile
  Requests = {r1, r2, r3}
  Users = {ann}
  Keys = {k1}
  DemoKeys = {}
  Length <- AnyLength
  Plans <- ThreePlans
  FirstPlans <- ThreePlans
  Features <- AnyFeature
  AllowedFeatures <- AllAllowed
  RequestsPerMinute <- NoLimit
  MonthlyQuota <- SmallQuota
  NewQuota <- EditedQuota
  Slots = 2
  LastMinute = 0
  LastMonth = 1
  LastEra = 1
  Faults = {"db_error", "log_lost", "restart"}
CONSTRAINTS
  OneChange
  FewFaults
SYMMETRY Symmetry
INVARIANTS
  ReportTypeOK
  QuotaOvershootBounded
PROPERTIES
  ReportMatchesHeader
  RemainingHonoured
  ReportAddsUp
CHECK_DEADLOCK FALSE
