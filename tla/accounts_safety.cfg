SPECIFICATION Spec
CONSTANTS
  demo = demo
  c1 = c1
  c2 = c2
  c3 = c3
  c4 = c4
  ann = ann
  bob = bob
  Calls = {demo, c1, c2, c3}
  Users = {ann, bob}
  Blank = ""
  FreePlan = "free"
  Seeds = {demo}
  SeedUser <- MCSeedUser
  SeedPlan <- MCSeedPlan
  Plans <- MCPlans
  PlanArgs <- MCPlanArgs
  Faults <- FaultKinds
  Requests <- AllRequests
SYMMETRY Symmetry
INVARIANTS
  TypeOK
  OneActivePlan
  KeyAlwaysAvailable
  RotationRevokes
  AtomicRegistration
  AnswerMatchesTables
PROPERTY
  ImplementsRegistry
