SPECIFICATION FairSpec
CONSTANTS
  demo = demo
  c1 = c1
  c2 = c2
  c3 = c3
  c4 = c4
  ann = ann
  bob = bob
  Calls = {demo, c1, c2, c3, c4}
  Users = {ann, bob}
  Blank = ""
  FreePlan = "free"
  Seeds = {demo}
  SeedUser <- MCSeedUser
  SeedPlan <- MCSeedPlan
  Plans <- MCPlans
  PlanArgs <- MCPlanArgs
  Faults = {}
  Requests <- Rotations
CONSTRAINT
  ThreeInOrder
INVARIANT
  RotationRevokes
PROPERTY
  EveryCallAnswered
CHECK_DEADLOCK FALSE
