------------------------------ MODULE MCGateway ------------------------------
(***************************************************************************)
(* Gateway with quotas and limits of a few requests.  The features of the  *)
(* plans are those of the SQL script.                                      *)
(***************************************************************************)
EXTENDS Gateway, TLC

CONSTANTS r1, r2, ann, bob, k1

\* Demo keys of the SQL script; k1 is a key made by generateAPIKey.
DemoLength == "free-demo-key" :> 13 @@ "standard-demo-key" :> 17
KeyLength == [k \in Keys |-> IF k \in DOMAIN DemoLength THEN DemoLength[k] ELSE 64]

TwoPlans == {"free", "premium"}

\* The operator adds a plan while the process runs, and sets no limit for it.
ThreePlans == TwoPlans \union {"trial"}

\* The routes that tell the plans apart: one for all, one for premium only.
TwoFeatures == {"comic:list", "comic:recommend"}
TwoAllowed ==
  "free" :> {"comic:list"} @@ "premium" :> TwoFeatures @@ "trial" :> {"comic:list"}

OnlyList == {"comic:list"}
ListAllowed == "free" :> OnlyList @@ "premium" :> OnlyList

\* plan_features of the SQL script, for these two routes.
AnalyticsFeatures == {"comic:list", "analytics:usage"}
AnalyticsAllowed == "free" :> AnalyticsFeatures @@ "premium" :> AnalyticsFeatures

\* Free: one request a month; premium: no quota.  The tight limits are reached.
MCQuota == "free" :> 1 @@ "premium" :> 0
ChainQuota == MCQuota @@ "trial" :> 1
TightLimit == "free" :> 1 @@ "premium" :> 2 @@ "trial" :> 0
WideLimit == "free" :> 4 @@ "premium" :> 4

\* Bound: a month ends, or else minutes pass and plans change.  Each of them
\* only moves the place from which requests are counted.
MonthAlone == month > 0 => minute = 0 /\ \A u \in Users : era[u] = 0

\* Bound: nothing changes for a user who has the plan that was added.
OnTrial ==
  \/ \E u \in Users : plan[u] = "trial"
  \/ \E r \in Requests : profile[r] # NoProfile /\ profile[r].plan = "trial"
TrialAlone ==
  OnTrial => minute + month = 0 /\ \A u \in Users : era[u] = 0 /\ status[u] = "active"

\* Bound: accounts are suspended while the clock stands still.
SuspensionAlone ==
  (\E u \in Users : plan[u] # NoPlan /\ status[u] # "active") => minute + month = 0
=============================================================================
