----------------------------- MODULE MCAnalytics -----------------------------
(***************************************************************************)
(* Analytics with quotas of a few requests, and a plan for each shape of   *)
(* report.  A lowered quota may be below what has been used; premium, which *)
(* has no quota in the SQL script, may be given one.                       *)
(***************************************************************************)
EXTENDS Analytics, TLC

CONSTANTS r1, r2, r3, ann, k1

ThreePlans == {"free", "standard", "premium"}
AnyFeature == {"comic:list", "analytics:usage"}
AllAllowed == [p \in Plans |-> AnyFeature]
NoLimit == [p \in Plans |-> 4]
AnyLength == [k \in Keys |-> 64]
QuotaOf == "free" :> 1 @@ "standard" :> 2 @@ "premium" :> 0
SmallQuota == [p \in Plans |-> QuotaOf[p]]
EditedOf == "free" :> 1 @@ "standard" :> 1 @@ "premium" :> 3
EditedQuota == [p \in Plans |-> EditedOf[p]]

\* Bounds: either the plan changes, or the month ends, or a quota is edited;
\* one request is lost or not logged or fails; authentication and quota check
\* do not fail (they do in the gateway_chain run).
OneChange == month + era[ann] + (IF quotas = MonthlyQuota THEN 0 ELSE 1) <= 1

FewFaults ==
  /\ Cardinality({r \in Requests :
       pc[r] = "lost" \/ r \in unlogged \/ report[r].step = "failed"}) <= 1
  /\ \A r \in Requests : answer[r] \notin {"auth_unavailable", "quota_unavailable"}

Symmetry == Permutations(Requests)
=============================================================================
