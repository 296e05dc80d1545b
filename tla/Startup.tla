------------------------------- MODULE Startup -------------------------------
(***************************************************************************)
(* From the start of the process until it serves requests: main opens the  *)
(* connection pool, which pings the database, and loads the plan policies  *)
(* that the middleware decides by.  They are read row by row from one      *)
(* query, which sees the tables of one moment; operators edit the tables   *)
(* at any time.  Whatever fails ends the process (log.Fatal).              *)
(***************************************************************************)
EXTENDS Naturals

CONSTANTS
  PlanCodes,    \* plans.code
  FeatureKeys,  \* plan_features.feature_key
  Blank,        \* the empty feature key
  Null,         \* SQL's NULL
  Databases     \* what operators may make of the two tables

PlanRow == [rpm : Nat, quota : Nat \union {Null}]

ASSUME DatabaseAssumption ==
  \A d \in Databases :
    /\ DOMAIN d.plans \subseteq PlanCodes
    /\ \A p \in DOMAIN d.plans : d.plans[p] \in PlanRow
    /\ d.features \subseteq (DOMAIN d.plans) \X FeatureKeys

ASSUME NullAssumption == Null \notin Nat \union FeatureKeys

VARIABLES
  phase,     \* where the process is
  tables,    \* plans and plan_features, one of Databases
  queried,   \* what the tables were when the query ran
  rows,      \* the rows of the query that are still to be read
  policies   \* the map that LoadPlanPolicies fills

bootVars == <<phase, tables, queried, rows, policies>>

Phases == {"down", "connecting", "loading", "serving"}

Policy == [AllowedFeatures : SUBSET FeatureKeys, RequestsPerMinute : Nat, MonthlyQuota : Nat]
NoPolicies == [p \in {} |-> 0]

BootInit ==
  /\ phase = "down"
  /\ tables \in Databases
  /\ queried = Null
  /\ rows = {}
  /\ policies = NoPolicies

Start ==
  /\ phase = "down"
  /\ phase' = "connecting"
  /\ UNCHANGED <<tables, queried, rows, policies>>

\* plans LEFT JOIN plan_features
Matching(d, p) ==
  IF \E f \in FeatureKeys : <<p, f>> \in d.features
    THEN {f \in FeatureKeys : <<p, f>> \in d.features}
    ELSE {Null}

Row(d, p, f) == [code |-> p, rpm |-> d.plans[p].rpm, quota |-> d.plans[p].quota, feature |-> f]

Joined(d) == UNION {{Row(d, p, f) : f \in Matching(d, p)} : p \in DOMAIN d.plans}

\* The ping succeeds, and the query sees the tables as they are now.
Query ==
  /\ phase = "connecting"
  /\ phase' = "loading"
  /\ queried' = tables
  /\ rows' = Joined(tables)
  /\ UNCHANGED <<tables, policies>>

\* A NULL quota is scanned as 0.
NewPolicy(row) ==
  [AllowedFeatures |-> {},
   RequestsPerMinute |-> row.rpm,
   MonthlyQuota |-> IF row.quota = Null THEN 0 ELSE row.quota]

PolicySoFar(row) ==
  IF row.code \in DOMAIN policies THEN policies[row.code] ELSE NewPolicy(row)

Feature(row) == {row.feature} \ {Null, Blank}

PoliciesWith(row) ==
  [p \in DOMAIN policies \union {row.code} |->
    IF p = row.code
      THEN [PolicySoFar(row) EXCEPT !.AllowedFeatures = @ \union Feature(row)]
      ELSE policies[p]]

\* The rows come by plan; the map is the same in whatever order they come.
ReadRow(row) ==
  /\ phase = "loading"
  /\ rows' = rows \ {row}
  /\ policies' = PoliciesWith(row)
  /\ UNCHANGED <<phase, tables, queried>>

\* Mutant: rows.Err is not looked at, a broken connection ends the rows.
LoadedAnyRows ==
  /\ phase = "loading"
  /\ policies # NoPolicies
  /\ phase' = "serving"
  /\ rows' = {}
  /\ UNCHANGED <<tables, queried, policies>>

Loaded ==
  /\ phase = "loading"
  /\ rows = {}
  /\ policies # NoPolicies
  /\ phase' = "serving"
  /\ UNCHANGED <<tables, queried, rows, policies>>

\* log.Fatal: the process ends.
Fatal ==
  /\ phase' = "down"
  /\ queried' = Null
  /\ rows' = {}
  /\ policies' = NoPolicies
  /\ UNCHANGED tables

\* The database cannot be reached, a row or the ten seconds run out, or the
\* port is taken.
StartFails ==
  /\ phase \in {"connecting", "loading"}
  /\ Fatal

\* Mutant: without plans the process waits, and neither serves nor ends.
NoPlansYet ==
  /\ phase = "loading"
  /\ rows = {}
  /\ policies = NoPolicies
  /\ UNCHANGED bootVars

NoPlans ==
  /\ phase = "loading"
  /\ rows = {}
  /\ policies = NoPolicies
  /\ Fatal

\* Operators edit the tables, each time in one transaction.
EditTables ==
  /\ tables' \in Databases
  /\ UNCHANGED <<phase, queried, rows, policies>>

BootStep ==
  \/ Query
  \/ \E row \in rows : ReadRow(row)
  \/ Loaded
  \/ NoPlans

BootNext == Start \/ BootStep \/ StartFails \/ EditTables

BootSpec == BootInit /\ [][BootNext]_bootVars

-----------------------------------------------------------------------------
(* Properties                                                              *)

\* What the tables say, as sets.
PoliciesOf(d) ==
  [p \in DOMAIN d.plans |->
    [AllowedFeatures |-> {f \in FeatureKeys \ {Blank} : <<p, f>> \in d.features},
     RequestsPerMinute |-> d.plans[p].rpm,
     MonthlyQuota |-> IF d.plans[p].quota = Null THEN 0 ELSE d.plans[p].quota]]

(***************************************************************************)
(* The process serves by the policies of all plans, each with all of its   *)
(* features, as the two tables had them when the query ran, in whatever    *)
(* order the rows came and whatever failed or was edited since: never by   *)
(* some of the rows, and never without any plan.                           *)
(***************************************************************************)
ServesWholePolicies ==
  phase = "serving" => policies = PoliciesOf(queried) /\ DOMAIN policies # {}

(***************************************************************************)
(* A start comes to an end: the process serves, or it has ended.           *)
(***************************************************************************)
StartEnds == phase \in {"connecting", "loading"} ~> phase \in {"serving", "down"}
=============================================================================
