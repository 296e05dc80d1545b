------------------------- MODULE AccountsRefinement --------------------------
(***************************************************************************)
(* Proof that Accounts implements AccountRegistry for any sets of calls,   *)
(* users, plans and requests, with every fault: each call takes effect at  *)
(* its commit, in one step of the registry, and every other step, of this  *)
(* call or of others, leaves the registry as it is (ImplementsRegistry).   *)
(*                                                                         *)
(* Besides the invariants of AccountsRowsProofs the proof needs that only  *)
(* registered users have keys (KeyOwners).                                 *)
(*                                                                         *)
(* The last part proves the two properties of AccountsHistory, which speak *)
(* of the abstract account while a call runs: what a call has read was so  *)
(* when it read it, and what it stores is so when it commits.              *)
(***************************************************************************)
EXTENDS AccountsRowsProofs, AccountsHistory

KeyOwners == \A u \in Users : ActiveRows("api_keys", u) # {} => account[u] # "none"

RegistryInv == RowInv /\ Reports /\ KeyOwners

LEMMA KeyOwnersStep ==
  ASSUME RowInv, KeyOwners, [Next]_vars
  PROVE  KeyOwners'
<1> SUFFICES ASSUME NEW u \in Users, ActiveRows("api_keys", u)' # {}
             PROVE  account'[u] # "none"
  BY DEF KeyOwners
<1>1. CASE row' = row /\ ~\E c \in Calls : Commit(c)
  BY <1>1, UsersWritten, SameKeys DEF RowInv, KeyOwners
<1>2. ASSUME NEW c \in Calls, Commit(c) PROVE account'[u] # "none"
  <2>1. CASE User(c) = u /\ req[c].op = "register"
    BY <1>2, <2>1, CommitUsers DEF RowInv, Inv, TypeOK
  <2>2. CASE User(c) = u /\ req[c].op = "issue_key"
    <3>1. account[u] # "none"
      BY <1>2, <2>2 DEF Commit, RowInv, Inv, KnownUser
    <3> QED
      BY <1>2, <2>2, <3>1, CommitUsers DEF RowInv, Inv, TypeOK
  <2>3. CASE ~(User(c) = u /\ req[c].op \in {"register", "issue_key"})
    <3>1. ActiveRows("api_keys", u) # {}
      BY <1>2, <2>3, CommitKeys
    <3> QED
      BY <1>2, <2>3, <3>1, CommitUsers DEF KeyOwners, RowInv, Inv, TypeOK
  <2> QED
    BY <2>1, <2>2, <2>3
<1> QED
  BY <1>1, <1>2, RowsWritten

LEMMA RegistryInvStep == RegistryInv /\ [Next]_vars => RegistryInv'
  BY KeyOwnersStep, RowStep, ReportsStep DEF RegistryInv

-----------------------------------------------------------------------------
(* The abstract variables.                                                 *)

Plan == [u \in Users |-> CurrentPlan(u)]
Active == [u \in Users |-> ActiveRows("api_keys", u)]
Issued == {c \in Calls : row["api_keys"][c] # "none"}

LEMMA AccountWritten ==
  ASSUME [Next]_vars
  PROVE  \/ account' = account
         \/ \E c \in Calls : Commit(c)
         \/ \E u \in Users, s \in {"active", "inactive"} : SetStatus(u, s)
<1> USE DEF tables, Fail
<1>1. ASSUME NEW c \in Calls, Receive(c) \/ DBError(c) PROVE account' = account
  BY <1>1 DEF Receive, DBError
<1>2. ASSUME NEW c \in Calls, Progress(c), ~Commit(c) PROVE account' = account
  <2>1. CASE FindUser(c) \/ GetActivePlan(c) \/ FindPlanID(c)
    BY <2>1 DEF FindUser, GetActivePlan, FindPlanID
  <2>2. CASE InsertUser(c) \/ StartUpdate(c) \/ FinishUpdate(c) \/ InsertPlan(c) \/ InsertKey(c)
    BY <2>2 DEF InsertUser, StartUpdate, FinishUpdate, InsertPlan, InsertKey
  <2>3. CASE Rollback(c) \/ Answer(c) \/ DeadlockVictim(c) \/ \E r \in Calls : UpdateRow(c, r)
    BY <2>3 DEF Rollback, Answer, DeadlockVictim, UpdateRow
  <2> QED
    BY <1>2, <2>1, <2>2, <2>3 DEF Progress
<1>3. CASE Crash \/ UNCHANGED vars
  BY <1>3 DEF Crash, vars
<1> QED
  BY <1>1, <1>2, <1>3 DEF Next

LEMMA SameChoice ==
  ASSUME NEW A, NEW B, A = B
  PROVE  (CHOOSE r \in A : TRUE) = (CHOOSE r \in B : TRUE)
OBVIOUS

LEMMA SamePlan ==
  ASSUME Inv, [Next]_vars, NEW u, ActiveRows("user_plans", u)' = ActiveRows("user_plans", u)
  PROVE  CurrentPlan(u)' = CurrentPlan(u)
<1> DEFINE chosen == CHOOSE r \in ActiveRows("user_plans", u) : TRUE
<1>1. req' = req
  BY ReqConstant
<1>2. chosen' = chosen
  BY SameChoice
<1>3. PlanCode(chosen)' = PlanCode(chosen)
  <2> HIDE DEF chosen
  <2> QED
    BY <1>1, <1>2 DEF PlanCode
<1> QED
  BY <1>3 DEF CurrentPlan

LEMMA SameRows ==
  ASSUME Inv, [Next]_vars, row' = row
  PROVE  UNCHANGED <<Plan, Active, Issued>>
<1>1. \A u \in Users : CurrentPlan(u)' = CurrentPlan(u)
  BY SameKeys, SamePlan
<1>2. \A u \in Users : ActiveRows("api_keys", u)' = ActiveRows("api_keys", u)
  BY SameKeys
<1> QED
  BY <1>1, <1>2 DEF Plan, Active, Issued

\* What a commit does to the abstract variables.
LEMMA CommitPlan ==
  ASSUME RowInv, [Next]_vars, NEW c \in Calls, Commit(c)
  PROVE  Plan' = [Plan EXCEPT ![User(c)] =
           IF req[c].op \in {"register", "change_plan"} THEN PlanCode(c) ELSE @]
<1>1. "user_plans" \in pending[c] <=> req[c].op \in {"register", "change_plan"}
  BY PendingAtCommit DEF Commit, RowInv, Writes, Ops, Tables
<1>2. ASSUME NEW u \in Users
      PROVE  CurrentPlan(u)' = IF u = User(c) /\ req[c].op \in {"register", "change_plan"}
                                 THEN PlanCode(c) ELSE CurrentPlan(u)
  <2>1. CASE u = User(c) /\ req[c].op \in {"register", "change_plan"}
    <3>1. ActiveRows("user_plans", u)' = {c}
      BY <1>1, <2>1, CommitRows DEF RowInv
    <3>2. PlanCode(c)' = PlanCode(c)
      BY ReqConstant DEF PlanCode
    <3>3. (CHOOSE r \in {c} : TRUE) = c
      OBVIOUS
    <3> QED
      BY <2>1, <3>1, <3>2, <3>3 DEF CurrentPlan, PlanCode
  <2>2. CASE ~(u = User(c) /\ req[c].op \in {"register", "change_plan"})
    BY <1>1, <2>2, CommitRows, SamePlan DEF RowInv
  <2> QED
    BY <2>1, <2>2
<1> QED
  BY <1>2, UserConstant DEF Plan, RowInv

LEMMA CommitActive ==
  ASSUME RowInv, [Next]_vars, NEW c \in Calls, Commit(c)
  PROVE  Active' = [Active EXCEPT ![User(c)] =
           IF req[c].op \in {"register", "issue_key"} THEN (@ \ locked[c]) \union {c} ELSE @]
<1>1. \A u \in Users : ActiveRows("api_keys", u)' =
           IF User(c) = u /\ req[c].op \in {"register", "issue_key"}
             THEN (ActiveRows("api_keys", u) \ locked[c]) \union {c}
             ELSE ActiveRows("api_keys", u)
  BY CommitKeys
<1> QED
  BY <1>1, UserConstant DEF Active, RowInv

LEMMA CommitIssued ==
  ASSUME RowInv, NEW c \in Calls, Commit(c)
  PROVE  /\ c \notin Issued
         /\ Issued' = IF req[c].op \in {"register", "issue_key"} THEN Issued \union {c} ELSE Issued
<1>1. Stored(c) = {}
  BY DEF Commit, RowInv, StoredRows, Ended
<1>2. req[c].op \in Ops
  BY OpsKnown DEF RowInv
<1>3. \A d \in Calls : Stored(d)' = IF d = c THEN Writes(req[c].op) ELSE Stored(d)
  BY CommitStores
<1>4. "api_keys" \in Writes(req[c].op) <=> req[c].op \in {"register", "issue_key"}
  BY <1>2 DEF Writes, Ops
<1>5. \A d \in Calls : d \in Issued <=> "api_keys" \in Stored(d)
  BY DEF Issued, Stored, Tables
<1>6. \A d \in Calls : d \in Issued' <=> "api_keys" \in Stored(d)'
  BY DEF Issued, Stored, Tables
<1> QED
  BY <1>1, <1>3, <1>4, <1>5, <1>6 DEF Issued

-----------------------------------------------------------------------------
(* The refinement.                                                         *)

LEMMA RegistryInit == Init => RegistryInv /\ Registry!Init
<1> SUFFICES ASSUME Init PROVE RegistryInv /\ Registry!Init
  OBVIOUS
<1> USE PlanAssumption, SeedAssumption
<1>1. RowInv /\ Reports
  BY RowInit, ReportsInit
<1>2. \A s \in Seeds : req[s] = SeedRequest(s) /\ SeedRequest(s).user = SeedUser[s]
  BY DEF Init, SeedRequest
<1>3. \A r \in Calls : row["api_keys"][r] = IF r \in Seeds THEN "active" ELSE "none"
  BY DEF Init, Tables
<1>4. \A u \in Users : ActiveRows("api_keys", u) = {s \in Seeds : SeedUser[s] = u}
  BY <1>2, <1>3 DEF ActiveRows, User
<1>5. \A u \in Users : account[u] = IF \E s \in Seeds : SeedUser[s] = u THEN "active" ELSE "none"
  BY DEF Init
<1>6. \A u \in Users : account[u] = "none" <=> ActiveRows("api_keys", u) = {}
  BY <1>4, <1>5
<1>7. \A u \in Users :
        IF account[u] = "none" THEN CurrentPlan(u) = Blank ELSE CurrentPlan(u) \in Plans
  <2> SUFFICES ASSUME NEW u \in Users
               PROVE  IF account[u] = "none" THEN CurrentPlan(u) = Blank ELSE CurrentPlan(u) \in Plans
    OBVIOUS
  <2>1. account[u] = "none" <=> ActiveRows("user_plans", u) = {}
    BY <1>1 DEF RowInv, Inv, OneActivePlan
  <2>2. \A r \in ActiveRows("user_plans", u) : PlanCode(r) \in Plans
    BY <1>1 DEF ActiveRows, Reports, Reporting
  <2> QED
    BY <2>1, <2>2 DEF CurrentPlan
<1>8. Issued = UNION {Active[u] : u \in Users}
  <2>1. Issued = Seeds
    BY <1>3 DEF Issued
  <2>2. \A u \in Users : Active[u] = {s \in Seeds : SeedUser[s] = u}
    BY <1>4 DEF Active
  <2> QED
    BY <2>1, <2>2
<1>9. Registry!Init
  <2>1. account \in [Users -> {"none", "active"}]
    BY DEF Init
  <2>2. Plan \in [Users -> Plans \union {Blank}]
    BY <1>7 DEF Plan
  <2>3. Active \in [Users -> SUBSET Calls]
    BY DEF Active, ActiveRows
  <2>4. \A u \in Users :
          /\ account[u] = "none" <=> Plan[u] = Blank
          /\ account[u] = "none" <=> Active[u] = {}
          /\ \A v \in Users \ {u} : Active[u] \intersect Active[v] = {}
    BY <1>4, <1>6, <1>7 DEF Plan, Active
  <2> QED
    BY <1>8, <2>1, <2>2, <2>3, <2>4 DEF Registry!Init, Plan, Active, Issued
<1>10. KeyOwners
  BY <1>6 DEF KeyOwners
<1> QED
  BY <1>1, <1>9, <1>10 DEF RegistryInv

LEMMA RegistryCommit ==
  ASSUME RegistryInv, [Next]_vars, NEW c \in Calls, Commit(c)
  PROVE  Registry!Next
<1> DEFINE u == User(c)
<1>1. /\ u \in Users
      /\ req[c].op \in {"register", "issue_key", "change_plan"}
  BY PendingAtCommit, UserConstant DEF Commit, RegistryInv, RowInv, Ops
<1>2. req[c].op # "register" => account[u] # "none" /\ account' = account
  <2>1. req[c].op # "register" => account[u] # "none"
    BY DEF Commit, RegistryInv, RowInv, Inv, KnownUser
  <2>2. account' = [account EXCEPT ![u] = IF req[c].op = "register" THEN "active" ELSE @]
    BY CommitUsers DEF RegistryInv
  <2>3. account \in [Users -> RowStates]
    BY DEF RegistryInv, RowInv, Inv, TypeOK
  <2> QED
    BY <2>1, <2>2, <2>3
<1>3. CASE req[c].op = "register"
  <2>1. account[u] = "none" /\ account' = [account EXCEPT ![u] = "active"]
    BY <1>3, CommitUsers DEF RegistryInv
  <2>2. PlanCode(c) \in Plans /\ Plan' = [Plan EXCEPT ![u] = PlanCode(c)]
    BY <1>3, CommitPlan DEF RegistryInv, Reports, Reporting, Commit, TxSteps
  <2>3. Active' = [Active EXCEPT ![u] = {c}]
    <3>1. Active[u] = {}
      BY <1>1, <2>1 DEF RegistryInv, KeyOwners, Active
    <3> QED
      BY <1>3, <3>1, CommitActive DEF RegistryInv
  <2>4. c \notin Issued /\ Issued' = Issued \union {c}
    BY <1>3, CommitIssued DEF RegistryInv
  <2>5. Registry!Register(u, PlanCode(c), c)
    BY <2>1, <2>2, <2>3, <2>4 DEF Registry!Register, Plan, Active, Issued
  <2> QED
    BY <1>1, <2>2, <2>5 DEF Registry!Next
<1>4. CASE req[c].op = "issue_key"
  <2>1. Plan' = Plan
    BY <1>4, CommitPlan DEF RegistryInv, Plan
  <2>2. Active' = [Active EXCEPT ![u] = (@ \ locked[c]) \union {c}]
    BY <1>4, CommitActive DEF RegistryInv
  <2>3. c \notin Issued /\ Issued' = Issued \union {c}
    BY <1>4, CommitIssued DEF RegistryInv
  <2>4. PICK revoked \in SUBSET Active[u] : revoked = locked[c]
    BY <1>1, <1>4 DEF RegistryInv, RowInv, Inv, TypeOK, LockedRows, Target, Active, ActiveRows
  <2>5. Registry!RotateKey(u, c, revoked)
    BY <1>2, <1>4, <2>1, <2>2, <2>3, <2>4 DEF Registry!RotateKey, Plan, Active, Issued
  <2> QED
    BY <1>1, <2>4, <2>5 DEF Registry!Next, Active
<1>5. CASE req[c].op = "change_plan"
  <2>1. PlanCode(c) \in Plans /\ Plan' = [Plan EXCEPT ![u] = PlanCode(c)]
    BY <1>5, CommitPlan DEF RegistryInv, Reports, Reporting, Commit, TxSteps
  <2>2. Active' = Active
    BY <1>5, CommitActive DEF RegistryInv, Active
  <2>3. Issued' = Issued
    BY <1>5, CommitIssued DEF RegistryInv
  <2>4. Registry!ChangePlan(u, PlanCode(c))
    BY <1>2, <1>5, <2>1, <2>2, <2>3 DEF Registry!ChangePlan, Plan, Active, Issued
  <2> QED
    BY <1>1, <2>1, <2>4 DEF Registry!Next
<1> QED
  BY <1>1, <1>3, <1>4, <1>5

LEMMA RegistryStep ==
  ASSUME RegistryInv, [Next]_vars
  PROVE  [Registry!Next]_(Registry!vars)
<1>1. CASE \E c \in Calls : Commit(c)
  BY <1>1, RegistryCommit
<1>2. CASE row' = row /\ account' = account
  BY <1>2, SameRows DEF RegistryInv, RowInv, Registry!vars, Plan, Active, Issued
<1>3. ASSUME NEW u \in Users, NEW s \in {"active", "inactive"}, SetStatus(u, s)
      PROVE  Registry!Next
  <2>1. UNCHANGED <<Plan, Active, Issued>>
    BY <1>3, SameRows DEF SetStatus, RegistryInv, RowInv
  <2>2. Registry!SetStatus(u, s)
    BY <1>3, <2>1 DEF SetStatus, Registry!SetStatus, Plan, Active, Issued
  <2> QED
    BY <2>2 DEF Registry!Next
<1> QED
  BY <1>1, <1>2, <1>3, RowsWritten, AccountWritten

(***************************************************************************)
(* Seen from outside, each account call takes effect in one step or not at *)
(* all, for any number of concurrent calls and with every fault: what the  *)
(* chain of Gateway assumes of accounts is what their statements provide.  *)
(***************************************************************************)
THEOREM ImplementsAtomicRegistry == Spec => ImplementsRegistry
<1>1. Init => RegistryInv /\ Registry!Init
  BY RegistryInit
<1>2. RegistryInv /\ [Next]_vars => RegistryInv'
  BY RegistryInvStep
<1>3. RegistryInv /\ [Next]_vars => [Registry!Next]_(Registry!vars)
  BY RegistryStep
<1> QED
  BY <1>1, <1>2, <1>3, PTL DEF Spec, ImplementsRegistry, Registry!Spec

-----------------------------------------------------------------------------
(* What an answer tells of the account.                                    *)

PlanLived(c) == \E a \in lived[c] : a.plan = reported[c]
ActiveLived(c) == \E a \in lived[c] : a.status = "active"

\* What call c knows of the account of its user has been true while c ran.
Experience(c) ==
  /\ req[c].op = "issue_key" /\ pc[c] \in TxSteps => PlanLived(c)
  /\ req[c].op # "register" /\ pc[c] \notin Outside => ActiveLived(c)
  /\ result[c] = "ok" => PlanLived(c)
  /\ result[c] = "ok" \/ Stored(c) # {} => ActiveLived(c)

HistoryInv == RowInv /\ Reports /\ \A c \in Calls : Experience(c)

LEMMA LivedGrows ==
  ASSUME Live, NEW c \in Calls
  PROVE  /\ lived[c] \subseteq lived'[c]
         /\ pc'[c] # "idle" /\ pc[c] \notin {"done", "lost"} => Account(User(c))' \in lived'[c]
BY DEF Live

LEMMA StoredKept ==
  ASSUME RowInv, [Next]_vars, NEW d \in Calls, ~Commit(d)
  PROVE  Stored(d)' = Stored(d)
<1>1. ASSUME NEW c \in Calls, Commit(c) PROVE Stored(d)' = Stored(d)
  BY <1>1, CommitStores
<1> QED
  BY <1>1, RowsWritten DEF Stored

\* A call that is not moved to new knowledge keeps what it has.
LEMMA ExperienceKept ==
  ASSUME RowInv, [Next]_vars, NEW d \in Calls, Experience(d),
         lived[d] \subseteq lived'[d], Quiet(d), ~Commit(d)
  PROVE  Experience(d)'
<1>1. req' = req /\ Stored(d)' = Stored(d)
  BY ReqConstant, StoredKept
<1>2. (PlanLived(d) => PlanLived(d)') /\ (ActiveLived(d) => ActiveLived(d)')
  BY DEF PlanLived, ActiveLived, Quiet
<1> QED
  BY <1>1, <1>2 DEF Experience, Quiet

\* An early return of a query.
LEMMA ExperienceFail ==
  ASSUME RowInv, [Next]_vars, NEW d \in Calls, Experience(d),
         lived[d] \subseteq lived'[d], pc[d] \notin TxSteps, NEW err, err # "ok", Fail(d, err)
  PROVE  Experience(d)'
<1>1. ~Commit(d)
  BY DEF Commit, TxSteps
<1> QED
  BY <1>1, QuietFail, ExperienceKept DEF RowInv

\* The status is read: it is active now, and now belongs to the call.
LEMMA ExperienceFindUser ==
  ASSUME RowInv, [Next]_vars, Live, NEW d \in Calls, Experience(d), FindUser(d)
  PROVE  Experience(d)'
<1>1. pc[d] = "find_user" /\ row' = row /\ req' = req /\ account' = account
  BY ReqConstant DEF FindUser, Fail, tables
<1>2. CASE \E err : err # "ok" /\ Fail(d, err)
  BY <1>1, <1>2, ExperienceFail, LivedGrows DEF TxSteps
<1>3. CASE ~\E err : err # "ok" /\ Fail(d, err)
  <2>1. /\ pc'[d] = "active_plan" /\ result' = result
        /\ account[User(d)] \notin {"none", "inactive"}
    BY <1>1, <1>3 DEF FindUser, Goto, RowInv, Inv, TypeOK
  <2>2. result[d] # "ok" /\ Stored(d) = {}
    BY <1>1 DEF RowInv, StoredRows, Ended
  <2>3. account[User(d)] \in RowStates
    BY OpsKnown DEF RowInv, Inv, TypeOK
  <2>4. Account(User(d))'.status = "active"
    BY <1>1, <2>1, <2>3 DEF Account, RowStates, User
  <2>5. ActiveLived(d)'
    BY <1>1, <2>1, <2>4, LivedGrows DEF ActiveLived
  <2> QED
    BY <1>1, <2>1, <2>2, <2>5 DEF Experience, TxSteps, Stored
<1> QED
  BY <1>2, <1>3

\* The plan is read: it is the one active plan of the user now.
LEMMA ExperienceGetActivePlan ==
  ASSUME RowInv, [Next]_vars, Live, NEW d \in Calls, Experience(d), GetActivePlan(d)
  PROVE  Experience(d)'
<1>1. /\ pc[d] = "active_plan" /\ row' = row /\ req' = req
      /\ req[d].op # "register" /\ req[d].op \in Ops
  BY ReqConstant, OpsKnown DEF GetActivePlan, Fail, tables, StepsOf, RowInv
<1>2. ActiveLived(d)'
  BY <1>1, LivedGrows DEF Experience, ActiveLived, Outside
<1>3. CASE Fail(d, "ErrPlanNotFound")
  BY <1>1, <1>3, ExperienceFail, LivedGrows DEF TxSteps
<1>4. CASE ~Fail(d, "ErrPlanNotFound")
  <2>1. PICK r \in ActiveRows("user_plans", User(d)) :
          reported' = [reported EXCEPT ![d] = PlanCode(r)]
    BY <1>4 DEF GetActivePlan
  <2>2. ActiveRows("user_plans", User(d)) = {r} /\ User(d) \in Users
    BY <2>1, OpsKnown DEF RowInv, Inv, OneActivePlan
  <2>3. (CHOOSE x \in {r} : TRUE) = r
    OBVIOUS
  <2>4. CurrentPlan(User(d)) = PlanCode(r)
    BY <2>2, <2>3 DEF CurrentPlan
  <2>5. User(d)' = User(d) /\ CurrentPlan(User(d))' = CurrentPlan(User(d))
    BY <1>1, <2>2, SameKeys, SamePlan, UserConstant DEF RowInv
  <2>6. reported'[d] = PlanCode(r) /\ Account(User(d))'.plan = PlanCode(r)
    BY <2>1, <2>4, <2>5 DEF Account, RowInv, Inv, TypeOK
  <2>7. pc'[d] # "idle"
    BY <1>4 DEF GetActivePlan, Goto, AfterAuthentication, RowInv, Inv, TypeOK
  <2>8. PlanLived(d)'
    BY <1>1, <2>6, <2>7, LivedGrows DEF PlanLived
  <2> QED
    BY <1>1, <1>2, <2>8 DEF Experience
<1> QED
  BY <1>3, <1>4

LEMMA ExperienceFindPlanID ==
  ASSUME RowInv, [Next]_vars, Live, NEW d \in Calls, Experience(d), FindPlanID(d)
  PROVE  Experience(d)'
<1>1. /\ pc[d] = "find_plan" /\ row' = row /\ req' = req
      /\ req[d].op # "issue_key" /\ req[d].op \in Ops
  BY ReqConstant, OpsKnown DEF FindPlanID, Fail, tables, StepsOf, RowInv
<1>2. req[d].op # "register" => ActiveLived(d)'
  BY <1>1, LivedGrows DEF Experience, ActiveLived, Outside
<1>3. CASE \E err : err # "ok" /\ Fail(d, err)
  BY <1>1, <1>3, ExperienceFail, LivedGrows DEF TxSteps
<1>4. CASE ~\E err : err # "ok" /\ Fail(d, err)
  <2>1. result' = result /\ result[d] # "ok" /\ Stored(d) = {}
    BY <1>1, <1>4 DEF FindPlanID, RowInv, StoredRows, Ended
  <2> QED
    BY <1>1, <1>2, <2>1 DEF Experience, Stored
<1> QED
  BY <1>3, <1>4

\* The transaction commits: what it stores is the account of the user now.
LEMMA ExperienceCommit ==
  ASSUME RowInv, Reports, [Next]_vars, Live, NEW d \in Calls, Experience(d), Commit(d)
  PROVE  Experience(d)'
<1>1. /\ pc[d] = "commit" /\ pc'[d] = "answer" /\ reported' = reported /\ req' = req
      /\ User(d) \in Users /\ User(d)' = User(d)
  BY UserConstant DEF Commit, Goto, RowInv, Inv, TypeOK
<1>2. req[d].op \in {"register", "issue_key", "change_plan"}
  BY <1>1, PendingAtCommit DEF RowInv, Ops
<1>3. lived[d] \subseteq lived'[d] /\ Account(User(d))' \in lived'[d]
  BY <1>1, LivedGrows
<1>4. PlanLived(d)'
  <2>1. CASE req[d].op = "issue_key"
    BY <1>1, <1>3, <2>1 DEF Experience, PlanLived, TxSteps
  <2>2. CASE req[d].op \in {"register", "change_plan"}
    <3>1. reported[d] = PlanCode(d)
      BY <1>1, <2>2 DEF Reports, Reporting, TxSteps
    <3>2. Plan' = [Plan EXCEPT ![User(d)] = PlanCode(d)]
      BY <2>2, CommitPlan
    <3>3. Plan'[User(d)] = CurrentPlan(User(d))'
      BY <1>1 DEF Plan
    <3>4. CurrentPlan(User(d))' = PlanCode(d)
      BY <1>1, <3>2, <3>3 DEF Plan
    <3> QED
      BY <1>1, <1>3, <3>1, <3>4 DEF Account, PlanLived
  <2> QED
    BY <1>2, <2>1, <2>2
<1>5. ActiveLived(d)'
  <2>1. CASE req[d].op # "register"
    BY <1>1, <1>3, <2>1 DEF Experience, ActiveLived, Outside
  <2>2. CASE req[d].op = "register"
    <3>1. account'[User(d)] = "active"
      BY <1>1, <2>2, CommitUsers DEF RowInv, Inv, TypeOK
    <3> QED
      BY <1>1, <1>3, <3>1 DEF Account, ActiveLived
  <2> QED
    BY <2>1, <2>2
<1> QED
  BY <1>1, <1>4, <1>5 DEF Experience

LEMMA HistoryStep == HistoryInv /\ [HistoryNext]_historyVars => HistoryInv'
<1> SUFFICES ASSUME HistoryInv, [HistoryNext]_historyVars PROVE HistoryInv'
  OBVIOUS
<1>1. [Next]_vars /\ (Live \/ UNCHANGED historyVars)
  BY DEF HistoryNext, historyVars
<1>2. RowInv' /\ Reports'
  BY <1>1, RowStep, ReportsStep DEF HistoryInv
<1>3. ASSUME NEW d \in Calls PROVE Experience(d)'
  <2>1. Experience(d) /\ RowInv /\ Reports
    BY DEF HistoryInv
  <2>2. CASE UNCHANGED historyVars
    BY <1>1, <2>1, <2>2, ExperienceKept DEF historyVars, vars, Quiet, Commit, Goto, RowInv, Inv, TypeOK
  <2>3. CASE Live /\ (FindUser(d) \/ GetActivePlan(d) \/ FindPlanID(d) \/ Commit(d))
    BY <1>1, <2>1, <2>3, ExperienceFindUser, ExperienceGetActivePlan, ExperienceFindPlanID,
       ExperienceCommit
  <2>4. CASE Live /\ ~FindUser(d) /\ ~GetActivePlan(d) /\ ~FindPlanID(d) /\ ~Commit(d)
    BY <1>1, <2>1, <2>4, QuietStep, LivedGrows, ExperienceKept
  <2> QED
    BY <1>1, <2>2, <2>3, <2>4
<1> QED
  BY <1>2, <1>3 DEF HistoryInv

LEMMA HistoryStart == HistoryInit => HistoryInv
<1> SUFFICES ASSUME HistoryInit, NEW c \in Calls PROVE Experience(c)
  BY RowInit, ReportsInit DEF HistoryInit, HistoryInv
<1> USE SeedAssumption
<1>1. RowInv /\ pc[c] \notin TxSteps /\ (req[c].op # "register" => pc[c] \in Outside)
  BY RowInit DEF HistoryInit, Init, TxSteps, Outside
<1>2. CASE c \in Seeds
  <2>1. /\ req[c] = SeedRequest(c) /\ reported[c] = PlanCode(c)
        /\ row["user_plans"][c] = "active" /\ lived[c] = {Account(User(c))}
    BY <1>2 DEF HistoryInit, Init, Tables
  <2>2. User(c) = SeedUser[c] /\ User(c) \in Users
    BY <1>2, <2>1 DEF SeedRequest, User
  <2>3. account[User(c)] = "active"
    BY <1>2, <2>2 DEF HistoryInit, Init
  <2>4. c \in ActiveRows("user_plans", User(c))
    BY <2>1 DEF ActiveRows
  <2>5. ActiveRows("user_plans", User(c)) = {c}
    BY <1>1, <2>2, <2>4 DEF RowInv, Inv, OneActivePlan
  <2>6. (CHOOSE x \in {c} : TRUE) = c
    OBVIOUS
  <2>7. CurrentPlan(User(c)) = PlanCode(c)
    BY <2>5, <2>6 DEF CurrentPlan
  <2> QED
    BY <1>1, <2>1, <2>3, <2>7 DEF Experience, PlanLived, ActiveLived, Account, SeedRequest
<1>3. CASE c \notin Seeds
  <2>1. result[c] = "pending" /\ Stored(c) = {} /\ pc[c] = "idle"
    BY <1>3 DEF HistoryInit, Init, Stored
  <2> QED
    BY <1>1, <2>1 DEF Experience, Outside
<1> QED
  BY <1>2, <1>3

(***************************************************************************)
(* The plan in a successful answer was the user's plan at some time while  *)
(* the call ran, for any number of plan changes that go on meanwhile.      *)
(***************************************************************************)
THEOREM ReportsHeldPlans == HistorySpec => []ReportedPlanHeld
<1>1. HistoryInv => ReportedPlanHeld
  BY DEF HistoryInv, Experience, PlanLived, ReportedPlanHeld
<1> QED
  BY <1>1, HistoryStart, HistoryStep, PTL DEF HistorySpec

(***************************************************************************)
(* A call whose user was not active at any time while it ran has stored    *)
(* nothing and is not answered with success, however calls, operators,     *)
(* failures and crashes interleave.                                        *)
(***************************************************************************)
THEOREM SuspendedRest == HistorySpec => []SuspendedAccountsRest
<1>1. HistoryInv => SuspendedAccountsRest
  BY DEF HistoryInv, Experience, Stored, ActiveLived, SuspendedAccountsRest
<1> QED
  BY <1>1, HistoryStart, HistoryStep, PTL DEF HistorySpec
=============================================================================
