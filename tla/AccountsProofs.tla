--------------------------- MODULE AccountsProofs ----------------------------
(***************************************************************************)
(* Proofs about Accounts for any sets of calls, users, plans and requests, *)
(* and with every fault allowed: the variables keep their types and every  *)
(* transaction ends (TypeOK), and a registered user has exactly one active *)
(* plan (OneActivePlan).                                                   *)
(*                                                                         *)
(* OneActivePlan is not inductive: when a plan change commits, nothing in  *)
(* it says that the row the change deactivated is still the only active    *)
(* one.  Inv adds what the row locks and the two unique indexes maintain   *)
(* until then.                                                             *)
(***************************************************************************)
EXTENDS Accounts, TLAPS

(***************************************************************************)
(* The control points each operation passes through.                       *)
(***************************************************************************)
StepsOf(op) ==
  {s \in PCs :
     /\ s \in {"find_user", "active_plan"} => op # "register"
     /\ s = "find_plan" => op \in {"register", "change_plan"}
     /\ s = "insert_user" => op = "register"
     /\ s \in {"update", "rows"} => op \in {"issue_key", "change_plan"}
     /\ s = "insert_plan" => op \in {"register", "change_plan"}
     /\ s = "insert_key" => op \in {"register", "issue_key"}
     /\ s \in {"commit", "rollback", "answer"} => op # "login"}

ControlFlow == \A c \in Calls : pc[c] \in StepsOf(req[c].op)

\* What the open transaction of a call has inserted so far.
Pending ==
  \A c \in Calls :
    /\ "users" \in pending[c] => req[c].op = "register"
    /\ "user_plans" \in pending[c] => req[c].op \in {"register", "change_plan"}
    /\ req[c].op = "register" /\ pc[c] \in {"insert_plan", "insert_key", "commit"} =>
         "users" \in pending[c]
    /\ req[c].op = "register" /\ pc[c] \in {"insert_key", "commit"} =>
         "user_plans" \in pending[c]
    /\ req[c].op = "change_plan" /\ pc[c] = "commit" => "user_plans" \in pending[c]

\* A call that replaces rows of a user does so for a user who exists.
KnownUser ==
  \A c \in Calls :
    /\ req[c].op # "register"
    /\ pc[c] \notin {"idle", "find_user", "done", "lost"}
    => account[User(c)] # "none"

\* The unique index on email: one insertion of an address at a time.
NewUser ==
  \A c \in Calls : "users" \in pending[c] =>
    /\ account[User(c)] = "none"
    /\ \A d \in Calls \ {c} : "users" \in pending[d] => User(d) # User(c)

\* A locked row is committed, still active, and belongs to the user of the call.
LockedRows ==
  \A c \in Calls :
    /\ \A r \in found[c] : User(r) = User(c)
    /\ \A r \in locked[c] : row[Target(c)][r] = "active" /\ User(r) = User(c)
    /\ req[c].op \in {"register", "login"} => locked[c] = {}

LocksExclude ==
  \A c, d \in Calls : c # d /\ Target(c) = Target(d) => locked[c] \intersect locked[d] = {}

\* Between its INSERT and its COMMIT a plan change has the active row locked.
PlanSlot ==
  \A c \in Calls : req[c].op = "change_plan" /\ "user_plans" \in pending[c] =>
    ActiveRows("user_plans", User(c)) \subseteq locked[c]

Inv ==
  /\ TypeOK
  /\ ControlFlow
  /\ Pending
  /\ KnownUser
  /\ NewUser
  /\ LockedRows
  /\ LocksExclude
  /\ PlanSlot
  /\ OneActivePlan

-----------------------------------------------------------------------------
(* Type correctness.                                                       *)

LEMMA TypeInit == Init => TypeOK
<1> SUFFICES ASSUME Init PROVE TypeOK
  OBVIOUS
<1> USE PlanAssumption, SeedAssumption, RequestAssumption
<1>1. \A s \in Seeds : SeedRequest(s) \in Request
  BY DEF SeedRequest, Request, Ops, Inputs
<1>2. req \in [Calls -> Request]
  BY <1>1 DEF Init
<1>3. reported \in [Calls -> PlanArgs]
  BY <1>2 DEF Init, PlanCode, Request
<1>4. \A c \in Calls : pending[c] = {} /\ locked[c] = {}
  BY DEF Init
<1> QED
  BY <1>2, <1>3, <1>4 DEF Init, TypeOK, PCs, InCall, Steps, TxSteps, RowStates, Tables, Results

\* A call waits in a circle only while its UPDATE visits rows.
LEMMA VictimWaits ==
  ASSUME NEW c \in Calls, DeadlockVictim(c)
  PROVE  pc[c] = "rows" /\ Fail(c, "other")
BY DEF DeadlockVictim, Deadlocked, WaitsFor

LEMMA TypeFail ==
  ASSUME TypeOK, NEW c \in Calls, NEW err \in Results, Fail(c, err), pc[c] # "rollback"
  PROVE  TypeOK'
BY DEF Fail, Goto, TypeOK, tables, tx, PCs, InCall, Steps, TxSteps

LEMMA TypeStep == TypeOK /\ [Next]_vars => TypeOK'
<1> SUFFICES ASSUME TypeOK, [Next]_vars PROVE TypeOK'
  OBVIOUS
<1> USE PlanAssumption DEF tables, tx
<1>0. \A c \in Calls : PlanCode(c) \in PlanArgs /\ User(c) \in Users
  BY DEF TypeOK, PlanCode, User, Request
<1>1. ASSUME NEW c \in Calls, Receive(c) PROVE TypeOK'
  <2>1. FirstStep(req[c].op) \in Steps \ (TxSteps \union {"rollback"})
    BY DEF FirstStep, Steps, TxSteps
  <2>2. CASE \E err \in Results : Fail(c, err)
    BY <1>1, <2>2, TypeFail DEF Receive
  <2>3. CASE Goto(c, FirstStep(req[c].op)) /\ UNCHANGED <<req, tables, tx, reported, result>>
    BY <1>1, <2>1, <2>3 DEF Goto, TypeOK, PCs, InCall, Steps, TxSteps, Receive
  <2> QED
    BY <1>1, <2>2, <2>3 DEF Receive, Results, NamedErrors
<1>2. ASSUME NEW c \in Calls, FindUser(c) PROVE TypeOK'
  <2>1. CASE \E err \in Results : Fail(c, err)
    BY <1>2, <2>1, TypeFail DEF FindUser
  <2>2. CASE Goto(c, "active_plan") /\ UNCHANGED <<req, tables, tx, reported, result>>
    BY <1>2, <2>2 DEF Goto, TypeOK, PCs, InCall, Steps, TxSteps, FindUser
  <2> QED
    BY <1>2, <2>1, <2>2 DEF FindUser, Results, NamedErrors
<1>3. ASSUME NEW c \in Calls, GetActivePlan(c) PROVE TypeOK'
  <2>1. CASE \E err \in Results : Fail(c, err)
    BY <1>3, <2>1, TypeFail DEF GetActivePlan
  <2>2. CASE ActiveRows("user_plans", User(c)) # {}
    <3>1. PICK r \in Calls : reported' = [reported EXCEPT ![c] = PlanCode(r)]
      BY <1>3, <2>2 DEF GetActivePlan, ActiveRows
    <3>2. reported' \in [Calls -> PlanArgs]
      BY <1>0, <3>1 DEF TypeOK
    <3>3. AfterAuthentication(req[c].op) \in PCs
      BY DEF AfterAuthentication, PCs, InCall, Steps, TxSteps
    <3>4. pc[c] = "active_plan" /\ pending[c] = {} /\ locked[c] = {}
      BY <1>3 DEF GetActivePlan, TypeOK, TxSteps
    <3>5. result' \in [Calls -> Results]
      BY <1>3, <2>2 DEF GetActivePlan, TypeOK, Results
    <3> QED
      BY <1>3, <2>2, <3>2, <3>3, <3>4, <3>5 DEF GetActivePlan, Goto, TypeOK
  <2> QED
    BY <1>3, <2>1, <2>2 DEF GetActivePlan, Results, NamedErrors
<1>4. ASSUME NEW c \in Calls, FindPlanID(c) PROVE TypeOK'
  <2>1. CASE \E err \in Results : Fail(c, err)
    BY <1>4, <2>1, TypeFail DEF FindPlanID
  <2>2. CASE /\ Goto(c, IF req[c].op = "register" THEN "insert_user" ELSE "update")
             /\ reported' = [reported EXCEPT ![c] = PlanCode(c)]
             /\ UNCHANGED <<req, tables, tx, result>>
    BY <1>0, <1>4, <2>2 DEF Goto, TypeOK, PCs, InCall, Steps, TxSteps, FindPlanID
  <2> QED
    BY <1>4, <2>1, <2>2 DEF FindPlanID, Results, NamedErrors
<1>5. ASSUME NEW c \in Calls, InsertUser(c) PROVE TypeOK'
  <2>1. CASE \E err \in Results : Fail(c, err)
    BY <1>5, <2>1, TypeFail DEF InsertUser
  <2>2. CASE account[User(c)] = "none"
    BY <1>5, <2>2 DEF InsertUser, Goto, TypeOK, PCs, InCall, Steps, TxSteps
  <2> QED
    BY <1>5, <2>1, <2>2 DEF InsertUser, Results, NamedErrors
<1>6. ASSUME NEW c \in Calls, StartUpdate(c) PROVE TypeOK'
  BY <1>6 DEF StartUpdate, ActiveRows, Goto, TypeOK, PCs, InCall, Steps, TxSteps
<1>7. ASSUME NEW c \in Calls, NEW r \in Calls, UpdateRow(c, r) PROVE TypeOK'
  BY <1>7 DEF UpdateRow, TypeOK, TxSteps
<1>8. ASSUME NEW c \in Calls, FinishUpdate(c) PROVE TypeOK'
  BY <1>8 DEF FinishUpdate, Goto, TypeOK, PCs, InCall, Steps, TxSteps
<1>9. ASSUME NEW c \in Calls, InsertPlan(c) PROVE TypeOK'
  <2>1. CASE ActiveRows("user_plans", User(c)) \subseteq locked[c]
    BY <1>9, <2>1 DEF InsertPlan, Goto, TypeOK, PCs, InCall, Steps, TxSteps, Tables
  <2>2. CASE Fail(c, "other")
    BY <1>9, <2>2, TypeFail DEF InsertPlan, Results
  <2> QED
    BY <1>9, <2>1, <2>2 DEF InsertPlan
<1>10. ASSUME NEW c \in Calls, InsertKey(c) PROVE TypeOK'
  BY <1>10 DEF InsertKey, Goto, TypeOK, PCs, InCall, Steps, TxSteps, Tables
<1>11. ASSUME NEW c \in Calls, Commit(c) PROVE TypeOK'
  <2>1. Committed(c) \in [Tables -> [Calls -> RowStates]]
    BY DEF Committed, TypeOK, RowStates
  <2>2. account' \in [Users -> RowStates]
    BY <1>0, <1>11 DEF Commit, TypeOK, RowStates
  <2> QED
    BY <1>11, <2>1, <2>2 DEF Commit, EndTx, Goto, TypeOK, PCs, InCall, Steps, TxSteps, Results
<1>12. ASSUME NEW c \in Calls, Rollback(c) \/ Answer(c) PROVE TypeOK'
  BY <1>12 DEF Rollback, Answer, EndTx, Goto, TypeOK, PCs, InCall, Steps, TxSteps
<1>13. ASSUME NEW c \in Calls, DBError(c) \/ DeadlockVictim(c) PROVE TypeOK'
  BY <1>13, TypeFail, VictimWaits DEF DBError, Steps, Results
<1>14. CASE Crash
  BY <1>14 DEF Crash, TypeOK, PCs, InCall, Steps, TxSteps
<1>15. ASSUME NEW u \in Users, NEW s \in {"active", "inactive"}, SetStatus(u, s) PROVE TypeOK'
  BY <1>15 DEF SetStatus, TypeOK, RowStates
<1>16. CASE UNCHANGED vars
  BY <1>16 DEF vars, TypeOK
<1> QED
  BY <1>1, <1>2, <1>3, <1>4, <1>5, <1>6, <1>7, <1>8, <1>9, <1>10, <1>11, <1>12, <1>13,
     <1>14, <1>15, <1>16 DEF Next, Progress

(***************************************************************************)
(* The variables of the account endpoints keep their types, and no call is *)
(* outside its transaction with locks held or insertions pending.          *)
(***************************************************************************)
THEOREM TypeCorrect == Spec => []TypeOK
<1>1. Init => TypeOK
  BY TypeInit
<1>2. TypeOK /\ [Next]_vars => TypeOK'
  BY TypeStep
<1> QED
  BY <1>1, <1>2, PTL DEF Spec

-----------------------------------------------------------------------------
(* One active plan.                                                        *)

Tx == <<account, row, pending, found, visited, locked>>

LEMMA InvInit == Init => Inv
<1> SUFFICES ASSUME Init PROVE Inv
  OBVIOUS
<1> USE SeedAssumption
<1>1. TypeOK
  BY TypeInit
<1>2. \A s \in Seeds : req[s].op = "register" /\ User(s) = SeedUser[s]
  <2>1. \A s \in Seeds : req[s] = SeedRequest(s)
    BY DEF Init
  <2>2. \A s \in Seeds : SeedRequest(s).op = "register" /\ SeedRequest(s).user = SeedUser[s]
    BY DEF SeedRequest
  <2> QED
    BY <2>1, <2>2 DEF User
<1>3. \A c \in Calls : pending[c] = {} /\ found[c] = {} /\ locked[c] = {}
  BY DEF Init
<1>4. \A u \in Users : ActiveRows("user_plans", u) = {s \in Seeds : SeedUser[s] = u}
  BY <1>2 DEF Init, ActiveRows, Tables
<1>5. OneActivePlan
  BY <1>4 DEF OneActivePlan, Init
<1>6. ControlFlow /\ KnownUser
  BY DEF Init, ControlFlow, KnownUser, StepsOf, PCs, InCall, Steps, TxSteps
<1>7. Pending
  BY <1>2, <1>3 DEF Init, Pending
<1>8. NewUser /\ LockedRows /\ LocksExclude /\ PlanSlot
  BY <1>3 DEF NewUser, LockedRows, LocksExclude, PlanSlot
<1> QED
  BY <1>1, <1>5, <1>6, <1>7, <1>8 DEF Inv

\* A step that moves one call and touches neither tables nor transactions.
LEMMA Move ==
  ASSUME Inv, TypeOK',
         NEW c \in Calls, NEW x \in StepsOf(req[c].op),
         Goto(c, x), UNCHANGED <<req, Tx>>,
         x # "commit",
         req[c].op = "register" => x \notin {"insert_plan", "insert_key"},
         \/ x \in {"idle", "find_user", "done", "lost"}
         \/ req[c].op # "register" => account[User(c)] # "none"
  PROVE  Inv'
<1> USE DEF Inv, Goto, Tx
<1>1. ControlFlow'
  BY DEF ControlFlow, TypeOK
<1>2. Pending'
  BY DEF Pending, TypeOK
<1>3. KnownUser'
  BY DEF KnownUser, User, TypeOK
<1>4. (NewUser /\ LockedRows /\ LocksExclude)'
  BY DEF NewUser, LockedRows, LocksExclude, User, Target
<1>5. (PlanSlot /\ OneActivePlan)'
  BY DEF PlanSlot, OneActivePlan, ActiveRows, User
<1> QED
  BY <1>1, <1>2, <1>3, <1>4, <1>5

\* An early return.
LEMMA InvFail ==
  ASSUME Inv, TypeOK', NEW c \in Calls, NEW err, Fail(c, err),
         pc[c] \notin {"rollback", "done", "lost"}
  PROVE  Inv'
<1> DEFINE x == IF pc[c] \in TxSteps THEN "rollback" ELSE "done"
<1>1. Goto(c, x) /\ UNCHANGED <<req, Tx>>
  BY DEF Fail, Tx, tx, tables
<1>2. x \in StepsOf(req[c].op)
  <2>1. req[c].op \in Ops /\ pc[c] \in StepsOf(req[c].op)
    BY DEF Inv, TypeOK, Request, ControlFlow
  <2> QED
    BY <2>1 DEF StepsOf, PCs, InCall, Steps, TxSteps, Ops
<1>3. x = "rollback" /\ req[c].op # "register" => account[User(c)] # "none"
  BY DEF Inv, KnownUser, TxSteps
<1> QED
  BY <1>1, <1>2, <1>3, Move

LEMMA InvQueries ==
  ASSUME Inv, TypeOK', NEW c \in Calls,
         Receive(c) \/ FindUser(c) \/ GetActivePlan(c) \/ FindPlanID(c) \/ FinishUpdate(c)
         \/ Answer(c)
  PROVE  Inv'
<1> USE DEF Tx, tx, tables
<1>0. /\ req[c].op \in Ops
      /\ pc[c] \in StepsOf(req[c].op)
      /\ req[c].op # "register" /\ pc[c] \notin {"idle", "find_user", "done", "lost"} =>
           account[User(c)] # "none"
  BY DEF Inv, TypeOK, Request, ControlFlow, KnownUser
<1>1. CASE \E err : Fail(c, err)
  BY <1>1, InvFail DEF Receive, FindUser, GetActivePlan, FindPlanID, FinishUpdate, Answer
<1>2. CASE Receive(c) /\ ~\E err : Fail(c, err)
  <2>1. FirstStep(req[c].op) \in StepsOf(req[c].op) /\ FirstStep(req[c].op) \in {"find_plan", "find_user"}
    BY <1>0 DEF FirstStep, StepsOf, PCs, InCall, Steps, TxSteps, Ops
  <2>2. Goto(c, FirstStep(req[c].op)) /\ UNCHANGED <<req, Tx>>
    BY <1>2 DEF Receive
  <2> QED
    BY <2>1, <2>2, Move DEF FirstStep
<1>3. CASE FindUser(c) /\ ~\E err : Fail(c, err)
  <2>1. account[User(c)] # "none" /\ Goto(c, "active_plan") /\ UNCHANGED <<req, Tx>>
    BY <1>3 DEF FindUser
  <2>2. "active_plan" \in StepsOf(req[c].op)
    BY <1>0, <1>3 DEF FindUser, StepsOf, PCs, InCall, Steps, TxSteps, Ops
  <2> QED
    BY <2>1, <2>2, Move
<1>4. CASE GetActivePlan(c) /\ ~\E err : Fail(c, err)
  <2>1. Goto(c, AfterAuthentication(req[c].op)) /\ UNCHANGED <<req, Tx>>
    BY <1>4 DEF GetActivePlan
  <2>2. AfterAuthentication(req[c].op) \in StepsOf(req[c].op) \ {"insert_plan", "insert_key", "commit"}
    BY <1>0, <1>4 DEF GetActivePlan, AfterAuthentication, StepsOf, PCs, InCall, Steps, TxSteps, Ops
  <2>3. req[c].op # "register" /\ account[User(c)] # "none"
    BY <1>0, <1>4 DEF GetActivePlan, StepsOf, PCs, InCall, Steps, TxSteps, Ops
  <2> QED
    BY <2>1, <2>2, <2>3, Move
<1>5. CASE FindPlanID(c) /\ ~\E err : Fail(c, err)
  <2> DEFINE x == IF req[c].op = "register" THEN "insert_user" ELSE "update"
  <2>1. Goto(c, x) /\ UNCHANGED <<req, Tx>>
    BY <1>5 DEF FindPlanID
  <2>2. x \in StepsOf(req[c].op)
    BY <1>0, <1>5 DEF FindPlanID, StepsOf, PCs, InCall, Steps, TxSteps, Ops
  <2>3. req[c].op # "register" => account[User(c)] # "none"
    BY <1>0, <1>5 DEF FindPlanID
  <2> QED
    BY <2>1, <2>2, <2>3, Move
<1>6. CASE FinishUpdate(c)
  <2> DEFINE x == IF req[c].op = "issue_key" THEN "insert_key" ELSE "insert_plan"
  <2>1. Goto(c, x) /\ UNCHANGED <<req, Tx>>
    BY <1>6 DEF FinishUpdate
  <2>2. req[c].op \in {"issue_key", "change_plan"} /\ account[User(c)] # "none"
    BY <1>0, <1>6 DEF FinishUpdate, StepsOf, PCs, InCall, Steps, TxSteps, Ops
  <2>3. x \in StepsOf(req[c].op)
    BY <2>2 DEF StepsOf, PCs, InCall, Steps, TxSteps
  <2> QED
    BY <2>1, <2>2, <2>3, Move
<1>7. CASE Answer(c)
  <2>1. Goto(c, "done") /\ UNCHANGED <<req, Tx>>
    BY <1>7 DEF Answer
  <2>2. "done" \in StepsOf(req[c].op)
    BY DEF StepsOf, PCs
  <2> QED
    BY <2>1, <2>2, Move
<1> QED
  BY <1>1, <1>2, <1>3, <1>4, <1>5, <1>6, <1>7

LEMMA InvInsertUser ==
  ASSUME Inv, TypeOK', NEW c \in Calls, InsertUser(c)
  PROVE  Inv'
<1> USE DEF Inv, InsertUser, tables, Goto
<1>1. CASE Fail(c, "ErrEmailExists")
  BY <1>1, InvFail
<1>2. CASE account[User(c)] = "none"
  <2>1. req[c].op = "register"
    BY DEF TypeOK, Request, ControlFlow, StepsOf, PCs, InCall, Steps, TxSteps, Ops
  <2>2. (ControlFlow /\ KnownUser)'
    <3>1. ControlFlow'
      BY <1>2, <2>1 DEF ControlFlow, StepsOf, PCs, InCall, Steps, TxSteps, TypeOK
    <3>2. KnownUser'
      BY <1>2, <2>1 DEF KnownUser, User, TypeOK
    <3> QED
      BY <3>1, <3>2
  <2>3. Pending'
    BY <1>2, <2>1 DEF Pending, TypeOK
  <2>4. NewUser'
    <3>1. \A d \in Calls : User(d)' = User(d)
      BY <1>2 DEF User
    <3>2. \A d \in Calls : "users" \in pending'[d] => d = c \/ "users" \in pending[d]
      BY <1>2 DEF TypeOK
    <3> QED
      BY <1>2, <3>1, <3>2 DEF NewUser
  <2>5. (LockedRows /\ LocksExclude)'
    <3>1. LockedRows'
      BY <1>2 DEF LockedRows, User, Target, TypeOK
    <3>2. LocksExclude'
      BY <1>2 DEF LocksExclude, User, Target, TypeOK
    <3> QED
      BY <3>1, <3>2
  <2>6. (PlanSlot /\ OneActivePlan)'
    <3>1. PlanSlot'
      BY <1>2, <2>1 DEF PlanSlot, ActiveRows, User, TypeOK
    <3>2. OneActivePlan'
      BY <1>2, <2>1 DEF OneActivePlan, ActiveRows, User, TypeOK
    <3> QED
      BY <3>1, <3>2
  <2> QED
    BY <2>2, <2>3, <2>4, <2>5, <2>6
<1> QED
  BY <1>1, <1>2

LEMMA InvStartUpdate ==
  ASSUME Inv, TypeOK', NEW c \in Calls, StartUpdate(c)
  PROVE  Inv'
<1> USE DEF Inv, StartUpdate, tables, Goto
<1>1. req[c].op \in {"issue_key", "change_plan"}
  BY DEF TypeOK, Request, ControlFlow, StepsOf, PCs, InCall, Steps, TxSteps, Ops
<1>2. (ControlFlow /\ KnownUser /\ Pending)'
  <2>1. ControlFlow'
    BY <1>1 DEF ControlFlow, StepsOf, PCs, InCall, Steps, TxSteps, TypeOK
  <2>2. KnownUser'
    BY <1>1 DEF KnownUser, User, TypeOK
  <2>3. Pending'
    BY <1>1 DEF Pending, TypeOK
  <2> QED
    BY <2>1, <2>2, <2>3
<1>3. LockedRows'
  BY DEF LockedRows, ActiveRows, User, Target, TypeOK
<1>4. (NewUser /\ LocksExclude /\ PlanSlot /\ OneActivePlan)'
  <2>1. NewUser'
    BY DEF NewUser, User, TypeOK
  <2>2. LocksExclude'
    BY DEF LocksExclude, User, Target, TypeOK
  <2>3. PlanSlot'
    BY DEF PlanSlot, ActiveRows, User, TypeOK
  <2>4. OneActivePlan'
    BY DEF OneActivePlan, ActiveRows, User, TypeOK
  <2> QED
    BY <2>1, <2>2, <2>3, <2>4
<1> QED
  BY <1>2, <1>3, <1>4

LEMMA InvUpdateRow ==
  ASSUME Inv, TypeOK', NEW c \in Calls, NEW r \in Calls, UpdateRow(c, r)
  PROVE  Inv'
<1> USE DEF Inv, UpdateRow, tables
<1>1. req[c].op \in {"issue_key", "change_plan"}
  BY DEF TypeOK, Request, ControlFlow, StepsOf, PCs, InCall, Steps, TxSteps, Ops
<1>2. /\ \A d \in Calls : d # c => locked'[d] = locked[d]
      /\ locked[c] \subseteq locked'[c]
      /\ locked'[c] \subseteq locked[c] \union {r}
      /\ r \in locked'[c] => r \in locked[c] \/ row[Target(c)][r] = "active"
  BY DEF TypeOK
<1>3. (ControlFlow /\ KnownUser /\ Pending /\ NewUser)'
  <2>1. ControlFlow'
    BY DEF ControlFlow, StepsOf, PCs, InCall, Steps, TxSteps, TypeOK
  <2>2. KnownUser'
    BY DEF KnownUser, User, TypeOK
  <2>3. Pending'
    BY DEF Pending, TypeOK
  <2>4. NewUser'
    BY DEF NewUser, User, TypeOK
  <2> QED
    BY <2>1, <2>2, <2>3, <2>4
<1>4. LockedRows'
  BY <1>1, <1>2 DEF LockedRows, User, Target
<1>5. LocksExclude'
  <2>1. \A d \in Calls : d # c /\ Target(d) = Target(c) => r \notin locked[d]
    BY DEF Locks
  <2> QED
    BY <1>2, <2>1 DEF LocksExclude, Target
<1>6. PlanSlot'
  BY <1>2 DEF PlanSlot, ActiveRows, User
<1>7. OneActivePlan'
  BY DEF OneActivePlan, ActiveRows, User
<1> QED
  BY <1>3, <1>4, <1>5, <1>6, <1>7

LEMMA InvInsertPlan ==
  ASSUME Inv, TypeOK', NEW c \in Calls, InsertPlan(c)
  PROVE  Inv'
<1> USE DEF Inv, InsertPlan, tables, Goto
<1>1. CASE Fail(c, "other")
  BY <1>1, InvFail
<1>2. CASE ActiveRows("user_plans", User(c)) \subseteq locked[c]
  <2>1. req[c].op \in {"register", "change_plan"}
    BY DEF TypeOK, Request, ControlFlow, StepsOf, PCs, InCall, Steps, TxSteps, Ops
  <2>2. (ControlFlow /\ KnownUser)'
    <3>1. ControlFlow'
      BY <1>2, <2>1 DEF ControlFlow, StepsOf, PCs, InCall, Steps, TxSteps, TypeOK
    <3>2. KnownUser'
      BY <1>2, <2>1 DEF KnownUser, User, TypeOK
    <3> QED
      BY <3>1, <3>2
  <2>3. Pending'
    BY <1>2, <2>1 DEF Pending, TypeOK, Tables
  <2>4. (NewUser /\ LockedRows /\ LocksExclude)'
    <3>1. NewUser'
      BY <1>2 DEF NewUser, User, TypeOK
    <3>2. LockedRows'
      BY <1>2 DEF LockedRows, User, Target, TypeOK
    <3>3. LocksExclude'
      BY <1>2 DEF LocksExclude, User, Target, TypeOK
    <3> QED
      BY <3>1, <3>2, <3>3
  <2>5. (PlanSlot /\ OneActivePlan)'
    <3>1. PlanSlot'
      BY <1>2, <2>1 DEF PlanSlot, ActiveRows, User, TypeOK
    <3>2. OneActivePlan'
      BY <1>2, <2>1 DEF OneActivePlan, ActiveRows, User, TypeOK
    <3> QED
      BY <3>1, <3>2
  <2> QED
    BY <2>2, <2>3, <2>4, <2>5
<1> QED
  BY <1>1, <1>2

LEMMA InvInsertKey ==
  ASSUME Inv, TypeOK', NEW c \in Calls, InsertKey(c)
  PROVE  Inv'
<1> USE DEF Inv, InsertKey, tables, Goto
<1>1. req[c].op \in {"register", "issue_key"}
  BY DEF TypeOK, Request, ControlFlow, StepsOf, PCs, InCall, Steps, TxSteps, Ops
<1>2. (ControlFlow /\ KnownUser)'
  <2>1. ControlFlow'
    BY <1>1 DEF ControlFlow, StepsOf, PCs, InCall, Steps, TxSteps, TypeOK
  <2>2. KnownUser'
    BY <1>1 DEF KnownUser, User, TypeOK
  <2> QED
    BY <2>1, <2>2
<1>3. Pending'
  BY <1>1 DEF Pending, TypeOK
<1>4. (NewUser /\ LockedRows /\ LocksExclude)'
  <2>1. NewUser'
    BY DEF NewUser, User, TypeOK
  <2>2. LockedRows'
    BY DEF LockedRows, User, Target, TypeOK
  <2>3. LocksExclude'
    BY DEF LocksExclude, User, Target, TypeOK
  <2> QED
    BY <2>1, <2>2, <2>3
<1>5. (PlanSlot /\ OneActivePlan)'
  <2>1. PlanSlot'
    BY DEF PlanSlot, ActiveRows, User, TypeOK
  <2>2. OneActivePlan'
    BY DEF OneActivePlan, ActiveRows, User, TypeOK
  <2> QED
    BY <2>1, <2>2
<1> QED
  BY <1>2, <1>3, <1>4, <1>5

LEMMA InvRollback ==
  ASSUME Inv, TypeOK', NEW c \in Calls, Rollback(c)
  PROVE  Inv'
<1> USE DEF Inv, Rollback, EndTx, tables, Goto
<1>1. (ControlFlow /\ KnownUser /\ Pending)'
  <2>1. ControlFlow'
    BY DEF ControlFlow, StepsOf, PCs, InCall, Steps, TxSteps, TypeOK
  <2>2. KnownUser'
    BY DEF KnownUser, User, TypeOK
  <2>3. Pending'
    BY DEF Pending, TypeOK
  <2> QED
    BY <2>1, <2>2, <2>3
<1>2. (NewUser /\ LockedRows /\ LocksExclude)'
  <2>1. NewUser'
    BY DEF NewUser, User, TypeOK
  <2>2. LockedRows'
    BY DEF LockedRows, User, Target, TypeOK
  <2>3. LocksExclude'
    BY DEF LocksExclude, User, Target, TypeOK
  <2> QED
    BY <2>1, <2>2, <2>3
<1>3. (PlanSlot /\ OneActivePlan)'
  <2>1. PlanSlot'
    BY DEF PlanSlot, ActiveRows, User, TypeOK
  <2>2. OneActivePlan'
    BY DEF OneActivePlan, ActiveRows, User, TypeOK
  <2> QED
    BY <2>1, <2>2
<1> QED
  BY <1>1, <1>2, <1>3

LEMMA InvCrash ==
  ASSUME Inv, TypeOK', Crash
  PROVE  Inv'
<1> USE DEF Inv, Crash, tables
<1>1. (ControlFlow /\ KnownUser /\ Pending)'
  <2>1. ControlFlow'
    BY DEF ControlFlow, StepsOf, PCs, InCall, Steps, TxSteps, TypeOK
  <2>2. KnownUser'
    BY DEF KnownUser, User, TypeOK
  <2>3. Pending'
    BY DEF Pending, InFlight, InCall, Steps, TxSteps, TypeOK
  <2> QED
    BY <2>1, <2>2, <2>3
<1>2. (NewUser /\ LockedRows /\ LocksExclude)'
  <2>1. NewUser'
    BY DEF NewUser, User, TypeOK
  <2>2. LockedRows'
    BY DEF LockedRows, User, Target, TypeOK
  <2>3. LocksExclude'
    BY DEF LocksExclude, User, Target, TypeOK
  <2> QED
    BY <2>1, <2>2, <2>3
<1>3. (PlanSlot /\ OneActivePlan)'
  <2>1. PlanSlot'
    BY DEF PlanSlot, ActiveRows, User, TypeOK
  <2>2. OneActivePlan'
    BY DEF OneActivePlan, ActiveRows, User, TypeOK
  <2> QED
    BY <2>1, <2>2
<1> QED
  BY <1>1, <1>2, <1>3

LEMMA InvSetStatus ==
  ASSUME Inv, TypeOK', NEW u \in Users, NEW s \in {"active", "inactive"}, SetStatus(u, s)
  PROVE  Inv'
<1> USE DEF Inv, SetStatus, tx
<1>1. \A v \in Users : account'[v] = "none" <=> account[v] = "none"
  BY DEF TypeOK
<1>2. \A c \in Calls : User(c) \in Users /\ User(c)' = User(c)
  BY DEF TypeOK, User, Request
<1>3. (ControlFlow /\ KnownUser /\ Pending)'
  <2>1. ControlFlow'
    BY <1>1, <1>2 DEF ControlFlow, StepsOf, PCs, InCall, Steps, TxSteps, TypeOK
  <2>2. KnownUser'
    BY <1>1, <1>2 DEF KnownUser, User, TypeOK
  <2>3. Pending'
    BY <1>1, <1>2 DEF Pending, TypeOK
  <2> QED
    BY <2>1, <2>2, <2>3
<1>4. (NewUser /\ LockedRows /\ LocksExclude)'
  <2>1. NewUser'
    BY <1>1, <1>2 DEF NewUser, User, TypeOK
  <2>2. LockedRows'
    BY <1>1, <1>2 DEF LockedRows, User, Target, TypeOK
  <2>3. LocksExclude'
    BY <1>1, <1>2 DEF LocksExclude, User, Target, TypeOK
  <2> QED
    BY <2>1, <2>2, <2>3
<1>5. (PlanSlot /\ OneActivePlan)'
  <2>1. PlanSlot'
    BY <1>1, <1>2 DEF PlanSlot, ActiveRows, User, TypeOK
  <2>2. OneActivePlan'
    BY <1>1, <1>2 DEF OneActivePlan, ActiveRows, User, TypeOK
  <2> QED
    BY <2>1, <2>2
<1> QED
  BY <1>3, <1>4, <1>5

\* What a commit does to the plan rows of a user.
LEMMA CommitRows ==
  ASSUME Inv, NEW c \in Calls, Commit(c), NEW u \in Users
  PROVE  ActiveRows("user_plans", u)' =
           IF User(c) = u /\ "user_plans" \in pending[c]
             THEN {c}
             ELSE ActiveRows("user_plans", u)
<1> USE DEF Inv, Commit
<1>1. \A r \in Calls : row'["user_plans"][r] =
        IF r = c /\ "user_plans" \in pending[c] THEN "active"
        ELSE IF Locks(c, "user_plans", r) THEN "inactive" ELSE row["user_plans"][r]
  BY DEF Committed, Tables
<1>2. \A r \in Calls : User(r)' = User(r)
  BY DEF User
<1>3. ActiveRows("user_plans", u)' = {r \in Calls : row'["user_plans"][r] = "active" /\ User(r) = u}
  BY <1>2 DEF ActiveRows
<1>4. CASE User(c) = u /\ "user_plans" \in pending[c]
  <2>1. \A r \in ActiveRows("user_plans", u) : Locks(c, "user_plans", r)
    <3>1. CASE req[c].op = "register"
      <4>1. account[u] = "none"
        BY <1>4, <3>1 DEF Pending, NewUser, ControlFlow, TypeOK, Request, StepsOf, PCs, InCall, Steps, TxSteps
      <4> QED
        BY <4>1 DEF OneActivePlan
    <3>2. CASE req[c].op = "change_plan"
      BY <1>4, <3>2 DEF PlanSlot, Locks, Target
    <3> QED
      BY <1>4, <3>1, <3>2 DEF Pending
  <2> QED
    BY <1>1, <1>3, <1>4, <2>1 DEF ActiveRows
<1>5. CASE User(c) # u
  <2>1. \A r \in Calls : Locks(c, "user_plans", r) => User(r) # u
    BY <1>5 DEF LockedRows, Locks
  <2> QED
    BY <1>1, <1>3, <1>5, <2>1 DEF ActiveRows
<1>6. CASE "user_plans" \notin pending[c]
  <2>1. req[c].op = "issue_key"
    BY <1>6 DEF Pending, ControlFlow, TypeOK, Request, StepsOf, PCs, InCall, Steps, TxSteps, Ops
  <2>2. \A r \in Calls : ~Locks(c, "user_plans", r)
    BY <2>1 DEF Locks, Target
  <2> QED
    BY <1>1, <1>3, <1>6, <2>2 DEF ActiveRows
<1> QED
  BY <1>4, <1>5, <1>6

LEMMA InvCommit ==
  ASSUME Inv, TypeOK', NEW c \in Calls, Commit(c)
  PROVE  Inv'
<1> USE DEF Inv, Commit, EndTx, Goto
<1>1. \A d \in Calls : User(d)' = User(d) /\ User(d) \in Users /\ Target(d)' = Target(d)
  BY DEF TypeOK, User, Request, Target
<1>2. \A u \in Users : account'[u] # "none" <=>
        account[u] # "none" \/ (u = User(c) /\ "users" \in pending[c])
  BY <1>1 DEF TypeOK
<1>3. /\ pc' = [pc EXCEPT ![c] = "answer"]
      /\ pending'[c] = {} /\ locked'[c] = {}
      /\ \A d \in Calls \ {c} : pending'[d] = pending[d] /\ locked'[d] = locked[d]
  BY DEF TypeOK
<1>4. (ControlFlow /\ KnownUser)'
  <2>1. ControlFlow'
    BY <1>1, <1>2, <1>3 DEF ControlFlow, StepsOf, PCs, InCall, Steps, TxSteps, TypeOK
  <2>2. KnownUser'
    <3>1. ASSUME NEW d \in Calls, req[d].op # "register",
                 pc'[d] \notin {"idle", "find_user", "done", "lost"}
          PROVE  account'[User(d)] # "none"
      <4>1. pc[d] \notin {"idle", "find_user", "done", "lost"}
        BY <1>3, <3>1 DEF TypeOK
      <4>2. account[User(d)] # "none"
        BY <3>1, <4>1 DEF KnownUser
      <4> QED
        BY <1>1, <1>2, <4>2
    <3>2. req' = req
      OBVIOUS
    <3> QED
      BY <1>1, <3>1, <3>2 DEF KnownUser
  <2> QED
    BY <2>1, <2>2
<1>5. Pending'
  BY <1>3 DEF Pending, TypeOK
<1>6. NewUser'
  BY <1>1, <1>2, <1>3 DEF NewUser
<1>7. LocksExclude'
  BY <1>1, <1>3 DEF LocksExclude
<1>8. LockedRows'
  <2>1. ASSUME NEW d \in Calls, d # c, NEW r \in locked[d]
        PROVE  row'[Target(d)][r] = "active"
    <3>1. row[Target(d)][r] = "active" /\ r \in Calls /\ Target(d) \in Tables
      BY DEF LockedRows, TypeOK, Target, Tables
    <3>2. ~Locks(c, Target(d), r)
      BY <2>1 DEF LocksExclude, Locks
    <3> QED
      BY <3>1, <3>2 DEF Committed
  <2> QED
    <3>1. \A d \in Calls, r \in Calls : User(r)' = User(r) /\ found'[d] = found[d]
      BY DEF User
    <3>2. \A d \in Calls \ {c} : \A r \in locked'[d] : r \in locked[d] /\ row'[Target(d)'][r] = "active"
      BY <1>1, <1>3, <2>1
    <3>3. \A d \in Calls : found[d] \subseteq Calls /\ locked[d] \subseteq Calls
      BY DEF TypeOK
    <3> QED
      BY <1>1, <1>3, <3>1, <3>2, <3>3 DEF LockedRows
<1>9. PlanSlot'
  <2> SUFFICES ASSUME NEW d \in Calls, d # c, req[d].op = "change_plan",
                      "user_plans" \in pending[d]
               PROVE  ActiveRows("user_plans", User(d))' \subseteq locked[d]
    BY <1>1, <1>3 DEF PlanSlot
  <2>1. ActiveRows("user_plans", User(d)) \subseteq locked[d]
    BY DEF PlanSlot
  <2>2. account[User(d)] # "none"
    BY DEF KnownUser, TypeOK, TxSteps
  <2>3. CASE User(c) = User(d) /\ "user_plans" \in pending[c]
    <3>1. req[c].op = "change_plan"
      BY <2>2, <2>3 DEF Pending, NewUser, ControlFlow, TypeOK, Request, StepsOf, PCs, InCall, Steps, TxSteps
    <3>2. ActiveRows("user_plans", User(d)) \subseteq locked[c]
      BY <2>3, <3>1 DEF PlanSlot
    <3>3. PICK r \in ActiveRows("user_plans", User(d)) : TRUE
      BY <1>1, <2>2 DEF OneActivePlan
    <3> QED
      BY <2>1, <3>1, <3>2, <3>3 DEF LocksExclude, Target
  <2>4. CASE ~(User(c) = User(d) /\ "user_plans" \in pending[c])
    BY <1>1, <2>1, <2>4, CommitRows
  <2> QED
    BY <2>3, <2>4
<1>10. OneActivePlan'
  <2> SUFFICES ASSUME NEW u \in Users
               PROVE  /\ account'[u] # "none" <=> ActiveRows("user_plans", u)' # {}
                      /\ \A r, s \in ActiveRows("user_plans", u)' : r = s
    BY DEF OneActivePlan
  <2>1. User(c) = u /\ "users" \in pending[c] => "user_plans" \in pending[c]
    BY DEF Pending
  <2>2. User(c) = u /\ "user_plans" \in pending[c] =>
          account[u] # "none" \/ "users" \in pending[c]
    BY DEF Pending, KnownUser
  <2> QED
    <3>1. CASE User(c) = u /\ "user_plans" \in pending[c]
      <4>1. ActiveRows("user_plans", u)' = {c}
        BY <3>1, CommitRows
      <4>2. account'[u] # "none"
        BY <1>2, <2>2, <3>1
      <4> QED
        BY <4>1, <4>2
    <3>2. CASE ~(User(c) = u /\ "user_plans" \in pending[c])
      <4>1. ActiveRows("user_plans", u)' = ActiveRows("user_plans", u)
        BY <3>2, CommitRows
      <4>2. account'[u] # "none" <=> account[u] # "none"
        BY <1>2, <2>1, <3>2
      <4> QED
        BY <4>1, <4>2 DEF OneActivePlan
    <3> QED
      BY <3>1, <3>2
<1> QED
  BY <1>4, <1>5, <1>6, <1>7, <1>8, <1>9, <1>10

LEMMA InvStep == Inv /\ [Next]_vars => Inv'
<1> SUFFICES ASSUME Inv, [Next]_vars PROVE Inv'
  OBVIOUS
<1>1. TypeOK'
  BY TypeStep DEF Inv
<1>2. ASSUME NEW c \in Calls, Receive(c) PROVE Inv'
  BY <1>1, <1>2, InvQueries
<1>3. ASSUME NEW c \in Calls, Progress(c) PROVE Inv'
  <2>1. CASE FindUser(c) \/ GetActivePlan(c) \/ FindPlanID(c) \/ FinishUpdate(c) \/ Answer(c)
    BY <1>1, <2>1, InvQueries
  <2>2. CASE InsertUser(c)
    BY <1>1, <2>2, InvInsertUser
  <2>3. CASE StartUpdate(c)
    BY <1>1, <2>3, InvStartUpdate
  <2>4. CASE \E r \in Calls : UpdateRow(c, r)
    BY <1>1, <2>4, InvUpdateRow
  <2>5. CASE InsertPlan(c)
    BY <1>1, <2>5, InvInsertPlan
  <2>6. CASE InsertKey(c)
    BY <1>1, <2>6, InvInsertKey
  <2>7. CASE Commit(c)
    BY <1>1, <2>7, InvCommit
  <2>8. CASE Rollback(c)
    BY <1>1, <2>8, InvRollback
  <2>9. CASE DeadlockVictim(c)
    BY <1>1, <2>9, VictimWaits, InvFail
  <2> QED
    BY <1>3, <2>1, <2>2, <2>3, <2>4, <2>5, <2>6, <2>7, <2>8, <2>9 DEF Progress
<1>4. ASSUME NEW c \in Calls, DBError(c) PROVE Inv'
  BY <1>1, <1>4, InvFail DEF DBError, Steps, TxSteps
<1>5. CASE Crash
  BY <1>1, <1>5, InvCrash
<1>6. ASSUME NEW u \in Users, NEW s \in {"active", "inactive"}, SetStatus(u, s) PROVE Inv'
  BY <1>1, <1>6, InvSetStatus
<1>7. CASE UNCHANGED vars
  BY <1>7 DEF vars, Inv, TypeOK, ControlFlow, Pending, KnownUser, NewUser, LockedRows,
     LocksExclude, PlanSlot, OneActivePlan, ActiveRows, User, Target
<1> QED
  BY <1>2, <1>3, <1>4, <1>5, <1>6, <1>7 DEF Next

(***************************************************************************)
(* However plan changes, registrations and failures interleave, every      *)
(* registered user has exactly one active plan and nobody else has one.    *)
(***************************************************************************)
THEOREM ExactlyOnePlan == Spec => []OneActivePlan
<1>1. Init => Inv
  BY InvInit
<1>2. Inv /\ [Next]_vars => Inv'
  BY InvStep
<1>3. Inv => OneActivePlan
  BY DEF Inv
<1> QED
  BY <1>1, <1>2, <1>3, PTL DEF Spec
=============================================================================
