------------------------- MODULE AccountsRowsProofs --------------------------
(***************************************************************************)
(* Proofs about the rows that the account endpoints of Accounts store, for *)
(* any calls and with every fault: registrations are stored whole and once *)
(* (AtomicRegistration), a user always has a key (KeyAlwaysAvailable), an  *)
(* acknowledged rotation has revoked the keys it found (RotationRevokes),  *)
(* and answers agree with the tables (AnswerMatchesTables).                *)
(*                                                                         *)
(* They rest on the invariant Inv of AccountsProofs and on RowInv, what a  *)
(* call has stored: nothing before its commit, and at its commit all that  *)
(* its operation writes.  Every theorem adds one invariant of its own.     *)
(***************************************************************************)
EXTENDS AccountsProofs, FiniteSetTheorems

\* A call is here only when it has stored all that it will ever store.
Ended == {"answer", "done", "lost"}

Stored(c) == {t \in Tables : row[t][c] # "none"}

\* A transaction inserts a key if its operation issues one, before it commits.
KeyPending ==
  \A c \in Calls :
    /\ "api_keys" \in pending[c] => req[c].op \in {"register", "issue_key"}
    /\ req[c].op \in {"register", "issue_key"} /\ pc[c] = "commit" => "api_keys" \in pending[c]

StoredRows ==
  \A c \in Calls :
    /\ Stored(c) \in {{}, Writes(req[c].op)}
    /\ pc[c] \notin Ended => Stored(c) = {}
    /\ result[c] \notin {"ok", "other"} => Stored(c) = {}
    /\ result[c] = "ok" => pc[c] \in Ended /\ Stored(c) = Writes(req[c].op)

RowInv == Inv /\ KeyPending /\ StoredRows

-----------------------------------------------------------------------------
(* What the steps do to rows, results and control points.                  *)

LEMMA OpsKnown ==
  ASSUME Inv, NEW c \in Calls
  PROVE  req[c].op \in Ops /\ pc[c] \in PCs /\ pc[c] \in StepsOf(req[c].op) /\ User(c) \in Users
BY DEF Inv, TypeOK, Request, ControlFlow, User

LEMMA RowsWritten ==
  ASSUME [Next]_vars
  PROVE  row' = row \/ \E c \in Calls : Commit(c)
<1> USE DEF tables, Fail
<1>1. ASSUME NEW c \in Calls, Receive(c) \/ DBError(c) PROVE row' = row
  BY <1>1 DEF Receive, DBError
<1>2. ASSUME NEW c \in Calls, Progress(c), ~Commit(c) PROVE row' = row
  <2>1. CASE FindUser(c) \/ GetActivePlan(c) \/ FindPlanID(c)
    BY <2>1 DEF FindUser, GetActivePlan, FindPlanID
  <2>2. CASE InsertUser(c) \/ StartUpdate(c) \/ FinishUpdate(c) \/ InsertPlan(c) \/ InsertKey(c)
    BY <2>2 DEF InsertUser, StartUpdate, FinishUpdate, InsertPlan, InsertKey
  <2>3. CASE Rollback(c) \/ Answer(c) \/ DeadlockVictim(c) \/ \E r \in Calls : UpdateRow(c, r)
    BY <2>3 DEF Rollback, Answer, DeadlockVictim, UpdateRow
  <2> QED
    BY <1>2, <2>1, <2>2, <2>3 DEF Progress
<1>3. CASE Crash \/ UNCHANGED vars \/ \E u \in Users, s \in {"active", "inactive"} : SetStatus(u, s)
  BY <1>3 DEF Crash, SetStatus, vars
<1> QED
  BY <1>1, <1>2, <1>3 DEF Next

\* How a step that is not a commit may move call d.
Calm(d) ==
  /\ pc[d] \in Ended => pc'[d] \in Ended /\ result'[d] = result[d]
  /\ result'[d] = "ok" =>
       \/ result[d] = "ok"
       \/ req[d].op = "login" /\ pc[d] \notin Ended /\ pc'[d] \in Ended

LEMMA CalmFail ==
  ASSUME Inv, NEW c \in Calls, NEW err, err # "ok", Fail(c, err), pc[c] \notin Ended,
         NEW d \in Calls
  PROVE  Calm(d)
BY DEF Fail, Goto, Calm, Inv, TypeOK

LEMMA CalmMove ==
  ASSUME Inv, NEW c \in Calls, NEW x, Goto(c, x), result' = result,
         pc[c] \notin Ended \/ x \in Ended,
         NEW d \in Calls
  PROVE  Calm(d)
BY DEF Goto, Calm, Inv, TypeOK

LEMMA CalmStep ==
  ASSUME Inv, [Next]_vars, ~\E c \in Calls : Commit(c), NEW d \in Calls
  PROVE  Calm(d)
<1>1. ASSUME NEW c \in Calls, Receive(c) PROVE Calm(d)
  BY <1>1, CalmFail, CalmMove DEF Receive, Ended
<1>2. ASSUME NEW c \in Calls, DBError(c) PROVE Calm(d)
  BY <1>2, CalmFail DEF DBError, Steps, TxSteps, Ended
<1>3. ASSUME NEW c \in Calls, Progress(c) PROVE Calm(d)
  <2>1. CASE FindUser(c)
    BY <2>1, CalmFail, CalmMove DEF FindUser, Ended
  <2>2. CASE GetActivePlan(c)
    <3>1. CASE Fail(c, "ErrPlanNotFound")
      BY <2>2, <3>1, CalmFail DEF GetActivePlan, Ended
    <3>2. CASE ~Fail(c, "ErrPlanNotFound") /\ req[c].op # "login"
      <4>1. result' = result /\ Goto(c, AfterAuthentication(req[c].op))
        BY <2>2, <3>2 DEF GetActivePlan, Inv, TypeOK
      <4> QED
        BY <2>2, <4>1, CalmMove DEF GetActivePlan, Ended
    <3>3. CASE ~Fail(c, "ErrPlanNotFound") /\ req[c].op = "login"
      <4>1. result' = [result EXCEPT ![c] = "ok"] /\ pc' = [pc EXCEPT ![c] = "done"]
        BY <2>2, <3>3 DEF GetActivePlan, Goto, AfterAuthentication
      <4> QED
        BY <2>2, <3>3, <4>1 DEF GetActivePlan, Calm, Inv, TypeOK, Ended
    <3> QED
      BY <3>1, <3>2, <3>3
  <2>3. CASE FindPlanID(c)
    BY <2>3, CalmFail, CalmMove DEF FindPlanID, Ended
  <2>4. CASE InsertUser(c)
    BY <2>4, CalmFail, CalmMove DEF InsertUser, Ended
  <2>5. CASE StartUpdate(c) \/ FinishUpdate(c) \/ InsertKey(c)
    BY <2>5, CalmMove DEF StartUpdate, FinishUpdate, InsertKey, Ended
  <2>6. CASE \E r \in Calls : UpdateRow(c, r)
    BY <2>6 DEF UpdateRow, Calm
  <2>7. CASE InsertPlan(c)
    BY <2>7, CalmFail, CalmMove DEF InsertPlan, Ended
  <2>8. CASE Rollback(c) \/ Answer(c)
    BY <2>8, CalmMove DEF Rollback, Answer, Ended
  <2>9. CASE DeadlockVictim(c)
    BY <2>9, VictimWaits, CalmFail DEF Ended
  <2> QED
    BY <1>3, <2>1, <2>2, <2>3, <2>4, <2>5, <2>6, <2>7, <2>8, <2>9 DEF Progress
<1>4. CASE Crash
  BY <1>4 DEF Crash, Calm, Ended, InFlight, Inv, TypeOK, PCs
<1>5. CASE UNCHANGED vars \/ \E u \in Users, s \in {"active", "inactive"} : SetStatus(u, s)
  BY <1>5 DEF SetStatus, vars, Calm
<1> QED
  BY <1>1, <1>2, <1>3, <1>4, <1>5 DEF Next

\* What a commit stores.
LEMMA PendingAtCommit ==
  ASSUME Inv, KeyPending, NEW c \in Calls, pc[c] = "commit"
  PROVE  /\ req[c].op \in Ops \ {"login"}
         /\ pending[c] \intersect Tables = Writes(req[c].op)
         /\ "users" \in pending[c] <=> req[c].op = "register"
<1>1. req[c].op \in Ops \ {"login"}
  BY OpsKnown DEF StepsOf, Ops
<1>2. \A t \in Tables : t \in pending[c] <=> t \in Writes(req[c].op)
  BY <1>1 DEF Inv, Pending, KeyPending, Writes, Ops, Tables
<1>3. Writes(req[c].op) \subseteq Tables
  BY <1>1 DEF Writes, Tables, Ops
<1>4. "users" \in pending[c] <=> req[c].op = "register"
  BY <1>1 DEF Inv, Pending
<1> QED
  BY <1>1, <1>2, <1>3, <1>4

LEMMA CommitStores ==
  ASSUME RowInv, NEW c \in Calls, Commit(c)
  PROVE  /\ Stored(c)' = Writes(req[c].op)
         /\ \A t \in Writes(req[c].op) : row'[t][c] = "active"
         /\ \A d \in Calls \ {c} : Stored(d)' = Stored(d)
         /\ \A t \in Tables, r \in Calls :
              row[t][r] = "inactive" => row'[t][r] = "inactive"
<1>1. /\ req[c].op \in Ops
      /\ pc[c] = "commit"
      /\ Stored(c) = {}
      /\ pending[c] \intersect Tables = Writes(req[c].op)
  BY PendingAtCommit DEF Commit, RowInv, StoredRows, Ended
<1>2. \A t \in Tables, r \in Calls : row'[t][r] =
        IF r = c /\ t \in pending[c] THEN "active"
        ELSE IF Locks(c, t, r) THEN "inactive" ELSE row[t][r]
  BY DEF Commit, Committed
<1>3. \A t \in Tables, r \in Calls : Locks(c, t, r) => row[t][r] = "active"
  BY DEF Locks, RowInv, Inv, LockedRows
<1>4. \A t \in Tables : row[t][c] = "none"
  BY <1>1 DEF Stored
<1>5. Stored(c)' = Writes(req[c].op) /\ \A t \in Writes(req[c].op) : row'[t][c] = "active"
  <2>1. \A t \in Tables : row'[t][c] = IF t \in pending[c] THEN "active" ELSE "none"
    BY <1>2, <1>3, <1>4
  <2> QED
    BY <1>1, <2>1 DEF Stored
<1>6. \A d \in Calls \ {c} : Stored(d)' = Stored(d)
  BY <1>2, <1>3 DEF Stored
<1>7. \A t \in Tables, r \in Calls : row[t][r] = "inactive" => row'[t][r] = "inactive"
  BY <1>2, <1>4
<1> QED
  BY <1>5, <1>6, <1>7

LEMMA ReqConstant == [Next]_vars => req' = req
<1> SUFFICES ASSUME [Next]_vars PROVE req' = req
  OBVIOUS
<1> USE DEF Fail
<1>1. ASSUME NEW c \in Calls, Receive(c) \/ DBError(c) PROVE req' = req
  BY <1>1 DEF Receive, DBError
<1>2. ASSUME NEW c \in Calls, Progress(c) PROVE req' = req
  <2>1. CASE FindUser(c) \/ GetActivePlan(c) \/ FindPlanID(c)
    BY <2>1 DEF FindUser, GetActivePlan, FindPlanID
  <2>2. CASE InsertUser(c) \/ StartUpdate(c) \/ FinishUpdate(c) \/ InsertPlan(c) \/ InsertKey(c)
    BY <2>2 DEF InsertUser, StartUpdate, FinishUpdate, InsertPlan, InsertKey
  <2>3. CASE \/ Commit(c) \/ Rollback(c) \/ Answer(c) \/ DeadlockVictim(c)
             \/ \E r \in Calls : UpdateRow(c, r)
    BY <2>3 DEF Commit, Rollback, Answer, DeadlockVictim, UpdateRow
  <2> QED
    BY <1>2, <2>1, <2>2, <2>3 DEF Progress
<1>3. CASE Crash \/ UNCHANGED vars \/ \E u \in Users, s \in {"active", "inactive"} : SetStatus(u, s)
  BY <1>3 DEF Crash, SetStatus, vars
<1> QED
  BY <1>1, <1>2, <1>3 DEF Next

LEMMA StoredRowsStep ==
  ASSUME RowInv, [Next]_vars
  PROVE  StoredRows'
<1>1. req' = req
  BY ReqConstant
<1>2. CASE row' = row /\ ~\E c \in Calls : Commit(c)
  <2> SUFFICES ASSUME NEW d \in Calls
               PROVE  /\ Stored(d)' \in {{}, Writes(req[d].op)}
                      /\ pc'[d] \notin Ended => Stored(d)' = {}
                      /\ result'[d] \notin {"ok", "other"} => Stored(d)' = {}
                      /\ result'[d] = "ok" => pc'[d] \in Ended /\ Stored(d)' = Writes(req[d].op)
    BY <1>1 DEF StoredRows, Writes
  <2>1. Stored(d)' = Stored(d)
    BY <1>2 DEF Stored
  <2>2. Calm(d)
    BY <1>2, CalmStep DEF RowInv
  <2>3. Writes("login") = {}
    BY DEF Writes
  <2> QED
    BY <2>1, <2>2, <2>3 DEF RowInv, StoredRows, Calm
<1>3. ASSUME NEW c \in Calls, Commit(c)
      PROVE  StoredRows'
  <2>1. /\ pc' = [pc EXCEPT ![c] = "answer"]
        /\ \E ack \in {"ok", "other"} : result' = [result EXCEPT ![c] = ack]
    BY <1>3 DEF Commit, Goto
  <2>2. /\ Stored(c)' = Writes(req[c].op)
        /\ \A d \in Calls \ {c} : Stored(d)' = Stored(d)
    BY <1>3, CommitStores
  <2>3. ASSUME NEW d \in Calls
        PROVE  /\ Stored(d)' \in {{}, Writes(req[d].op)}
               /\ pc'[d] \notin Ended => Stored(d)' = {}
               /\ result'[d] \notin {"ok", "other"} => Stored(d)' = {}
               /\ result'[d] = "ok" => pc'[d] \in Ended /\ Stored(d)' = Writes(req[d].op)
    BY <2>1, <2>2 DEF RowInv, StoredRows, Ended, Inv, TypeOK
  <2> QED
    BY <1>1, <2>3 DEF StoredRows, Writes
<1> QED
  BY <1>2, <1>3, RowsWritten

-----------------------------------------------------------------------------
(* Keys that wait to be committed.                                         *)

\* A step of call c that inserts no key and does not take c to its commit.
LEMMA NoKeyInserted ==
  ASSUME Inv, KeyPending, NEW c \in Calls, req' = req,
         \A d \in Calls \ {c} : pc'[d] = pc[d] /\ pending'[d] = pending[d],
         pc'[c] # "commit" \/ req[c].op \notin {"register", "issue_key"},
         "api_keys" \in pending'[c] => "api_keys" \in pending[c]
  PROVE  KeyPending'
BY DEF KeyPending

LEMMA KeyPendingStep ==
  ASSUME Inv, KeyPending, [Next]_vars
  PROVE  KeyPending'
<1>0. req' = req
  BY ReqConstant
<1>1. \A c \in Calls : /\ req[c].op \in Ops
                       /\ pc[c] \in StepsOf(req[c].op)
  BY OpsKnown
<1>2. ASSUME NEW c \in Calls, NEW err, Fail(c, err) PROVE KeyPending'
  BY <1>0, <1>2, NoKeyInserted DEF Fail, Goto, tx, Inv, TypeOK
<1>3. ASSUME NEW c \in Calls, NEW x, Goto(c, x), pending' = pending, x # "commit" PROVE KeyPending'
  BY <1>0, <1>3, NoKeyInserted DEF Goto, Inv, TypeOK
<1>4. ASSUME NEW c \in Calls, Receive(c) PROVE KeyPending'
  BY <1>2, <1>3, <1>4 DEF Receive, FirstStep, tx
<1>5. ASSUME NEW c \in Calls, DBError(c) PROVE KeyPending'
  BY <1>2, <1>5 DEF DBError
<1>6. ASSUME NEW c \in Calls, Progress(c) PROVE KeyPending'
  <2>1. CASE FindUser(c) \/ GetActivePlan(c) \/ FindPlanID(c)
    BY <1>2, <1>3, <2>1 DEF FindUser, GetActivePlan, FindPlanID, AfterAuthentication, tx
  <2>2. CASE InsertUser(c)
    <3>1. CASE ~Fail(c, "ErrEmailExists")
      BY <1>0, <2>2, <3>1, NoKeyInserted DEF InsertUser, Goto, Inv, TypeOK
    <3> QED
      BY <1>2, <3>1
  <2>3. CASE StartUpdate(c) \/ FinishUpdate(c)
    BY <1>3, <2>3 DEF StartUpdate, FinishUpdate, tx
  <2>4. CASE \E r \in Calls : UpdateRow(c, r)
    BY <1>0, <2>4 DEF UpdateRow, KeyPending
  <2>5. CASE InsertPlan(c)
    <3>1. CASE ~Fail(c, "other")
      BY <1>0, <1>1, <2>5, <3>1, NoKeyInserted DEF InsertPlan, Goto, Inv, TypeOK, StepsOf
    <3> QED
      BY <1>2, <3>1
  <2>6. CASE InsertKey(c)
    BY <1>0, <1>1, <2>6 DEF InsertKey, Goto, KeyPending, Inv, TypeOK, StepsOf
  <2>7. CASE Commit(c) \/ Rollback(c) \/ Answer(c)
    BY <1>0, <2>7, NoKeyInserted DEF Commit, Rollback, Answer, EndTx, Goto, tx, Inv, TypeOK
  <2>8. CASE DeadlockVictim(c)
    BY <1>2, <2>8, VictimWaits
  <2> QED
    BY <1>6, <2>1, <2>2, <2>3, <2>4, <2>5, <2>6, <2>7, <2>8 DEF Progress
<1>7. CASE Crash
  <2>1. \A c \in Calls : pc'[c] # "commit" /\ pending'[c] = {}
    BY <1>7 DEF Crash, InFlight, InCall, Steps, TxSteps
  <2> QED
    BY <1>0, <2>1 DEF KeyPending
<1>8. CASE UNCHANGED vars \/ \E u \in Users, s \in {"active", "inactive"} : SetStatus(u, s)
  BY <1>0, <1>8 DEF SetStatus, vars, tx, KeyPending
<1> QED
  BY <1>4, <1>5, <1>6, <1>7, <1>8 DEF Next

LEMMA RowInit == Init => RowInv
<1> SUFFICES ASSUME Init PROVE RowInv
  OBVIOUS
<1> USE PlanAssumption, SeedAssumption
<1>1. Inv
  BY InvInit
<1>2. KeyPending
  BY DEF Init, KeyPending
<1>3. StoredRows
  <2>1. \A s \in Seeds : req[s].op = "register" /\ Stored(s) = Tables /\ result[s] = "ok"
    <3>1. \A t \in Tables, s \in Seeds : row[t][s] = "active"
      BY DEF Init
    <3>2. \A s \in Seeds : Stored(s) = Tables
      BY <3>1 DEF Stored
    <3>3. \A s \in Seeds : result[s] = "ok"
      BY DEF Init
    <3>4. \A s \in Seeds : req[s] = SeedRequest(s)
      BY DEF Init
    <3>5. \A s \in Seeds : SeedRequest(s).op = "register"
      BY DEF SeedRequest
    <3> QED
      BY <3>2, <3>3, <3>4, <3>5
  <2>2. \A c \in Calls \ Seeds : Stored(c) = {} /\ pc[c] = "idle" /\ result[c] = "pending"
    BY DEF Init, Stored
  <2>3. \A s \in Seeds : pc[s] = "done"
    BY DEF Init
  <2> QED
    BY <2>1, <2>2, <2>3 DEF StoredRows, Ended, Writes, Tables
<1> QED
  BY <1>1, <1>2, <1>3 DEF RowInv

LEMMA RowStep == RowInv /\ [Next]_vars => RowInv'
  BY InvStep, KeyPendingStep, StoredRowsStep DEF RowInv

(***************************************************************************)
(* What the client is told is what the tables say, for every interleaving, *)
(* failure and crash: a call stores all rows of its operation or none, all *)
(* if it is answered with 200 or 201, and none if it is answered with 4xx. *)
(***************************************************************************)
THEOREM AnswersAgree == Spec => []AnswerMatchesTables
<1>1. RowInv => AnswerMatchesTables
  <2> SUFFICES ASSUME RowInv, NEW c \in Calls
               PROVE  LET status == Status(req[c].op, result[c])
                      IN  /\ Stored(c) \in {{}, Writes(req[c].op)}
                          /\ pc[c] = "done" /\ status \in {200, 201} => Stored(c) = Writes(req[c].op)
                          /\ pc[c] = "done" /\ status \in 400 .. 499 => Stored(c) = {}
    BY DEF AnswerMatchesTables, Stored
  <2>1. /\ Stored(c) \in {{}, Writes(req[c].op)}
        /\ result[c] \in {"ok", "other"} \/ Stored(c) = {}
        /\ result[c] = "ok" => Stored(c) = Writes(req[c].op)
    BY DEF RowInv, StoredRows
  <2>2. Status(req[c].op, "other") = 500 /\ Status(req[c].op, "ok") \in {200, 201}
    BY DEF Status
  <2>3. Status(req[c].op, result[c]) \in {200, 201} => result[c] = "ok"
    BY DEF Status
  <2> QED
    BY <2>1, <2>2, <2>3
<1> QED
  BY <1>1, RowInit, RowStep, PTL DEF Spec

-----------------------------------------------------------------------------
(* Users and their keys.                                                   *)

LEMMA UserConstant ==
  ASSUME Inv, [Next]_vars
  PROVE  \A c \in Calls : User(c) \in Users /\ User(c)' = User(c)
BY OpsKnown, ReqConstant DEF User

LEMMA UsersWritten ==
  ASSUME Inv, [Next]_vars, ~\E c \in Calls : Commit(c)
  PROVE  \A u \in Users : account'[u] = "none" <=> account[u] = "none"
<1> USE DEF tables, Fail
<1>1. ASSUME NEW c \in Calls, Receive(c) \/ DBError(c) PROVE account' = account
  BY <1>1 DEF Receive, DBError
<1>2. ASSUME NEW c \in Calls, Progress(c) PROVE account' = account
  <2>1. CASE FindUser(c) \/ GetActivePlan(c) \/ FindPlanID(c)
    BY <2>1 DEF FindUser, GetActivePlan, FindPlanID
  <2>2. CASE InsertUser(c) \/ StartUpdate(c) \/ FinishUpdate(c) \/ InsertPlan(c) \/ InsertKey(c)
    BY <2>2 DEF InsertUser, StartUpdate, FinishUpdate, InsertPlan, InsertKey
  <2>3. CASE Rollback(c) \/ Answer(c) \/ DeadlockVictim(c) \/ \E r \in Calls : UpdateRow(c, r)
    BY <2>3 DEF Rollback, Answer, DeadlockVictim, UpdateRow
  <2> QED
    BY <1>2, <2>1, <2>2, <2>3 DEF Progress
<1>3. CASE Crash \/ UNCHANGED vars
  BY <1>3 DEF Crash, vars
<1>4. CASE \E u \in Users, s \in {"active", "inactive"} : SetStatus(u, s)
  BY <1>4 DEF SetStatus, Inv, TypeOK
<1> QED
  BY <1>1, <1>2, <1>3, <1>4 DEF Next

LEMMA CommitUsers ==
  ASSUME RowInv, NEW c \in Calls, Commit(c)
  PROVE  /\ req[c].op = "register" => account[User(c)] = "none"
         /\ account' = [account EXCEPT ![User(c)] =
              IF req[c].op = "register" THEN "active" ELSE @]
<1>1. "users" \in pending[c] <=> req[c].op = "register"
  BY PendingAtCommit DEF RowInv, Commit
<1>2. "users" \in pending[c] => account[User(c)] = "none"
  BY DEF RowInv, Inv, NewUser
<1> QED
  BY <1>1, <1>2 DEF Commit

\* What a commit does to the keys of a user.
LEMMA CommitKeys ==
  ASSUME RowInv, [Next]_vars, NEW c \in Calls, Commit(c), NEW u \in Users
  PROVE  ActiveRows("api_keys", u)' =
           IF User(c) = u /\ req[c].op \in {"register", "issue_key"}
             THEN (ActiveRows("api_keys", u) \ locked[c]) \union {c}
             ELSE ActiveRows("api_keys", u)
<1>1. \A r \in Calls : row'["api_keys"][r] =
        IF r = c /\ "api_keys" \in pending[c] THEN "active"
        ELSE IF Locks(c, "api_keys", r) THEN "inactive" ELSE row["api_keys"][r]
  BY DEF Commit, Committed, Tables
<1>2. ActiveRows("api_keys", u)' = {r \in Calls : row'["api_keys"][r] = "active" /\ User(r) = u}
  BY UserConstant DEF ActiveRows, RowInv
<1>3. /\ req[c].op \in Ops \ {"login"}
      /\ "api_keys" \in pending[c] <=> req[c].op \in {"register", "issue_key"}
  BY PendingAtCommit DEF RowInv, KeyPending, Commit
<1>4. /\ \A r \in locked[c] : User(r) = User(c)
      /\ req[c].op = "register" => locked[c] = {}
  BY DEF RowInv, Inv, LockedRows
<1>5. \A r \in Calls : Locks(c, "api_keys", r) <=> req[c].op = "issue_key" /\ r \in locked[c]
  BY DEF Locks, Target
<1>6. CASE req[c].op \in {"register", "issue_key"}
  <2>1. \A r \in Calls : Locks(c, "api_keys", r) <=> r \in locked[c]
    BY <1>4, <1>5, <1>6
  <2> QED
    BY <1>1, <1>2, <1>3, <1>4, <1>6, <2>1 DEF ActiveRows
<1>7. CASE req[c].op \notin {"register", "issue_key"}
  BY <1>1, <1>2, <1>3, <1>5, <1>7 DEF ActiveRows
<1> QED
  BY <1>6, <1>7

LEMMA SameKeys ==
  ASSUME Inv, [Next]_vars, row' = row, NEW t, NEW u
  PROVE  ActiveRows(t, u)' = ActiveRows(t, u)
BY UserConstant DEF ActiveRows

(***************************************************************************)
(* A registered user has a usable key at any time: a rotation takes the    *)
(* old keys away only in the transaction that stores the new one.          *)
(***************************************************************************)
THEOREM KeyAvailable == Spec => []KeyAlwaysAvailable
<1>1. Init => KeyAlwaysAvailable
  <2> SUFFICES ASSUME Init, NEW u \in Users, account[u] # "none"
               PROVE  ActiveRows("api_keys", u) # {}
    BY DEF KeyAlwaysAvailable
  <2> USE SeedAssumption
  <2>1. PICK s \in Seeds : SeedUser[s] = u
    BY DEF Init
  <2>2. row["api_keys"][s] = "active" /\ req[s] = SeedRequest(s)
    BY DEF Init, Tables
  <2>3. SeedRequest(s).user = SeedUser[s]
    BY DEF SeedRequest
  <2> QED
    BY <2>1, <2>2, <2>3 DEF ActiveRows, User
<1>2. RowInv /\ KeyAlwaysAvailable /\ [Next]_vars => KeyAlwaysAvailable'
  <2> SUFFICES ASSUME RowInv, KeyAlwaysAvailable, [Next]_vars,
                      NEW u \in Users, account'[u] # "none"
               PROVE  ActiveRows("api_keys", u)' # {}
    BY DEF KeyAlwaysAvailable
  <2>1. CASE row' = row /\ ~\E c \in Calls : Commit(c)
    BY <2>1, UsersWritten, SameKeys DEF RowInv, KeyAlwaysAvailable
  <2>2. ASSUME NEW c \in Calls, Commit(c) PROVE ActiveRows("api_keys", u)' # {}
    <3>1. account[u] # "none" \/ (User(c) = u /\ req[c].op = "register")
      BY <2>2, CommitUsers DEF RowInv, Inv, TypeOK
    <3> QED
      BY <2>2, <3>1, CommitKeys DEF KeyAlwaysAvailable
  <2> QED
    BY <2>1, <2>2, RowsWritten
<1> QED
  BY <1>1, <1>2, RowInit, RowStep, PTL DEF Spec

-----------------------------------------------------------------------------
(* Registrations.                                                          *)

RegistrationsOf(u) ==
  {c \in Calls : req[c].op = "register" /\ User(c) = u /\ Stored(c) # {}}

Registrations ==
  \A u \in Users :
    /\ account[u] = "none" => RegistrationsOf(u) = {}
    /\ account[u] # "none" => \E c \in Calls : RegistrationsOf(u) = {c}

LEMMA RegistrationsInit == Init => Registrations
<1> SUFFICES ASSUME Init, NEW u \in Users
             PROVE  /\ account[u] = "none" => RegistrationsOf(u) = {}
                    /\ account[u] # "none" => \E c \in Calls : RegistrationsOf(u) = {c}
  BY DEF Registrations
<1> USE SeedAssumption
<1>1. \A c \in Calls : Stored(c) # {} <=> c \in Seeds
  <2>1. \A t \in Tables, c \in Calls : row[t][c] # "none" <=> c \in Seeds
    BY DEF Init
  <2> QED
    BY <2>1 DEF Stored, Tables
<1>2. \A s \in Seeds : req[s] = SeedRequest(s)
  BY DEF Init
<1>3. \A s \in Seeds : SeedRequest(s).op = "register" /\ SeedRequest(s).user = SeedUser[s]
  BY DEF SeedRequest
<1>4. RegistrationsOf(u) = {s \in Seeds : SeedUser[s] = u}
  BY <1>1, <1>2, <1>3 DEF RegistrationsOf, User
<1>5. account[u] = "none" <=> ~\E s \in Seeds : SeedUser[s] = u
  BY DEF Init
<1> QED
  BY <1>4, <1>5

LEMMA RegistrationsStep ==
  ASSUME RowInv, Registrations, [Next]_vars
  PROVE  Registrations'
<1> SUFFICES ASSUME NEW u \in Users
             PROVE  /\ account'[u] = "none" => RegistrationsOf(u)' = {}
                    /\ account'[u] # "none" => \E c \in Calls : RegistrationsOf(u)' = {c}
  BY DEF Registrations
<1>1. /\ req' = req
      /\ \A c \in Calls : User(c)' = User(c)
  BY ReqConstant, UserConstant DEF RowInv
<1>2. CASE row' = row /\ ~\E c \in Calls : Commit(c)
  <2>1. RegistrationsOf(u)' = RegistrationsOf(u)
    BY <1>1, <1>2 DEF RegistrationsOf, Stored
  <2> QED
    BY <1>2, <2>1, UsersWritten DEF Registrations, RowInv
<1>3. ASSUME NEW c \in Calls, Commit(c)
      PROVE  /\ account'[u] = "none" => RegistrationsOf(u)' = {}
             /\ account'[u] # "none" => \E d \in Calls : RegistrationsOf(u)' = {d}
  <2>1. /\ Stored(c)' = Writes(req[c].op)
        /\ \A d \in Calls \ {c} : Stored(d)' = Stored(d)
    BY <1>3, CommitStores
  <2>2. CASE req[c].op = "register" /\ User(c) = u
    <3>1. account[u] = "none" /\ account'[u] = "active"
      BY <1>3, <2>2, CommitUsers DEF RowInv, Inv, TypeOK
    <3>2. RegistrationsOf(u) = {}
      BY <3>1 DEF Registrations
    <3>3. RegistrationsOf(u)' = {c}
      BY <1>1, <2>1, <2>2, <3>2 DEF RegistrationsOf, Writes
    <3> QED
      BY <3>1, <3>3
  <2>3. CASE ~(req[c].op = "register" /\ User(c) = u)
    <3>1. account'[u] = account[u]
      BY <1>3, <2>3, CommitUsers DEF RowInv, Inv, TypeOK
    <3>2. RegistrationsOf(u)' = RegistrationsOf(u)
      BY <1>1, <2>1, <2>3 DEF RegistrationsOf
    <3> QED
      BY <3>1, <3>2 DEF Registrations
  <2> QED
    BY <2>2, <2>3
<1> QED
  BY <1>2, <1>3, RowsWritten

(***************************************************************************)
(* However many registrations of an address race, fail or die: one at most *)
(* is stored, with its plan and its key, and a user row comes with it.     *)
(***************************************************************************)
THEOREM RegisteredWhole == Spec => []AtomicRegistration
<1>1. RowInv /\ Registrations => AtomicRegistration
  <2> SUFFICES ASSUME RowInv, Registrations, NEW u \in Users
               PROVE  LET stored(t) == {c \in Calls : /\ req[c].op = "register"
                                                      /\ User(c) = u
                                                      /\ row[t][c] # "none"}
                      IN  /\ stored("user_plans") = stored("api_keys")
                          /\ Cardinality(stored("api_keys")) =
                               IF account[u] = "none" THEN 0 ELSE 1
    BY DEF AtomicRegistration
  <2> DEFINE stored(t) == {c \in Calls : req[c].op = "register" /\ User(c) = u /\ row[t][c] # "none"}
  <2>1. \A c \in Calls : req[c].op = "register" => Stored(c) \in {{}, Tables}
    BY DEF RowInv, StoredRows, Writes, Tables
  <2>2. \A t \in Tables : stored(t) = RegistrationsOf(u)
    BY <2>1 DEF RegistrationsOf, Stored
  <2>3. Cardinality(RegistrationsOf(u)) = IF account[u] = "none" THEN 0 ELSE 1
    BY FS_EmptySet, FS_Singleton DEF Registrations
  <2> QED
    BY <2>2, <2>3 DEF Tables
<1> QED
  BY <1>1, RegistrationsInit, RegistrationsStep, RowInit, RowStep, PTL DEF Spec

-----------------------------------------------------------------------------
(* Rotations.                                                              *)

\* Rows an UPDATE has dealt with are locked by it, or were inactive by then.
DealtWith(c, r) == r \in locked[c] \/ row["api_keys"][r] = "inactive"

Revocation(c) ==
  req[c].op = "issue_key" =>
    /\ \A r \in found[c] : row["api_keys"][r] # "none"
    /\ pc[c] \notin {"rows", "insert_key", "commit", "rollback"} => visited[c] = {}
    /\ visited[c] \subseteq found[c]
    /\ pc[c] = "rows" => \A r \in visited[c] : DealtWith(c, r)
    /\ pc[c] \in {"insert_key", "commit"} => \A r \in found[c] : DealtWith(c, r)
    /\ result[c] = "ok" => \A r \in found[c] : row["api_keys"][r] = "inactive"

Revocations == \A c \in Calls : Revocation(c)

\* Rows are never deleted, and never become active again.
LEMMA RowsMonotone ==
  ASSUME RowInv, [Next]_vars, NEW t \in Tables, NEW r \in Calls
  PROVE  /\ row[t][r] # "none" => row'[t][r] # "none"
         /\ row[t][r] = "inactive" => row'[t][r] = "inactive"
<1>1. ASSUME NEW c \in Calls, Commit(c)
      PROVE  /\ row[t][r] # "none" => row'[t][r] # "none"
             /\ row[t][r] = "inactive" => row'[t][r] = "inactive"
  <2>1. row[t][r] = "inactive" => row'[t][r] = "inactive"
    BY <1>1, CommitStores
  <2>2. row'[t][r] = IF r = c /\ t \in pending[c] THEN "active"
                     ELSE IF Locks(c, t, r) THEN "inactive" ELSE row[t][r]
    BY <1>1 DEF Commit, Committed
  <2> QED
    BY <2>1, <2>2
<1> QED
  BY <1>1, RowsWritten

\* The state of a call, as Revocation sees it.
Kept(d) ==
  /\ found'[d] = found[d]
  /\ visited'[d] = visited[d]
  /\ locked'[d] = locked[d]
  /\ pc'[d] = pc[d]
  /\ result'[d] = result[d]

LEMMA RevocationKept ==
  ASSUME RowInv, [Next]_vars, NEW d \in Calls, Revocation(d), Kept(d)
  PROVE  Revocation(d)'
<1>1. found[d] \subseteq Calls /\ visited[d] \subseteq Calls /\ req' = req
  BY ReqConstant DEF RowInv, Inv, TypeOK
<1>2. \A r \in Calls : /\ row["api_keys"][r] # "none" => row'["api_keys"][r] # "none"
                       /\ row["api_keys"][r] = "inactive" => row'["api_keys"][r] = "inactive"
  BY RowsMonotone DEF Tables
<1> QED
  BY <1>1, <1>2 DEF Revocation, Kept, DealtWith

\* A call that has not begun its UPDATE, or has failed or died.
LEMMA RevocationOff ==
  ASSUME RowInv, [Next]_vars, NEW d \in Calls, Revocation(d),
         found'[d] = found[d],
         visited'[d] \subseteq visited[d],
         pc'[d] \notin {"rows", "insert_key", "commit"},
         pc'[d] # "rollback" => visited'[d] = {},
         result'[d] = "ok" => result[d] = "ok"
  PROVE  Revocation(d)'
<1>1. found[d] \subseteq Calls /\ visited[d] \subseteq Calls /\ req' = req
  BY ReqConstant DEF RowInv, Inv, TypeOK
<1>2. \A r \in Calls : /\ row["api_keys"][r] # "none" => row'["api_keys"][r] # "none"
                       /\ row["api_keys"][r] = "inactive" => row'["api_keys"][r] = "inactive"
  BY RowsMonotone DEF Tables
<1> QED
  BY <1>1, <1>2 DEF Revocation

LEMMA RevocationFail ==
  ASSUME RowInv, [Next]_vars, NEW c \in Calls, Revocation(c), NEW err, err # "ok",
         Fail(c, err), pc[c] # "rollback"
  PROVE  Revocation(c)'
<1>1. CASE req[c].op = "issue_key"
  <2>1. pc'[c] = IF pc[c] \in TxSteps THEN "rollback" ELSE "done"
    BY DEF Fail, Goto, RowInv, Inv, TypeOK
  <2>2. pc'[c] # "rollback" => visited[c] = {}
    BY <1>1, <2>1 DEF Revocation, TxSteps
  <2>3. found' = found /\ visited' = visited /\ result'[c] # "ok"
    BY DEF Fail, tx, RowInv, Inv, TypeOK
  <2> QED
    BY <2>1, <2>2, <2>3, RevocationOff
<1>2. CASE req[c].op # "issue_key"
  BY <1>2, ReqConstant DEF Revocation
<1> QED
  BY <1>1, <1>2

LEMMA OthersKept ==
  ASSUME RowInv, NEW c \in Calls, Receive(c) \/ Progress(c) \/ DBError(c),
         NEW d \in Calls \ {c}
  PROVE  Kept(d)
<1> USE DEF RowInv, Inv, TypeOK, Kept, Goto, tx
<1>0. ASSUME NEW err, Fail(c, err) PROVE Kept(d)
  BY <1>0 DEF Fail
<1>1. CASE Receive(c) \/ DBError(c)
  BY <1>0, <1>1 DEF Receive, DBError
<1>2. CASE FindUser(c) \/ GetActivePlan(c) \/ FindPlanID(c)
  BY <1>0, <1>2 DEF FindUser, GetActivePlan, FindPlanID
<1>3. CASE InsertUser(c) \/ InsertPlan(c) \/ InsertKey(c)
  BY <1>0, <1>3 DEF InsertUser, InsertPlan, InsertKey
<1>4. CASE StartUpdate(c) \/ FinishUpdate(c) \/ \E r \in Calls : UpdateRow(c, r)
  BY <1>4 DEF StartUpdate, FinishUpdate, UpdateRow
<1>5. CASE Commit(c) \/ Rollback(c) \/ Answer(c)
  BY <1>5 DEF Commit, Rollback, Answer, EndTx
<1>6. CASE DeadlockVictim(c)
  BY <1>0, <1>6, VictimWaits
<1> QED
  BY <1>1, <1>2, <1>3, <1>4, <1>5, <1>6 DEF Progress

\* The steps of a rotation between its UPDATE and its COMMIT.
LEMMA RotationStep ==
  ASSUME RowInv, Inv', [Next]_vars, NEW c \in Calls, req[c].op = "issue_key", Revocation(c),
         \/ StartUpdate(c)
         \/ \E r \in Calls : UpdateRow(c, r)
         \/ FinishUpdate(c)
         \/ InsertKey(c)
         \/ Commit(c)
  PROVE  Revocation(c)'
<1>1. /\ req' = req
      /\ Target(c) = "api_keys"
      /\ found[c] \subseteq Calls
      /\ visited[c] \subseteq Calls
  BY ReqConstant DEF Target, RowInv, Inv, TypeOK
<1>2. pc[c] \notin Ended => result[c] # "ok"
  BY DEF RowInv, StoredRows
<1> USE DEF RowInv, Inv, TypeOK, Goto, tables, tx
<1>3. CASE StartUpdate(c)
  <2>1. /\ pc[c] = "update" /\ pc'[c] = "rows" /\ result' = result /\ row' = row
        /\ found'[c] = ActiveRows("api_keys", User(c))
        /\ visited'[c] = {}
    BY <1>1, <1>3 DEF StartUpdate, Revocation
  <2> QED
    BY <1>1, <1>2, <2>1 DEF Revocation, ActiveRows, Ended
<1>4. ASSUME NEW r \in Calls, UpdateRow(c, r) PROVE Revocation(c)'
  <2>1. /\ pc[c] = "rows" /\ pc'[c] = "rows" /\ result' = result /\ row' = row
        /\ found' = found
        /\ r \in found[c]
        /\ visited'[c] = visited[c] \union {r}
        /\ locked'[c] = IF row["api_keys"][r] = "active" THEN locked[c] \union {r} ELSE locked[c]
    BY <1>1, <1>4 DEF UpdateRow
  <2>2. row["api_keys"][r] \in {"active", "inactive"}
    BY <1>1, <2>1 DEF Revocation, Tables, RowStates
  <2> QED
    BY <1>1, <1>2, <2>1, <2>2 DEF Revocation, DealtWith, Ended
<1>5. CASE FinishUpdate(c)
  <2>1. /\ pc[c] = "rows" /\ pc'[c] = "insert_key" /\ result' = result /\ row' = row
        /\ found' = found /\ visited' = visited /\ locked' = locked
        /\ found[c] \subseteq visited[c]
    BY <1>5 DEF FinishUpdate
  <2> QED
    BY <1>1, <1>2, <2>1 DEF Revocation, DealtWith, Ended
<1>6. CASE InsertKey(c)
  <2>1. /\ pc[c] = "insert_key" /\ pc'[c] = "commit" /\ result' = result /\ row' = row
        /\ found' = found /\ visited' = visited /\ locked' = locked
    BY <1>6 DEF InsertKey
  <2> QED
    BY <1>1, <1>2, <2>1 DEF Revocation, DealtWith, Ended
<1>7. CASE Commit(c)
  <2>1. /\ pc[c] = "commit" /\ pc'[c] = "answer" /\ visited'[c] = {} /\ found' = found
    BY <1>7 DEF Commit, EndTx
  <2>2. \A r \in Calls : row'["api_keys"][r] =
          IF r = c /\ "api_keys" \in pending[c] THEN "active"
          ELSE IF r \in locked[c] THEN "inactive" ELSE row["api_keys"][r]
    BY <1>1, <1>7 DEF Commit, Committed, Locks, Tables
  <2>3. row["api_keys"][c] = "none"
    BY <2>1 DEF StoredRows, Ended, Stored, Tables
  <2>4. \A r \in found[c] : row'["api_keys"][r] = "inactive"
    BY <1>1, <2>1, <2>2, <2>3 DEF Revocation, DealtWith
  <2> QED
    BY <1>1, <2>1, <2>4 DEF Revocation
<1> QED
  BY <1>3, <1>4, <1>5, <1>6, <1>7

LEMMA RevocationsStep ==
  ASSUME RowInv, Inv', Revocations, [Next]_vars
  PROVE  Revocations'
<1> SUFFICES ASSUME NEW d \in Calls PROVE Revocation(d)'
  BY DEF Revocations
<1>0. Revocation(d)
  BY DEF Revocations
<1>1. ASSUME NEW c \in Calls, Receive(c) \/ Progress(c) \/ DBError(c) PROVE Revocation(d)'
  <2>1. CASE d # c
    BY <1>0, <1>1, <2>1, OthersKept, RevocationKept
  <2>2. CASE d = c /\ req[c].op # "issue_key"
    BY <2>2, ReqConstant DEF Revocation
  <2>3. CASE d = c /\ req[c].op = "issue_key"
    <3> SUFFICES Revocation(c)'
      BY <2>3
    <3>1. Revocation(c) /\ pc[c] \in StepsOf("issue_key")
      BY <1>0, <2>3, OpsKnown DEF RowInv
    <3>2. ASSUME NEW err, err # "ok", Fail(c, err), pc[c] # "rollback" PROVE Revocation(c)'
      BY <3>1, <3>2, RevocationFail
    <3>3. ASSUME NEW x \in {"find_user", "active_plan", "update"}, Goto(c, x),
                 UNCHANGED <<found, visited, result>>,
                 pc[c] \in {"idle", "find_user", "active_plan"}
          PROVE  Revocation(c)'
      <4>1. pc'[c] = x /\ visited[c] = {}
        BY <2>3, <3>1, <3>3 DEF Goto, RowInv, Inv, TypeOK, Revocation
      <4> QED
        BY <3>1, <3>3, <4>1, RevocationOff
    <3>4. CASE Receive(c)
      BY <2>3, <3>2, <3>3, <3>4 DEF Receive, FirstStep, tx
    <3>5. CASE FindUser(c)
      BY <3>2, <3>3, <3>5 DEF FindUser, tx
    <3>6. CASE GetActivePlan(c)
      <4>1. CASE ~Fail(c, "ErrPlanNotFound")
        <5>1. result' = result
          BY <2>3, <3>6, <4>1 DEF GetActivePlan, RowInv, Inv, TypeOK
        <5> QED
          BY <2>3, <3>3, <3>6, <4>1, <5>1 DEF GetActivePlan, AfterAuthentication, tx
      <4> QED
        BY <3>2, <3>6, <4>1 DEF GetActivePlan
    <3>7. CASE FindPlanID(c) \/ InsertUser(c) \/ InsertPlan(c)
      BY <3>1, <3>7 DEF StepsOf, FindPlanID, InsertUser, InsertPlan
    <3>8. CASE StartUpdate(c) \/ FinishUpdate(c) \/ InsertKey(c) \/ Commit(c)
      BY <2>3, <3>1, <3>8, RotationStep
    <3>9. CASE \E r \in Calls : UpdateRow(c, r)
      BY <2>3, <3>1, <3>9, RotationStep
    <3>10. CASE Rollback(c) \/ Answer(c)
      <4>1. pc'[c] = "done" /\ visited'[c] = {} /\ found' = found /\ result' = result
        BY <2>3, <3>1, <3>10 DEF Rollback, Answer, EndTx, Goto, tx, Revocation, RowInv, Inv, TypeOK
      <4> QED
        BY <3>1, <4>1, RevocationOff
    <3>11. CASE DeadlockVictim(c)
      BY <3>2, <3>11, VictimWaits
    <3>12. CASE DBError(c)
      BY <3>2, <3>12 DEF DBError
    <3> QED
      BY <1>1, <2>3, <3>4, <3>5, <3>6, <3>7, <3>8, <3>9, <3>10, <3>11, <3>12 DEF Progress
  <2> QED
    BY <2>1, <2>2, <2>3
<1>2. CASE Crash
  <2>1. pc'[d] \notin Steps /\ visited'[d] = {} /\ found' = found /\ result' = result
    BY <1>2 DEF Crash, InFlight, InCall, Steps, TxSteps
  <2> QED
    BY <1>0, <2>1, RevocationOff DEF Steps, TxSteps
<1>3. CASE UNCHANGED vars \/ \E u \in Users, s \in {"active", "inactive"} : SetStatus(u, s)
  BY <1>0, <1>3, RevocationKept DEF SetStatus, vars, tx, Kept
<1> QED
  BY <1>1, <1>2, <1>3 DEF Next

(***************************************************************************)
(* An acknowledged rotation has revoked, for good, every key that was      *)
(* active when its UPDATE began, whoever else had locked those keys.       *)
(***************************************************************************)
THEOREM RotationsRevoke == Spec => []RotationRevokes
<1>1. Init => Revocations
  <2>1. Init => \A c \in Calls : found[c] = {} /\ visited[c] = {}
    BY DEF Init
  <2> QED
    BY <2>1 DEF Revocations, Revocation
<1>2. Revocations => RotationRevokes
  BY DEF Revocations, Revocation, RotationRevokes
<1>3. RowInv /\ Revocations /\ [Next]_vars => Revocations'
  BY RevocationsStep, InvStep DEF RowInv
<1> QED
  BY <1>1, <1>2, <1>3, RowInit, RowStep, PTL DEF Spec

-----------------------------------------------------------------------------
(* The steps that change nothing but the position of a call.               *)

\* Where the status of the account has not been read, or no longer matters.
Outside == {"idle", "find_user", "done", "lost"}

Quiet(d) ==
  /\ reported'[d] = reported[d]
  /\ result'[d] = "ok" => result[d] = "ok"
  /\ pc'[d] \in TxSteps => pc[d] \in TxSteps
  /\ req[d].op # "register" /\ pc'[d] \notin Outside => pc[d] \notin Outside

LEMMA QuietFail ==
  ASSUME Inv, NEW c \in Calls, NEW err, err # "ok", Fail(c, err)
  PROVE  Quiet(c)
BY DEF Fail, Goto, Quiet, Outside, TxSteps, Inv, TypeOK

LEMMA QuietMove ==
  ASSUME Inv, NEW c \in Calls, NEW x, Goto(c, x), UNCHANGED <<reported, result>>,
         x \in TxSteps => pc[c] \in TxSteps,
         x \in Outside \/ pc[c] \notin Outside \/ req[c].op = "register"
  PROVE  Quiet(c)
BY DEF Goto, Quiet, Inv, TypeOK

LEMMA OthersReport ==
  ASSUME Inv, NEW c \in Calls, Receive(c) \/ Progress(c) \/ DBError(c),
         NEW d \in Calls \ {c}
  PROVE  reported'[d] = reported[d]
<1> USE DEF Inv, TypeOK, Fail
<1>1. CASE Receive(c) \/ DBError(c)
  BY <1>1 DEF Receive, DBError
<1>2. CASE FindUser(c) \/ GetActivePlan(c) \/ FindPlanID(c)
  BY <1>2 DEF FindUser, GetActivePlan, FindPlanID
<1>3. CASE InsertUser(c) \/ InsertPlan(c) \/ InsertKey(c)
  BY <1>3 DEF InsertUser, InsertPlan, InsertKey
<1>4. CASE StartUpdate(c) \/ FinishUpdate(c) \/ \E r \in Calls : UpdateRow(c, r)
  BY <1>4 DEF StartUpdate, FinishUpdate, UpdateRow
<1>5. CASE Commit(c) \/ Rollback(c) \/ Answer(c) \/ DeadlockVictim(c)
  BY <1>5, VictimWaits DEF Commit, Rollback, Answer
<1> QED
  BY <1>1, <1>2, <1>3, <1>4, <1>5 DEF Progress

\* Only the three queries and the commit of a call are not quiet for it.
LEMMA QuietStep ==
  ASSUME RowInv, [Next]_vars, NEW d \in Calls,
         ~FindUser(d), ~GetActivePlan(d), ~FindPlanID(d), ~Commit(d)
  PROVE  Quiet(d)
<1> USE DEF RowInv
<1>1. ASSUME NEW c \in Calls \ {d}, Receive(c) \/ Progress(c) \/ DBError(c) PROVE Quiet(d)
  BY <1>1, OthersKept, OthersReport DEF Kept, Quiet
<1>2. CASE Receive(d)
  BY <1>2, QuietFail, QuietMove DEF Receive, FirstStep, TxSteps, Outside
<1>3. CASE DBError(d) \/ DeadlockVictim(d)
  BY <1>3, QuietFail, VictimWaits DEF DBError
<1>4. CASE InsertUser(d) \/ InsertPlan(d)
  BY <1>4, QuietFail, QuietMove DEF InsertUser, InsertPlan, TxSteps, Outside
<1>5. CASE StartUpdate(d) \/ FinishUpdate(d) \/ InsertKey(d)
  BY <1>5, QuietMove DEF StartUpdate, FinishUpdate, InsertKey, TxSteps, Outside
<1>6. CASE \E r \in Calls : UpdateRow(d, r)
  BY <1>6 DEF UpdateRow, Quiet
<1>7. CASE Rollback(d) \/ Answer(d)
  BY <1>7, QuietMove DEF Rollback, Answer, TxSteps, Outside
<1>8. CASE Crash
  BY <1>8 DEF Crash, Quiet, Outside, TxSteps
<1>9. CASE UNCHANGED vars \/ \E u \in Users, s \in {"active", "inactive"} : SetStatus(u, s)
  BY <1>9 DEF SetStatus, vars, Quiet
<1> QED
  BY <1>1, <1>2, <1>3, <1>4, <1>5, <1>6, <1>7, <1>8, <1>9 DEF Next, Progress

-----------------------------------------------------------------------------
(* Plans that calls store.                                                 *)

\* The plan a call will store and report is one of the table plans.
Reporting(c) ==
  /\ req[c].op \in {"register", "change_plan"} /\ pc[c] \in TxSteps =>
       reported[c] = PlanCode(c) /\ PlanCode(c) \in Plans
  /\ row["user_plans"][c] # "none" => PlanCode(c) \in Plans

Reports == \A c \in Calls : Reporting(c)

\* Only its own commit stores the plan row of a call.
LEMMA PlanRowWritten ==
  ASSUME RowInv, [Next]_vars, NEW c \in Calls, row'["user_plans"][c] # "none"
  PROVE  \/ row["user_plans"][c] # "none"
         \/ Commit(c) /\ req[c].op \in {"register", "change_plan"}
<1>1. CASE row' = row
  BY <1>1
<1>2. ASSUME NEW d \in Calls, Commit(d)
      PROVE  \/ row["user_plans"][c] # "none"
             \/ Commit(c) /\ req[c].op \in {"register", "change_plan"}
  <2>1. CASE d = c
    <3>1. Stored(c)' = Writes(req[c].op) /\ req[c].op \in Ops \ {"login"}
      BY <1>2, <2>1, CommitStores, PendingAtCommit DEF Commit, RowInv
    <3>2. "user_plans" \in Writes(req[c].op)
      BY <3>1 DEF Stored, Tables
    <3> QED
      BY <1>2, <2>1, <3>1, <3>2 DEF Writes, Ops
  <2>2. CASE d # c
    <3>1. Stored(c)' = Stored(c)
      BY <1>2, <2>2, CommitStores
    <3> QED
      BY <3>1 DEF Stored, Tables
  <2> QED
    BY <2>1, <2>2
<1> QED
  BY <1>1, <1>2, RowsWritten

LEMMA ReportsStep ==
  ASSUME RowInv, Reports, [Next]_vars
  PROVE  Reports'
<1> SUFFICES ASSUME NEW d \in Calls PROVE Reporting(d)'
  BY DEF Reports
<1>0. Reporting(d)
  BY DEF Reports
<1>1. req' = req /\ PlanCode(d)' = PlanCode(d)
  BY ReqConstant DEF PlanCode
<1>2. CASE FindPlanID(d)
  <2>1. CASE \E err : Fail(d, err)
    BY <1>0, <1>1, <1>2, <2>1 DEF FindPlanID, Fail, Goto, tables, TxSteps, Reporting, RowInv, Inv, TypeOK
  <2>2. CASE ~\E err : Fail(d, err)
    BY <1>0, <1>1, <1>2, <2>2 DEF FindPlanID, tables, Reporting, RowInv, Inv, TypeOK
  <2> QED
    BY <2>1, <2>2
<1>3. CASE FindUser(d) \/ GetActivePlan(d)
  <2>1. row' = row /\ pc[d] \in {"find_user", "active_plan"}
    BY <1>3 DEF FindUser, GetActivePlan, Fail, tables
  <2>2. req[d].op \in {"register", "change_plan"} => pc'[d] \notin TxSteps
    <3>1. \A err : Fail(d, err) => pc'[d] \notin TxSteps
      BY <2>1 DEF Fail, Goto, TxSteps, RowInv, Inv, TypeOK
    <3>2. FindUser(d) /\ (~\E err : Fail(d, err)) => pc'[d] = "active_plan"
      BY DEF FindUser, Goto, RowInv, Inv, TypeOK
    <3>3. GetActivePlan(d) /\ (~\E err : Fail(d, err)) => pc'[d] = AfterAuthentication(req[d].op)
      BY DEF GetActivePlan, Goto, RowInv, Inv, TypeOK
    <3>4. req[d].op # "register"
      BY <2>1, OpsKnown DEF StepsOf, RowInv
    <3> QED
      BY <1>3, <3>1, <3>2, <3>3, <3>4 DEF AfterAuthentication, TxSteps
  <2> QED
    BY <1>0, <1>1, <2>1, <2>2 DEF Reporting
<1>4. CASE Commit(d)
  BY <1>0, <1>1, <1>4, PlanRowWritten DEF Commit, Goto, TxSteps, Reporting, RowInv, Inv, TypeOK
<1>5. CASE ~FindUser(d) /\ ~GetActivePlan(d) /\ ~FindPlanID(d) /\ ~Commit(d)
  BY <1>0, <1>1, <1>5, QuietStep, PlanRowWritten DEF Quiet, Reporting
<1> QED
  BY <1>2, <1>3, <1>4, <1>5

LEMMA ReportsInit == Init => Reports
<1> SUFFICES ASSUME Init, NEW c \in Calls PROVE Reporting(c)
  BY DEF Reports
<1> USE PlanAssumption, SeedAssumption
<1>1. pc[c] \notin TxSteps
  BY DEF Init, TxSteps
<1>2. CASE c \in Seeds
  <2>1. req[c] = SeedRequest(c) /\ SeedPlan[c] \in Plans /\ Blank \notin Plans
    BY <1>2 DEF Init
  <2>2. SeedRequest(c).plan = SeedPlan[c] /\ SeedRequest(c).op = "register"
    BY DEF SeedRequest
  <2>3. PlanCode(c) \in Plans
    BY <2>1, <2>2 DEF PlanCode
  <2> QED
    BY <1>1, <2>3 DEF Reporting
<1>3. CASE c \notin Seeds
  <2>1. row["user_plans"][c] = "none"
    BY <1>3 DEF Init, Tables
  <2> QED
    BY <1>1, <2>1 DEF Reporting
<1> QED
  BY <1>2, <1>3
=============================================================================
