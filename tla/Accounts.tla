------------------------------ MODULE Accounts -------------------------------
(***************************************************************************)
(* The four account endpoints (register, login, issue an API key, change   *)
(* the plan) of the Comic Provider API, statement by statement, over the   *)
(* PostgreSQL tables users, user_plans and api_keys.                       *)
(*                                                                         *)
(* Handlers run concurrently, each in a goroutine of its own.  A statement *)
(* outside a transaction reads committed rows; the statements of a         *)
(* transaction (READ COMMITTED, the default of BeginTx) take row locks     *)
(* that are kept until COMMIT or ROLLBACK.  The database, the connection   *)
(* and the whole process may fail between any two statements.              *)
(*                                                                         *)
(* Every call inserts at most one row into each table, so a row is named   *)
(* by the call that inserts it: row["api_keys"][c] is the key that call c  *)
(* stores.  The demo accounts of the SQL script are calls in Seeds, already *)
(* finished in the initial state.                                          *)
(***************************************************************************)
EXTENDS Naturals, FiniteSets

CONSTANTS
  Calls,      \* HTTP calls to /auth/*, each made once
  Users,      \* e-mail addresses, trimmed and lower-cased
  Plans,      \* codes in the plans table
  PlanArgs,   \* what a caller may write as the plan, trimmed
  Blank,      \* the empty plan argument
  FreePlan,   \* the plan registered for a blank argument
  Seeds,      \* the calls that stand for the demo accounts
  SeedUser,   \* their e-mail addresses
  SeedPlan,   \* and plans
  Requests,   \* the requests that clients make in this instance
  Faults      \* what may go wrong in this instance, a subset of FaultKinds

Ops == {"register", "login", "issue_key", "change_plan"}

(***************************************************************************)
(* What is wrong with a request, if anything: a body that is not the JSON  *)
(* expected; an e-mail or a password that fails validation; a password     *)
(* bcrypt rejects, because it does not match the stored hash or, in a      *)
(* registration, because it is longer than the 72 bytes bcrypt accepts.    *)
(***************************************************************************)
Inputs == {"good", "malformed", "invalid", "bad_password"}

Request == [op : Ops, user : Users, plan : PlanArgs, input : Inputs]

SeedRequest(s) ==
  [op |-> "register", user |-> SeedUser[s], plan |-> SeedPlan[s], input |-> "good"]

ASSUME PlanAssumption ==
  /\ FreePlan \in Plans
  /\ Plans \subseteq PlanArgs
  /\ Blank \in PlanArgs \ Plans

ASSUME SeedAssumption ==
  /\ Seeds \subseteq Calls
  /\ SeedUser \in [Seeds -> Users]
  /\ SeedPlan \in [Seeds -> Plans]
  /\ \A s, t \in Seeds : SeedUser[s] = SeedUser[t] => s = t

ASSUME RequestAssumption == Requests \subseteq Request

FaultKinds == {"db_error", "crash", "suspension"}

ASSUME FaultAssumption == Faults \subseteq FaultKinds

VARIABLES
  req,       \* the request of each call
  pc,        \* the statement the call executes next
  account,   \* users.status of each e-mail, "none" when there is no row
  row,       \* committed rows of user_plans and api_keys
  pending,   \* tables into which the open transaction of a call has inserted
  found,     \* rows the UPDATE of a call saw when it started
  visited,   \* those of them it has dealt with
  locked,    \* those of them it has deactivated; locked until the end
  reported,  \* AuthResult.Plan
  result     \* nil error ("ok") or the error the service returns

tx == <<pending, found, visited, locked>>
tables == <<account, row>>
vars == <<req, pc, account, row, pending, found, visited, locked, reported, result>>

Tables == {"user_plans", "api_keys"}
RowStates == {"none", "active", "inactive"}

\* Statements that run inside the transaction of a call.
TxSteps == {"insert_user", "update", "rows", "insert_plan", "insert_key", "commit"}
Steps == TxSteps \union {"find_user", "active_plan", "find_plan", "rollback"}
InCall == Steps \union {"answer"}
PCs == InCall \union {"idle", "done", "lost"}

NamedErrors ==
  {"invalid_request", "ErrInvalidInput", "ErrEmailExists", "ErrPlanNotFound",
   "ErrInvalidCredentials", "ErrUserInactive"}
Results == NamedErrors \union {"pending", "ok", "other"}

User(c) == req[c].user

\* The plan row a call inserts refers to this plan.
PlanCode(c) ==
  IF req[c].op = "register" /\ req[c].plan = Blank THEN FreePlan ELSE req[c].plan

ActiveRows(t, u) == {r \in Calls : row[t][r] = "active" /\ User(r) = u}

Init ==
  /\ req \in [Calls -> Requests \union {SeedRequest(s) : s \in Seeds}]
  /\ \A s \in Seeds : req[s] = SeedRequest(s)
  /\ \A c \in Calls \ Seeds : req[c] \in Requests
  /\ pc = [c \in Calls |-> IF c \in Seeds THEN "done" ELSE "idle"]
  /\ account = [u \in Users |-> IF \E s \in Seeds : SeedUser[s] = u THEN "active" ELSE "none"]
  /\ row = [t \in Tables |-> [c \in Calls |-> IF c \in Seeds THEN "active" ELSE "none"]]
  /\ pending = [c \in Calls |-> {}]
  /\ found = [c \in Calls |-> {}]
  /\ visited = [c \in Calls |-> {}]
  /\ locked = [c \in Calls |-> {}]
  /\ reported = [c \in Calls |-> IF c \in Seeds THEN PlanCode(c) ELSE Blank]
  /\ result = [c \in Calls |-> IF c \in Seeds THEN "ok" ELSE "pending"]

-----------------------------------------------------------------------------
(* How a step of a call ends.                                              *)

Goto(c, step) == pc' = [pc EXCEPT ![c] = step]

\* Mutant: the error of a statement is lost, the caller is told all is well.
FailSilently(c, err) ==
  /\ result' = [result EXCEPT ![c] = IF err = "other" THEN "ok" ELSE err]
  /\ Goto(c, IF pc[c] \in TxSteps THEN "rollback" ELSE "done")
  /\ UNCHANGED <<req, tables, tx, reported>>

\* Mutant: a deferred Rollback is missing, the transaction stays open.
FailWithoutRollback(c, err) ==
  /\ result' = [result EXCEPT ![c] = err]
  /\ Goto(c, "done")
  /\ UNCHANGED <<req, tables, tx, reported>>

\* An early return: a call that has begun a transaction rolls it back first.
Fail(c, err) ==
  /\ result' = [result EXCEPT ![c] = err]
  /\ Goto(c, IF pc[c] \in TxSteps THEN "rollback" ELSE "done")
  /\ UNCHANGED <<req, tables, tx, reported>>

\* Mutant: a transaction ends, its locks stay.
EndTxKeepingLocks(c) ==
  /\ pending' = [pending EXCEPT ![c] = {}]
  /\ visited' = [visited EXCEPT ![c] = {}]
  /\ UNCHANGED <<found, locked>>

EndTx(c) ==
  /\ pending' = [pending EXCEPT ![c] = {}]
  /\ visited' = [visited EXCEPT ![c] = {}]
  /\ locked' = [locked EXCEPT ![c] = {}]
  /\ UNCHANGED found

-----------------------------------------------------------------------------
(* Outside transactions: decoding, validation and the three queries.       *)

FirstStep(op) == IF op = "register" THEN "find_plan" ELSE "find_user"

\* The handler decodes the body, the service validates e-mail and password.
Receive(c) ==
  /\ pc[c] = "idle"
  /\ CASE req[c].input = "malformed" -> Fail(c, "invalid_request")
       [] req[c].input = "invalid"   -> Fail(c, "ErrInvalidInput")
       [] OTHER -> /\ Goto(c, FirstStep(req[c].op))
                   /\ UNCHANGED <<req, tables, tx, reported, result>>

\* Mutant: the status is not looked at.
FindUserAnyStatus(c) ==
  /\ pc[c] = "find_user"
  /\ CASE account[User(c)] = "none" \/ req[c].input = "bad_password" ->
            Fail(c, "ErrInvalidCredentials")
       [] OTHER -> /\ Goto(c, "active_plan")
                   /\ UNCHANGED <<req, tables, tx, reported, result>>

\* SELECT id, password_hash, status FROM users: the status is checked first.
FindUser(c) ==
  /\ pc[c] = "find_user"
  /\ CASE account[User(c)] = "none"       -> Fail(c, "ErrInvalidCredentials")
       [] account[User(c)] = "inactive"   -> Fail(c, "ErrUserInactive")
       [] account[User(c)] = "active" /\ req[c].input = "bad_password" ->
            Fail(c, "ErrInvalidCredentials")
       [] OTHER -> /\ Goto(c, "active_plan")
                   /\ UNCHANGED <<req, tables, tx, reported, result>>

AfterAuthentication(op) ==
  CASE op = "login"       -> "done"
    [] op = "issue_key"   -> "update"
    [] OTHER -> "find_plan"

\* Mutant: the query does not ask for status = 'active'.
GetActivePlanAny(c) ==
  LET plans == {r \in Calls : row["user_plans"][r] # "none" /\ User(r) = User(c)} IN
  /\ pc[c] = "active_plan"
  /\ IF plans = {}
       THEN Fail(c, "ErrPlanNotFound")
       ELSE /\ \E r \in plans : reported' = [reported EXCEPT ![c] = PlanCode(r)]
            /\ Goto(c, AfterAuthentication(req[c].op))
            /\ result' = [result EXCEPT ![c] = IF req[c].op = "login" THEN "ok" ELSE @]
            /\ UNCHANGED <<req, tables, tx>>

\* The last query of authenticateUser; a login is answered with its result.
GetActivePlan(c) ==
  LET plans == ActiveRows("user_plans", User(c)) IN
  /\ pc[c] = "active_plan"
  /\ IF plans = {}
       THEN Fail(c, "ErrPlanNotFound")
       ELSE /\ \E r \in plans : reported' = [reported EXCEPT ![c] = PlanCode(r)]
            /\ Goto(c, AfterAuthentication(req[c].op))
            /\ result' = [result EXCEPT ![c] = IF req[c].op = "login" THEN "ok" ELSE @]
            /\ UNCHANGED <<req, tables, tx>>

\* A registration also hashes the password here, before its transaction.
FindPlanID(c) ==
  /\ pc[c] = "find_plan"
  /\ CASE PlanCode(c) \notin Plans -> Fail(c, "ErrPlanNotFound")
       [] PlanCode(c) \in Plans /\ req[c].input = "bad_password" -> Fail(c, "other")
       [] OTHER -> /\ Goto(c, IF req[c].op = "register" THEN "insert_user" ELSE "update")
                   /\ reported' = [reported EXCEPT ![c] = PlanCode(c)]
                   /\ UNCHANGED <<req, tables, tx, result>>

-----------------------------------------------------------------------------
(* Inside transactions.  A statement that needs a lock another transaction *)
(* holds waits: it is not enabled until that transaction ends.             *)

\* INSERT INTO users: the unique index on email waits for a concurrent
\* insertion of the same address, and rejects a committed one.
InsertUser(c) ==
  /\ pc[c] = "insert_user"
  /\ \A d \in Calls \ {c} : "users" \in pending[d] => User(d) # User(c)
  /\ IF account[User(c)] # "none"
       THEN Fail(c, "ErrEmailExists")
       ELSE /\ pending' = [pending EXCEPT ![c] = @ \union {"users"}]
            /\ Goto(c, "insert_plan")
            /\ UNCHANGED <<req, tables, found, visited, locked, reported, result>>

\* The table whose active rows of the user the call replaces.
Target(c) == IF req[c].op = "issue_key" THEN "api_keys" ELSE "user_plans"

\* BeginTx, and the UPDATE takes its snapshot of the committed active rows.
StartUpdate(c) ==
  /\ pc[c] = "update"
  /\ found' = [found EXCEPT ![c] = ActiveRows(Target(c), User(c))]
  /\ Goto(c, "rows")
  /\ UNCHANGED <<req, tables, pending, visited, locked, reported, result>>

Locks(d, t, r) == Target(d) = t /\ r \in locked[d]

\* Mutant: rows that another transaction has locked are skipped.
UpdateRowSkipLocked(c, r) ==
  /\ pc[c] = "rows"
  /\ r \in found[c] \ visited[c]
  /\ visited' = [visited EXCEPT ![c] = @ \union {r}]
  /\ locked' = [locked EXCEPT ![c] =
                  IF \E d \in Calls \ {c} : Locks(d, Target(c), r) THEN @ ELSE @ \union {r}]
  /\ UNCHANGED <<req, pc, tables, pending, found, reported, result>>

\* The UPDATE reaches one row of its snapshot: it waits for the row's lock,
\* then looks at the row again and leaves it alone if it is inactive by now.
UpdateRow(c, r) ==
  /\ pc[c] = "rows"
  /\ r \in found[c] \ visited[c]
  /\ \A d \in Calls \ {c} : ~Locks(d, Target(c), r)
  /\ visited' = [visited EXCEPT ![c] = @ \union {r}]
  /\ locked' = [locked EXCEPT ![c] =
                  IF row[Target(c)][r] = "active" THEN @ \union {r} ELSE @]
  /\ UNCHANGED <<req, pc, tables, pending, found, reported, result>>

\* The UPDATE has dealt with every row of its snapshot and returns.
FinishUpdate(c) ==
  /\ pc[c] = "rows"
  /\ found[c] \subseteq visited[c]
  /\ Goto(c, IF req[c].op = "issue_key" THEN "insert_key" ELSE "insert_plan")
  /\ UNCHANGED <<req, tables, tx, reported, result>>

\* Mutant: the unique index on the active plan of a user is not created.
InsertPlanUnindexed(c) ==
  /\ pc[c] = "insert_plan"
  /\ pending' = [pending EXCEPT ![c] = @ \union {"user_plans"}]
  /\ Goto(c, IF req[c].op = "register" THEN "insert_key" ELSE "commit")
  /\ UNCHANGED <<req, tables, found, visited, locked, reported, result>>

\* INSERT INTO user_plans: the unique index on the active row of a user
\* waits for a transaction that is adding or removing such a row, and
\* rejects a second one; the row this transaction deactivated is no obstacle.
InsertPlan(c) ==
  /\ pc[c] = "insert_plan"
  /\ \A d \in Calls \ {c} :
       User(d) = User(c) =>
         /\ "user_plans" \notin pending[d]
         /\ \A r \in Calls : ~Locks(d, "user_plans", r)
  /\ IF ActiveRows("user_plans", User(c)) \subseteq locked[c]
       THEN /\ pending' = [pending EXCEPT ![c] = @ \union {"user_plans"}]
            /\ Goto(c, IF req[c].op = "register" THEN "insert_key" ELSE "commit")
            /\ UNCHANGED <<req, tables, found, visited, locked, reported, result>>
       ELSE Fail(c, "other")

\* INSERT INTO api_keys: a fresh random key, no index can reject it.
InsertKey(c) ==
  /\ pc[c] = "insert_key"
  /\ pending' = [pending EXCEPT ![c] = @ \union {"api_keys"}]
  /\ Goto(c, "commit")
  /\ UNCHANGED <<req, tables, found, visited, locked, reported, result>>

\* The committed tables once the transaction of c is applied.
Committed(c) ==
  [t \in Tables |-> [r \in Calls |->
     IF r = c /\ t \in pending[c] THEN "active"
     ELSE IF Locks(c, t, r) THEN "inactive"
     ELSE row[t][r]]]

\* COMMIT; when the acknowledgement is lost the service returns its error.
\* The rows are stored now, and the client has not been told yet.
Commit(c) ==
  /\ pc[c] = "commit"
  /\ account' = [account EXCEPT ![User(c)] = IF "users" \in pending[c] THEN "active" ELSE @]
  /\ row' = Committed(c)
  /\ EndTx(c)
  /\ \E ack \in {"ok", "other"} : result' = [result EXCEPT ![c] = ack]
  /\ Goto(c, "answer")
  /\ UNCHANGED <<req, reported>>

\* Mutant: the UPDATE runs on the pool, not in the transaction: it stays.
RollbackKeepsUpdate(c) ==
  /\ pc[c] = "rollback"
  /\ row' = [t \in Tables |-> [r \in Calls |->
                IF Locks(c, t, r) THEN "inactive" ELSE row[t][r]]]
  /\ EndTx(c)
  /\ Goto(c, "done")
  /\ UNCHANGED <<req, account, reported, result>>

\* Mutant: the INSERTs run on the pool, not in the transaction: they stay.
RollbackKeepsInserts(c) ==
  /\ pc[c] = "rollback"
  /\ account' = [account EXCEPT ![User(c)] = IF "users" \in pending[c] THEN "active" ELSE @]
  /\ row' = [t \in Tables |-> [r \in Calls |->
                IF r = c /\ t \in pending[c] THEN "active" ELSE row[t][r]]]
  /\ EndTx(c)
  /\ Goto(c, "done")
  /\ UNCHANGED <<req, reported, result>>

\* The deferred Rollback, or the server noticing that the connection is gone.
Rollback(c) ==
  /\ pc[c] = "rollback"
  /\ EndTx(c)
  /\ Goto(c, "done")
  /\ UNCHANGED <<req, tables, reported, result>>

-----------------------------------------------------------------------------
(* What the handlers answer.                                               *)

Status(op, err) ==
  CASE err = "ok" -> IF op = "register" THEN 201 ELSE 200
    [] err \in {"invalid_request", "ErrInvalidInput"} -> 400
    [] err = "ErrPlanNotFound" -> IF op \in {"register", "change_plan"} THEN 400 ELSE 403
    [] err = "ErrInvalidCredentials" -> 401
    [] err = "ErrUserInactive" -> 403
    [] err = "ErrEmailExists" -> 409
    [] OTHER -> 500

\* writeJSON or writeError after a COMMIT.  (Where nothing has been stored, the
\* return of the service and the answer are one step.)
Answer(c) ==
  /\ pc[c] = "answer"
  /\ Goto(c, "done")
  /\ UNCHANGED <<req, tables, tx, reported, result>>

-----------------------------------------------------------------------------
(* Faults, and the administration of accounts.                             *)

\* A statement fails: connection lost, server error, the client went away
\* and cancelled the request's context.
DBError(c) ==
  /\ "db_error" \in Faults
  /\ pc[c] \in Steps \ {"rollback"}
  /\ Fail(c, "other")

\* The owners of the locks for which an UPDATE waits.
WaitsFor(c) ==
  IF pc[c] = "rows" /\ \A r \in found[c] \ visited[c] :
                          \E d \in Calls \ {c} : Locks(d, Target(c), r)
    THEN {d \in Calls \ {c} : \E r \in found[c] \ visited[c] : Locks(d, Target(c), r)}
    ELSE {}

\* Some transactions wait for each other in a circle that contains c.
Deadlocked(c) ==
  \E S \in SUBSET Calls :
    /\ c \in S
    /\ \A d \in S : /\ WaitsFor(d) \intersect S # {}
                    /\ \E e \in S : d \in WaitsFor(e)

\* The deadlock detector of the database aborts one of them.
DeadlockVictim(c) ==
  /\ Deadlocked(c)
  /\ Fail(c, "other")

InFlight == {c \in Calls : pc[c] \in InCall}

\* The backend process dies: nobody is answered, open transactions vanish,
\* and what has been committed stays.
Crash ==
  /\ "crash" \in Faults
  /\ InFlight # {}
  /\ pc' = [c \in Calls |-> IF c \in InFlight THEN "lost" ELSE pc[c]]
  /\ pending' = [c \in Calls |-> {}]
  /\ visited' = [c \in Calls |-> {}]
  /\ locked' = [c \in Calls |-> {}]
  /\ UNCHANGED <<req, tables, found, reported, result>>

\* An operator suspends or reinstates an account, directly in the table.
SetStatus(u, s) ==
  /\ "suspension" \in Faults
  /\ account[u] # "none"
  /\ account[u] # s
  /\ account' = [account EXCEPT ![u] = s]
  /\ UNCHANGED <<req, pc, row, tx, reported, result>>

\* What the code of a call does when nothing fails.
Progress(c) ==
  \/ FindUser(c)
  \/ GetActivePlan(c)
  \/ FindPlanID(c)
  \/ InsertUser(c)
  \/ StartUpdate(c)
  \/ \E r \in Calls : UpdateRow(c, r)
  \/ FinishUpdate(c)
  \/ InsertPlan(c)
  \/ InsertKey(c)
  \/ Commit(c)
  \/ Rollback(c)
  \/ Answer(c)
  \/ DeadlockVictim(c)

Next ==
  \/ \E c \in Calls : Receive(c) \/ Progress(c) \/ DBError(c)
  \/ Crash
  \/ \E u \in Users, s \in {"active", "inactive"} : SetStatus(u, s)

Spec == Init /\ [][Next]_vars

(***************************************************************************)
(* Goroutines are scheduled, the database executes what it is sent, wakes  *)
(* lock waiters when a lock is released and runs its deadlock detector, so *)
(* a call that can progress eventually does.  Nothing is assumed of        *)
(* clients, faults and operators.                                          *)
(***************************************************************************)
FairSpec == Spec /\ \A c \in Calls : WF_vars(Progress(c))

-----------------------------------------------------------------------------
(* Properties                                                              *)

(***************************************************************************)
(* Every variable has its type; rows are locked, and inserted rows wait to *)
(* be committed, only while the call that owns them has its transaction    *)
(* open (every return path of the service ends its transaction).           *)
(***************************************************************************)
TypeOK ==
  /\ req \in [Calls -> Request]
  /\ pc \in [Calls -> PCs]
  /\ account \in [Users -> RowStates]
  /\ row \in [Tables -> [Calls -> RowStates]]
  /\ pending \in [Calls -> SUBSET (Tables \union {"users"})]
  /\ found \in [Calls -> SUBSET Calls]
  /\ visited \in [Calls -> SUBSET Calls]
  /\ locked \in [Calls -> SUBSET Calls]
  /\ reported \in [Calls -> PlanArgs]
  /\ result \in [Calls -> Results]
  /\ \A c \in Calls : pc[c] \notin TxSteps \union {"rollback"} =>
       pending[c] = {} /\ locked[c] = {}

(***************************************************************************)
(* A registered user has exactly one active plan, whatever plan changes    *)
(* race or fail half-way, and an address that is not registered has none.  *)
(***************************************************************************)
OneActivePlan ==
  \A u \in Users :
    /\ account[u] # "none" <=> ActiveRows("user_plans", u) # {}
    /\ \A r, s \in ActiveRows("user_plans", u) : r = s

(***************************************************************************)
(* A registered user always has an active API key: a rotation that fails   *)
(* after its UPDATE does not take away the old key.                        *)
(***************************************************************************)
KeyAlwaysAvailable ==
  \A u \in Users : account[u] # "none" => ActiveRows("api_keys", u) # {}

(***************************************************************************)
(* When a rotation is acknowledged, every key that was active when its     *)
(* UPDATE began is revoked for good, also when other rotations had locked  *)
(* the same keys.  (Keys of rotations that overlap stay active together.)  *)
(***************************************************************************)
RotationRevokes ==
  \A c \in Calls : req[c].op = "issue_key" /\ result[c] = "ok" =>
    \A k \in found[c] : row["api_keys"][k] = "inactive"

(***************************************************************************)
(* A user row comes with the plan and the key of one registration, and at  *)
(* most one registration of an address is ever stored, however many race.  *)
(***************************************************************************)
AtomicRegistration ==
  \A u \in Users :
    LET stored(t) == {c \in Calls : req[c].op = "register" /\ User(c) = u /\ row[t][c] # "none"}
    IN  /\ stored("user_plans") = stored("api_keys")
        /\ Cardinality(stored("api_keys")) = IF account[u] = "none" THEN 0 ELSE 1

Writes(op) ==
  CASE op = "register"    -> {"user_plans", "api_keys"}
    [] op = "login"       -> {}
    [] op = "issue_key"   -> {"api_keys"}
    [] op = "change_plan" -> {"user_plans"}

(***************************************************************************)
(* What the client is told is what the tables say: a call answered with    *)
(* 200 or 201 has stored all its rows, one answered with 4xx none of them. *)
(* A 500, or no answer because the process died, leaves the client in      *)
(* doubt, but between two states only: all rows are stored, or none.       *)
(***************************************************************************)
AnswerMatchesTables ==
  \A c \in Calls :
    LET stored == {t \in Tables : row[t][c] # "none"}
        status == Status(req[c].op, result[c])
    IN  /\ stored \in {{}, Writes(req[c].op)}
        /\ pc[c] = "done" /\ status \in {200, 201} => stored = Writes(req[c].op)
        /\ pc[c] = "done" /\ status \in 400 .. 499 => stored = {}

\* The abstract account of each user, read off the committed tables.
CurrentPlan(u) ==
  LET plans == ActiveRows("user_plans", u)
  IN  IF plans = {} THEN Blank ELSE PlanCode(CHOOSE r \in plans : TRUE)

Registry == INSTANCE AccountRegistry WITH
  Keys   <- Calls,
  NoPlan <- Blank,
  status <- account,
  plan   <- [u \in Users |-> CurrentPlan(u)],
  active <- [u \in Users |-> ActiveRows("api_keys", u)],
  issued <- {c \in Calls : row["api_keys"][c] # "none"}

(***************************************************************************)
(* Seen from outside, each call takes effect in one step or not at all:    *)
(* the statements, locks and faults implement the abstract registry.       *)
(***************************************************************************)
ImplementsRegistry == Registry!Spec

(***************************************************************************)
(* Every call that was received ends: it is answered, or its process dies. *)
(* No error path keeps a lock for ever, no circle of waiting calls stays.  *)
(***************************************************************************)
EveryCallAnswered ==
  \A c \in Calls : (pc[c] \in InCall) ~> (pc[c] \in {"done", "lost"})
=============================================================================
