------------------------------ MODULE ConnPool -------------------------------
(***************************************************************************)
(* The connection pool that all requests share.  A request uses it several *)
(* times, one connection at a time: for a query, or for a transaction,     *)
(* which keeps its connection while it waits for a row lock.  Who finds no *)
(* free connection queues.  Some uses end when the client goes away or a   *)
(* deadline passes; the queries of the repositories wait without limit.    *)
(*                                                                         *)
(* The pool (pgxpool over puddle) and the locks are external: they are     *)
(* modelled from how the code uses them.                                   *)
(***************************************************************************)
EXTENDS Naturals, SequencesExt

CONSTANTS
  Requests,   \* requests to the API
  Kind,       \* Requests -> what each of them is, see Uses
  Locks,      \* what transactions lock: the rows of one user in one table
  LockOf,     \* Requests -> the lock that its transaction takes
  NoOne,      \* nobody owns the lock
  MaxConns    \* config.MaxConns

ASSUME PoolAssumption ==
  /\ MaxConns \in Nat \ {0}
  /\ IsFiniteSet(Requests)
  /\ LockOf \in [Requests -> Locks]
  /\ NoOne \notin Requests

VARIABLES
  at,        \* the use that each request is at, 0 before it arrives
  holding,   \* requests that have a connection
  waiting,   \* requests that wait for one, first come first served
  owner      \* the request whose database session owns each lock

poolVars == <<at, holding, waiting, owner>>

\* The most uses of each kind of request, in order: under /api/v1 with or
\* without a quota, where a handler has up to three queries, one after the
\* other; and the account calls, which read before their transaction.
Uses ==
  [metered |-> <<"authenticate", "count", "handle", "handle", "handle", "log">>,
   unmetered |-> <<"authenticate", "handle", "handle", "handle", "log">>,
   register |-> <<"read", "tx">>,
   login |-> <<"read", "read">>,
   rotate |-> <<"read", "read", "tx">>,
   change |-> <<"read", "read", "read", "tx">>]

Kinds == DOMAIN Uses

ASSUME KindAssumption == Kind \in [Requests -> Kinds]

LastUse(r) == Len(Uses[Kind[r]])
Running(r) == at[r] \in 1 .. LastUse(r)
Use(r) == IF Running(r) THEN Uses[Kind[r]][at[r]] ELSE "none"

PoolInit ==
  /\ at = [r \in Requests |-> 0]
  /\ holding = {}
  /\ waiting = <<>>
  /\ owner = [l \in Locks |-> NoOne]

Arrive(r) ==
  /\ at[r] = 0
  /\ at' = [at EXCEPT ![r] = 1]
  /\ UNCHANGED <<holding, waiting, owner>>

IsWaiting(r) == \E i \in DOMAIN waiting : waiting[i] = r

\* A connection is taken if one is free and nobody waits.
Acquire(r) ==
  /\ Running(r)
  /\ r \notin holding
  /\ ~IsWaiting(r)
  /\ IF Cardinality(holding) < MaxConns /\ waiting = <<>>
       THEN holding' = holding \union {r} /\ UNCHANGED waiting
       ELSE waiting' = Append(waiting, r) /\ UNCHANGED holding
  /\ UNCHANGED <<at, owner>>

\* A connection comes free: the first who waits gets it.
Release(r) ==
  IF waiting = <<>>
    THEN holding' = holding \ {r} /\ UNCHANGED waiting
    ELSE /\ holding' = (holding \ {r}) \union {Head(waiting)}
         /\ waiting' = Tail(waiting)

\* What comes after a query: the next use; the end, if the request is refused
\* or, outside the handler, the query fails; the log entry, if the handler has
\* its answer or the feature gate refuses.
Following(r) ==
  {n \in at[r] + 1 .. LastUse(r) + 1 :
    \/ n = at[r] + 1
    \/ n = LastUse(r) + 1 /\ Use(r) # "handle"
    \/ n = LastUse(r) /\ "handle" \in {Use(r), Uses[Kind[r]][at[r] + 1]}}

FinishQuery(r) ==
  /\ r \in holding
  /\ Use(r) # "tx"
  /\ \E n \in Following(r) : at' = [at EXCEPT ![r] = n]
  /\ Release(r)
  /\ UNCHANGED owner

\* Mutant: the statement is sent through the pool and not the transaction.
LockRowsThroughPool(r) ==
  /\ r \in holding
  /\ Use(r) = "tx"
  /\ owner[LockOf[r]] = NoOne
  /\ Cardinality(holding) < MaxConns
  /\ owner' = [owner EXCEPT ![LockOf[r]] = r]
  /\ UNCHANGED <<at, holding, waiting>>

\* The first statement that writes; while the lock has an owner it waits.
LockRows(r) ==
  /\ r \in holding
  /\ Use(r) = "tx"
  /\ owner[LockOf[r]] = NoOne
  /\ owner' = [owner EXCEPT ![LockOf[r]] = r]
  /\ UNCHANGED <<at, holding, waiting>>

\* Mutant: a way through the call that ends without Commit and without error.
ReturnWithoutCommit(r) ==
  /\ r \in holding
  /\ Use(r) = "tx"
  /\ owner[LockOf[r]] = r
  /\ at' = [at EXCEPT ![r] = @ + 1]
  /\ UNCHANGED <<holding, waiting, owner>>

Commit(r) ==
  /\ r \in holding
  /\ Use(r) = "tx"
  /\ owner[LockOf[r]] = r
  /\ owner' = [owner EXCEPT ![LockOf[r]] = NoOne]
  /\ at' = [at EXCEPT ![r] = @ + 1]
  /\ Release(r)

\* A statement fails while the client is there.
Rollback(r) ==
  /\ r \in holding
  /\ Use(r) = "tx"
  /\ owner' = [owner EXCEPT ![LockOf[r]] = IF @ = r THEN NoOne ELSE @]
  /\ at' = [at EXCEPT ![r] = @ + 1]
  /\ Release(r)

\* Only the repositories' queries have neither a client nor a deadline.
MayGiveUp(r) == Running(r) /\ Use(r) # "handle"

\* Mutant: a failed transaction is not rolled back and keeps its connection.
GiveUpWithoutRollback(r) ==
  /\ r \in holding
  /\ MayGiveUp(r)
  /\ at' = [at EXCEPT ![r] = LastUse(r) + 1]
  /\ UNCHANGED <<holding, waiting, owner>>

\* In the queue, with a connection, or just before asking for one.
LeavePool(r) ==
  \/ r \in holding /\ Release(r)
  \/ \E i \in DOMAIN waiting :
       /\ waiting[i] = r
       /\ waiting' = RemoveAt(waiting, i)
       /\ UNCHANGED holding
  \/ r \notin holding /\ ~IsWaiting(r) /\ UNCHANGED <<holding, waiting>>

\* The client is gone or the deadline has passed: the request ends, or, if it
\* is at its log entry, has ended all the same.  The Rollback, with a
\* cancelled context, closes the connection; what its session has locked
\* stays locked until the server notices.
GiveUp(r) ==
  /\ MayGiveUp(r)
  /\ at' = [at EXCEPT ![r] = LastUse(r) + 1]
  /\ LeavePool(r)
  /\ UNCHANGED owner

\* The server notices that the client of a session is gone, and rolls back.
ServerRollsBack(l) ==
  /\ owner[l] \notin holding \union {NoOne}
  /\ owner' = [owner EXCEPT ![l] = NoOne]
  /\ UNCHANGED <<at, holding, waiting>>

\* The process dies, and its connections with it.
PoolCrash ==
  /\ at' = [r \in Requests |-> IF Running(r) THEN LastUse(r) + 1 ELSE at[r]]
  /\ holding' = {}
  /\ waiting' = <<>>
  /\ UNCHANGED owner

Progress(r) == Acquire(r) \/ FinishQuery(r) \/ LockRows(r) \/ Commit(r)

PoolStep == \E r \in Requests : Arrive(r) \/ Progress(r) \/ Rollback(r) \/ GiveUp(r)
DatabaseStep == \E l \in Locks : ServerRollsBack(l)

PoolNext == PoolStep \/ DatabaseStep \/ PoolCrash

PoolSpec == PoolInit /\ [][PoolNext]_poolVars

-----------------------------------------------------------------------------
(* Properties                                                              *)

(***************************************************************************)
(* Types; only requests that run have connections or wait for one, nobody  *)
(* does both or waits twice, and there are never more than MaxConns.       *)
(***************************************************************************)
PoolTypeOK ==
  /\ at \in [Requests -> Nat]
  /\ \A r \in Requests : at[r] <= LastUse(r) + 1
  /\ holding \subseteq {r \in Requests : Running(r)}
  /\ Cardinality(holding) <= MaxConns
  /\ waiting \in Seq({r \in Requests : Running(r)} \ holding)
  /\ \A i, j \in DOMAIN waiting : waiting[i] = waiting[j] => i = j
  /\ owner \in [Locks -> Requests \union {NoOne}]

(***************************************************************************)
(* However requests end, by answer, error, timeout or a client that goes   *)
(* away in the queue or inside a transaction, and whatever they leave out  *)
(* on the way: whoever waits for a connection waits because all MaxConns   *)
(* of them are in the hands of requests that still run, and none is kept   *)
(* by a request that is over or is nowhere.                                *)
(***************************************************************************)
NoConnectionLost ==
  waiting # <<>> => Cardinality({r \in holding : Running(r)}) = MaxConns

(***************************************************************************)
(* Every request ends, though all connections may be in the hands of       *)
(* transactions that wait for each other's rows, and though no client goes *)
(* away and no deadline passes: nobody needs a second connection, and the  *)
(* owner of a lock has one.                                                *)
(***************************************************************************)
EveryRequestEnds == \A r \in Requests : at[r] = 1 ~> at[r] = LastUse(r) + 1
=============================================================================
