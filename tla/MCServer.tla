------------------------------- MODULE MCServer ------------------------------
(***************************************************************************)
(* Server with two connections, and four requests that contend for them:   *)
(* two rotations of one user's keys, a listing and a metered search.  The  *)
(* tables are empty, those of the SQL script cut down, or edited: features *)
(* moved, a quota set, a plan added whose feature key is blank.            *)
(***************************************************************************)
EXTENDS Server, TLC

CONSTANTS key1, key2, list, search, ann

MCKind == key1 :> "rotate" @@ key2 :> "rotate" @@ list :> "unmetered" @@ search :> "metered"
MCLockOf == [r \in Requests |-> ann]

Limits(rpm, quota) == [rpm |-> rpm, quota |-> quota]

Seeded ==
  [plans |-> "free" :> Limits(1, 1) @@ "premium" :> Limits(2, Null),
   features |-> {<<"free", "list">>, <<"premium", "list">>, <<"premium", "search">>}]

Edited ==
  [plans |-> "free" :> Limits(2, 1) @@ "gold" :> Limits(1, 2) @@ "premium" :> Limits(2, 2),
   features |-> {<<"free", "search">>, <<"gold", "">>, <<"premium", "list">>}]

Empty == [plans |-> NoPolicies, features |-> {}]

MCDatabases == {Seeded, Edited, Empty}

\* Bound: while requests run, the tables are as they were when the process
\* started; it does not look at them again.
EditsBetween == tables = queried \/ \A r \in Requests : ~Running(r)
=============================================================================
