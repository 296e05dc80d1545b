--------------------------- MODULE AccountRegistry ---------------------------
(***************************************************************************)
(* What the account endpoints promise, with every call reduced to one      *)
(* atomic step: a user is registered together with a plan and a first API  *)
(* key, a plan change replaces the plan, a key rotation issues a fresh key *)
(* and revokes keys of the same user, and a revoked key never comes back.  *)
(* Accounts.tla, which has the statements, row locks and faults of the     *)
(* code, implements this module.                                           *)
(***************************************************************************)
CONSTANTS
  Users,     \* e-mail addresses
  Plans,     \* plan codes in the plans table
  Keys,      \* API keys that can ever be issued
  NoPlan     \* the plan of a user who is not registered

VARIABLES
  status,    \* users.status, "none" before the registration
  plan,      \* the user's active plan
  active,    \* the user's usable API keys
  issued     \* every key ever stored

vars == <<status, plan, active, issued>>

Statuses == {"none", "active", "inactive"}

\* Registered users have a plan and a key; nobody else has either.
Init ==
  /\ status \in [Users -> {"none", "active"}]
  /\ plan \in [Users -> Plans \union {NoPlan}]
  /\ active \in [Users -> SUBSET Keys]
  /\ issued = UNION {active[u] : u \in Users}
  /\ \A u \in Users :
       /\ status[u] = "none" <=> plan[u] = NoPlan
       /\ status[u] = "none" <=> active[u] = {}
       /\ \A v \in Users \ {u} : active[u] \intersect active[v] = {}

Register(u, p, k) ==
  /\ status[u] = "none"
  /\ k \notin issued
  /\ status' = [status EXCEPT ![u] = "active"]
  /\ plan' = [plan EXCEPT ![u] = p]
  /\ active' = [active EXCEPT ![u] = {k}]
  /\ issued' = issued \union {k}

RotateKey(u, k, revoked) ==
  /\ status[u] # "none"
  /\ k \notin issued
  /\ active' = [active EXCEPT ![u] = (@ \ revoked) \union {k}]
  /\ issued' = issued \union {k}
  /\ UNCHANGED <<status, plan>>

ChangePlan(u, p) ==
  /\ status[u] # "none"
  /\ plan' = [plan EXCEPT ![u] = p]
  /\ UNCHANGED <<status, active, issued>>

SetStatus(u, s) ==
  /\ status[u] # "none"
  /\ status' = [status EXCEPT ![u] = s]
  /\ UNCHANGED <<plan, active, issued>>

Next ==
  \E u \in Users :
    \/ \E p \in Plans : ChangePlan(u, p)
    \/ \E s \in {"active", "inactive"} : SetStatus(u, s)
    \/ \E k \in Keys :
         \/ \E p \in Plans : Register(u, p, k)
         \/ \E revoked \in SUBSET active[u] : RotateKey(u, k, revoked)

Spec == Init /\ [][Next]_vars
=============================================================================
