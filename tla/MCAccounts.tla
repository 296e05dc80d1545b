----------------------------- MODULE MCAccounts ------------------------------
(***************************************************************************)
(* Accounts with small sets of calls and requests.  The demo account       *)
(* "ann" exists from the start, "bob" can register.                        *)
(***************************************************************************)
EXTENDS Accounts, TLC

CONSTANTS demo, c1, c2, c3, c4, ann, bob

MCSeedUser == demo :> ann
MCSeedPlan == demo :> "free"
MCPlans == {"free", "premium"}
MCPlanArgs == {"", "free", "premium", "gold"}

Good(op, u, p) == [op |-> op, user |-> u, plan |-> p, input |-> "good"]

\* Each operation done properly, by a registered and an unregistered user.
GoodRequests ==
  {Good("register", bob, ""), Good("register", ann, "free"), Good("login", bob, ""),
   Good("issue_key", ann, ""), Good("issue_key", bob, ""), Good("change_plan", ann, "premium")}

\* Each way in which a request can be rejected.
BadRequests ==
  {Good("register", bob, "gold"), Good("change_plan", ann, ""),
   [op |-> "register", user |-> bob, plan |-> "free", input |-> "bad_password"],
   [op |-> "login", user |-> ann, plan |-> "", input |-> "bad_password"],
   [op |-> "issue_key", user |-> ann, plan |-> "", input |-> "malformed"],
   [op |-> "change_plan", user |-> ann, plan |-> "free", input |-> "invalid"]}

AllRequests == GoodRequests \union BadRequests

\* Only rotations of one user's keys.
Rotations == {Good("issue_key", ann, "")}

\* Bound: three calls at a time; and since they differ in nothing, calls are
\* received in one order only.
ThreeInOrder ==
  /\ Cardinality(InFlight) <= 3
  /\ pc[c2] # "idle" => pc[c1] # "idle"
  /\ pc[c3] # "idle" => pc[c2] # "idle"
  /\ pc[c4] # "idle" => pc[c3] # "idle"

Symmetry == Permutations(Calls \ Seeds)
=============================================================================
