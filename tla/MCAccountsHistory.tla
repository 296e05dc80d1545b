-------------------------- MODULE MCAccountsHistory --------------------------
(***************************************************************************)
(* AccountsHistory with two calls that contend for the rows of one user,   *)
(* or answer with what the other one writes.                               *)
(***************************************************************************)
EXTENDS AccountsHistory, MCAccounts

Contending ==
  {Good("login", ann, ""), Good("issue_key", ann, ""), Good("change_plan", ann, "premium"),
   Good("register", bob, "free"), Good("login", bob, "")}
=============================================================================
