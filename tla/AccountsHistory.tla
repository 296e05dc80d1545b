--------------------------- MODULE AccountsHistory ---------------------------
(***************************************************************************)
(* Accounts with a history variable: what the account of its user has been *)
(* while each call ran.  A call reads status, password and plan with three *)
(* statements before its transaction, and answers with what it has read;   *)
(* operators, plan changes and registrations go on in between.             *)
(***************************************************************************)
EXTENDS Accounts

VARIABLE lived   \* the states of its user's account since a call was received

historyVars == <<vars, lived>>

Account(u) == [status |-> account[u], plan |-> CurrentPlan(u)]

HistoryInit ==
  /\ Init
  /\ lived = [c \in Calls |-> IF c \in Seeds THEN {Account(User(c))} ELSE {}]

\* A call lives through the states before and after each of its steps.
Live ==
  lived' = [c \in Calls |->
    IF pc'[c] = "idle" \/ pc[c] \in {"done", "lost"}
      THEN lived[c]
      ELSE lived[c] \union {Account(User(c))'}]

HistoryNext == Next /\ Live

HistorySpec == HistoryInit /\ [][HistoryNext]_historyVars

\* The history takes part in every step, and needs no fairness of its own.
FairHistory == HistorySpec /\ \A c \in Calls : WF_vars(Progress(c))

(***************************************************************************)
(* The plan in a successful answer was the user's plan at some time while  *)
(* the call ran: not one that had been replaced before it was received,    *)
(* and not one of a change or a registration that was rolled back.         *)
(***************************************************************************)
ReportedPlanHeld ==
  \A c \in Calls : result[c] = "ok" => \E a \in lived[c] : a.plan = reported[c]

(***************************************************************************)
(* A suspension overtakes no call that is received later: a call whose     *)
(* user was not active at any time while it ran has stored nothing and is  *)
(* not answered with success.  (One that had read the status before goes   *)
(* on, and may still rotate the key or change the plan.)                   *)
(***************************************************************************)
SuspendedAccountsRest ==
  \A c \in Calls :
    (result[c] = "ok" \/ \E t \in Tables : row[t][c] # "none") =>
      \E a \in lived[c] : a.status = "active"
=============================================================================
