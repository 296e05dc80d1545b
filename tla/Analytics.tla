------------------------------ MODULE Analytics ------------------------------
(***************************************************************************)
(* GET /api/v1/analytics/usage: the report on a user's quota and requests, *)
(* as the handler of a request in the chain of Gateway.                    *)
(*                                                                         *)
(* The report is put together from up to three queries: the quota of the   *)
(* plan, from the table plans; the requests counted so far; and what they  *)
(* asked for.  Between the queries other requests are logged, plans and    *)
(* months change, and an operator edits the quotas.  What Gateway has as   *)
(* the step Serve is refined here into these queries.                      *)
(***************************************************************************)
EXTENDS Gateway, Integers, FiniteSetsExt

CONSTANT NewQuota   \* bound: what an operator may set the quota of a plan to

ASSUME EditAssumption == NewQuota \in [Plans -> Nat]

VARIABLES
  quotas,   \* plans.monthly_quota as the table has it now, 0 for NULL
  report    \* the report of each request to the route

reporting == <<quotas, report>>
reportVars == <<vars, reporting>>

\* A path of api_request_logs, and how often it was asked for.
Line == [path : Features, count : Nat]

Report ==
  [step : {"quota", "count", "usage", "told", "failed"},  \* the query to come
   quota : Nat,       \* the quota found in the table
   remaining : Nat,   \* as told by X-Quota-Remaining, later by the report
   seen : Nat,        \* the length of the log when that was computed
   period : Period \union {NotAdmitted},  \* and the plan and month of it
   lines : SUBSET Line]

NewReport ==
  [step |-> "quota", quota |-> 0, remaining |-> 0, seen |-> 0, period |-> NotAdmitted,
   lines |-> {}]

ReportInit ==
  /\ Init
  /\ quotas = MonthlyQuota
  /\ report = [r \in Requests |-> NewReport]

IsReport(r) == ask[r].feature = "analytics:usage"

At(r, step) == pc[r] = "serve" /\ IsReport(r) /\ report[r].step = step

Reporter(r) == profile[r].user
CurrentPeriod(u) == [era |-> era[u], month |-> month]

\* What is left of a quota is told, and when it was counted.
Count(r, step, remaining) ==
  report' = [report EXCEPT ![r].step = step,
                           ![r].remaining = remaining,
                           ![r].seen = Len(log),
                           ![r].period = CurrentPeriod(Reporter(r))]

\* The quota middleware tells the client what is left before this request,
\* if it has counted and lets the request pass.
CheckReportQuota(r) ==
  LET quota == MonthlyQuota[profile[r].plan] IN
  /\ IsReport(r)
  /\ pc[r] = "quota"
  /\ Chain(r)
  /\ IF pc'[r] = "gate" /\ quota > 0
       THEN Count(r, "quota", quota - CountMonthRequests(Reporter(r)))
       ELSE UNCHANGED report
  /\ UNCHANGED quotas

\* Without a quota nothing is counted, and nothing remains.
ReadQuota(r) ==
  /\ At(r, "quota")
  /\ LET quota == quotas[profile[r].plan] IN
       report' = IF quota > 0
         THEN [report EXCEPT ![r].step = "count", ![r].quota = quota]
         ELSE [report EXCEPT ![r] = [NewReport EXCEPT !.step = "usage"]]
  /\ UNCHANGED <<vars, quotas>>

\* Mutant: the handler does not take off the request that it answers.
RemainingBefore(quota, count) == Max({quota - count, 0})

\* Mutant: no check for a count above the quota.
RemainingUnchecked(quota, count) == quota - count - 1

\* RemainingQuota, and the running request, which is not logged yet.
Remaining(quota, count) == Max({quota - count - 1, 0})

CountUsage(r) ==
  /\ At(r, "count")
  /\ Count(r, "usage", Remaining(report[r].quota, CountMonthRequests(Reporter(r))))
  /\ UNCHANGED <<vars, quotas>>

\* Mutant: the requests of the month, whatever plan they were made on.
LinesOfAllPlans(u) ==
  LET asked(f) == {i \in 1 .. Len(log) :
        i > monthFrom /\ profile[log[i]].user = u /\ ask[log[i]].feature = f} IN
  {[path |-> f, count |-> Cardinality(asked(f))] : f \in {g \in Features : asked(g) # {}}}

\* ListEndpointUsage: GROUP BY path; the route's feature stands for the path.
Lines(u) ==
  LET asked(f) == {i \in MonthRequests(u) : ask[log[i]].feature = f} IN
  {[path |-> f, count |-> Cardinality(asked(f))] : f \in {g \in Features : asked(g) # {}}}

\* TopEndpointUsage: any of the lines with the highest count (by path, if tied).
TopLines(u) == {l \in Lines(u) : \A m \in Lines(u) : m.count <= l.count}

\* What the plan lets the user see: nothing, the top line if any, all lines.
Shown(p, u) ==
  CASE p = "free" -> {{}}
    [] p = "standard" -> IF TopLines(u) = {} THEN {{}} ELSE {{l} : l \in TopLines(u)}
    [] OTHER -> {Lines(u)}

Tell(r) ==
  /\ At(r, "usage")
  /\ \E lines \in Shown(profile[r].plan, Reporter(r)) :
       report' = [report EXCEPT ![r].step = "told", ![r].lines = lines]
  /\ Serve(r)
  /\ UNCHANGED quotas

\* One of the queries fails, the answer is 500.
ReportFails(r) ==
  /\ "db_error" \in Faults
  /\ \/ At(r, "quota")
     \/ At(r, "count")
     \/ At(r, "usage") /\ profile[r].plan # "free"
  /\ report' = [report EXCEPT ![r] = [NewReport EXCEPT !.step = "failed"]]
  /\ Serve(r)
  /\ UNCHANGED quotas

EditQuota(p) ==
  /\ quotas = MonthlyQuota
  /\ quotas' = [quotas EXCEPT ![p] = NewQuota[p]]
  /\ UNCHANGED <<vars, report>>

\* Everything else is as in Gateway, whose quotas are those of the start-up.
AsInGateway ==
  /\ \/ \E r \in Requests : /\ IsReport(r) => pc[r] \notin {"quota", "serve"}
                            /\ Chain(r)
     \/ Surroundings
  /\ UNCHANGED reporting

\* Bound: no restart after an edit, since it would load the new quotas.
RestartReports ==
  /\ quotas = MonthlyQuota
  /\ Restart
  /\ report' = [r \in Requests |-> IF pc'[r] = "lost" THEN NewReport ELSE report[r]]
  /\ UNCHANGED quotas

ReportNext ==
  \/ \E r \in Requests :
       \/ CheckReportQuota(r)
       \/ ReadQuota(r)
       \/ CountUsage(r)
       \/ Tell(r)
       \/ ReportFails(r)
  \/ \E p \in Plans : EditQuota(p)
  \/ AsInGateway
  \/ RestartReports

ReportSpec == ReportInit /\ [][ReportNext]_reportVars

-----------------------------------------------------------------------------
(* Properties                                                              *)

(***************************************************************************)
(* Types; a report never promises the request that it is the answer to,    *)
(* and never a negative number, however far the quota was lowered.         *)
(***************************************************************************)
ReportTypeOK ==
  /\ quotas \in [Plans -> Nat]
  /\ DOMAIN report = Requests
  /\ \A r \in Requests :
       /\ report[r] \in Report
       /\ report[r].step \in {"usage", "told"} =>
            report[r].remaining \in 0 .. Max({report[r].quota - 1, 0})

\* The user's requests that were logged since the log had length n.
LoggedSince(u, n) == {i \in MonthRequests(u) : i > n}

(***************************************************************************)
(* The report agrees with the header X-Quota-Remaining that the middleware *)
(* sends with it, though they are computed from two counts, one before and *)
(* one after the chain has gone on, and from two copies of the quota: it   *)
(* is the header less this request and those logged between the counts,    *)
(* unless the plan, the month or the quota has changed between them.       *)
(***************************************************************************)
ReportMatchesHeader ==
  [][\A r \in Requests :
       /\ report[r].step = "count"
       /\ report'[r].step = "usage"
       /\ report[r].quota = MonthlyQuota[profile[r].plan]
       /\ report[r].period = CurrentPeriod(Reporter(r))
      => report'[r].remaining =
           Max({0, report[r].remaining - 1
                     - Cardinality(LoggedSince(Reporter(r), report[r].seen))})
    ]_reportVars

(***************************************************************************)
(* What the report says remains is honoured: when a request is refused for *)
(* the quota that a report was based on, in the same month and on the same *)
(* plan, then at least as many other requests as the report promised have  *)
(* been logged since it counted.                                           *)
(***************************************************************************)
RemainingHonoured ==
  [][\A q, r \in Requests :
       /\ answer[q] = "none"
       /\ answer'[q] = "monthly_quota_exceeded"
       /\ report[r].step = "told"
       /\ Reporter(q) = Reporter(r)
       /\ report[r].period = CurrentPeriod(Reporter(r))
       /\ report[r].quota = MonthlyQuota[profile[q].plan]
      => Cardinality({i \in LoggedSince(Reporter(r), report[r].seen) : log[i] # r})
           >= report[r].remaining
    ]_reportVars

\* The sum of the counts of all lines: the entries of each, numbered.
LinesTotal(lines) == Cardinality(UNION {{l} \X (1 .. l.count) : l \in lines})

(***************************************************************************)
(* The parts of a report are from different moments and still add up:      *)
(* while the plan and the month are the same, the lines of a full report   *)
(* and the remaining requests make up the quota, less the running request  *)
(* and but for what was logged between the queries. The top line alone is  *)
(* part of that.                                                           *)
(***************************************************************************)
ReportAddsUp ==
  [][\A r \in Requests :
       LET told == report'[r]
           between == Cardinality(LoggedSince(Reporter(r), told.seen)) IN
       /\ report[r].step = "usage"
       /\ told.step = "told"
       /\ told.period = CurrentPeriod(Reporter(r))
       /\ told.remaining > 0
      => /\ told.remaining + LinesTotal(told.lines) <= told.quota - 1 + between
         /\ profile[r].plan \notin {"free", "standard"} =>
              told.remaining + LinesTotal(told.lines) = told.quota - 1 + between
    ]_reportVars
=============================================================================
