--------------------------- MODULE AnalyticsProofs ---------------------------
(***************************************************************************)
(* Proofs about Analytics for any requests, users, policies and bounds.    *)
(* Analytics extends the steps of Gateway, so what is invariant there is   *)
(* invariant here; its reports are well-formed (ReportTypeOK), agree with  *)
(* the header, with refusals and within themselves, but for what happened  *)
(* between their queries (ReportMatchesHeader, RemainingHonoured,          *)
(* ReportAddsUp).                                                          *)
(***************************************************************************)
EXTENDS Analytics, GatewayProofs

\* The handler's last step is the step Serve, the others are stutters.
LEMMA ChainStep ==
  ASSUME [ReportNext]_reportVars
  PROVE  [Next]_vars
<1>1. ASSUME NEW r \in Requests, CheckReportQuota(r)
      PROVE  Next
  BY <1>1 DEF CheckReportQuota, Next, Chain
<1>2. ASSUME NEW r \in Requests, ReadQuota(r) \/ CountUsage(r)
      PROVE  UNCHANGED vars
  BY <1>2 DEF ReadQuota, CountUsage
<1>3. ASSUME NEW r \in Requests, Tell(r) \/ ReportFails(r)
      PROVE  Next
  BY <1>3 DEF Tell, ReportFails, Next, Chain
<1>4. ASSUME NEW p \in Plans, EditQuota(p)
      PROVE  UNCHANGED vars
  BY <1>4 DEF EditQuota
<1>5. AsInGateway => Next
  BY DEF AsInGateway, Next, Chain
<1>6. RestartReports => Next
  BY DEF RestartReports, Next
<1>7. UNCHANGED reportVars => UNCHANGED vars
  BY DEF reportVars
<1> QED
  BY <1>1, <1>2, <1>3, <1>4, <1>5, <1>6, <1>7 DEF ReportNext

LEMMA ImplementsChain == ReportSpec => Spec
<1>1. ReportInit => Init
  BY DEF ReportInit
<1>2. [ReportNext]_reportVars => [Next]_vars
  BY ChainStep
<1> QED
  BY <1>1, <1>2, PTL DEF ReportSpec, Spec

(***************************************************************************)
(* Reports, however slow, leave the bound on the quota as it is.           *)
(***************************************************************************)
THEOREM OvershootStaysBounded == ReportSpec => []QuotaOvershootBounded
BY ImplementsChain, OvershootIsBounded, PTL

-----------------------------------------------------------------------------
(* Reports are well-formed.                                                *)

LEMMA MaxOfTwo ==
  ASSUME NEW a \in Int, NEW b \in Int
  PROVE  Max({a, b}) = IF a >= b THEN a ELSE b
<1>1. \E m \in {a, b} : \A y \in {a, b} : m >= y
  OBVIOUS
<1>2. Max({a, b}) \in {a, b} /\ \A y \in {a, b} : Max({a, b}) >= y
  BY <1>1 DEF Max
<1>3. /\ Max({a, b}) = a \/ Max({a, b}) = b
      /\ Max({a, b}) >= a
      /\ Max({a, b}) >= b
  BY <1>2
<1> QED
  BY <1>3

\* What a report promises at most, and what ReportTypeOK asks of each.
Bound(quota) == Max({quota - 1, 0})

ReportOK(x) ==
  /\ x \in Report
  /\ x.step \in {"usage", "told"} => x.remaining \in 0 .. Bound(x.quota)

LEMMA NewReportOK ==
  ASSUME NEW step \in {"quota", "usage", "failed"}
  PROVE  ReportOK([NewReport EXCEPT !.step = step])
<1>1. 0 \in 0 .. Bound(0)
  <2>1. Max({0 - 1, 0}) = 0
    BY MaxOfTwo
  <2> QED
    BY <2>1 DEF Bound
<1>2. [NewReport EXCEPT !.step = step] \in Report
  BY DEF NewReport, Report
<1>3. /\ [NewReport EXCEPT !.step = step].quota = 0
      /\ [NewReport EXCEPT !.step = step].remaining = 0
  BY DEF NewReport
<1> QED
  BY <1>1, <1>2, <1>3 DEF ReportOK

\* The requests counted are a natural number, and so are those of a line.
LEMMA CountsAreNatural ==
  ASSUME GInv, NEW u, NEW S \in SUBSET MonthRequests(u)
  PROVE  IsFiniteSet(S) /\ Cardinality(S) \in Nat
<1>1. Len(log) \in Nat
  BY DEF GInv, TypeOK
<1>2. IsFiniteSet(1 .. Len(log)) /\ S \subseteq 1 .. Len(log)
  BY <1>1, FS_Interval DEF MonthRequests
<1> QED
  BY <1>2, FS_Subset, FS_CardinalityType

LEMMA ShownAreLines ==
  ASSUME GInv, NEW u, NEW p, NEW lines \in Shown(p, u)
  PROVE  lines \subseteq Line
<1>1. Lines(u) \subseteq Line
  <2> SUFFICES ASSUME NEW f \in Features
               PROVE  [path |-> f, count |->
                         Cardinality({i \in MonthRequests(u) : ask[log[i]].feature = f})] \in Line
    BY DEF Lines
  <2> QED
    BY CountsAreNatural DEF Line
<1>2. TopLines(u) \subseteq Line
  BY <1>1 DEF TopLines
<1> QED
  BY <1>1, <1>2 DEF Shown

LEMMA CountedOK ==
  ASSUME GInv, NEW r \in Requests, NEW x, ReportOK(x), profile[r] \in Profile,
         NEW step \in {"quota", "usage"}, NEW n \in Nat,
         step = "usage" => n \in 0 .. Bound(x.quota)
  PROVE  ReportOK([x EXCEPT !.step = step, !.remaining = n, !.seen = Len(log),
                            !.period = CurrentPeriod(Reporter(r))])
<1>1. CurrentPeriod(Reporter(r)) \in Period /\ Len(log) \in Nat
  BY DEF CurrentPeriod, Reporter, Period, Profile, GInv, TypeOK
<1> HIDE DEF CurrentPeriod
<1> QED
  BY <1>1 DEF ReportOK, Report

\* One report changes, into a well-formed one.
LEMMA OneReport ==
  ASSUME ReportTypeOK, NEW r \in Requests, NEW x, ReportOK(x),
         report' = [report EXCEPT ![r] = x], UNCHANGED quotas
  PROVE  ReportTypeOK'
BY DEF ReportTypeOK, ReportOK, Bound

\* Only a request that has been counted passes the quota.
LEMMA PassedIsCounted ==
  ASSUME GInv, NEW r \in Requests, CheckReportQuota(r), pc'[r] = "gate"
  PROVE  CheckQuota(r)
<1>1. pc[r] = "quota" /\ Chain(r) /\ profile[r].plan \in loaded
  BY DEF CheckReportQuota, GInv, RequestsOK, RequestOK
<1> QED
  BY <1>1 DEF Chain, Arrive, Authenticate, AuthUnavailable, PolicyNotFound, RateLimit,
     QuotaUnavailable, FeatureGate, Serve, LogRequest, LogLost, Abort, Goto, GInv, TypeOK

LEMMA ReportTypeKeeps ==
  ASSUME GInv, ReportTypeOK, [ReportNext]_reportVars
  PROVE  ReportTypeOK'
<1>1. \A r \in Requests : ReportOK(report[r])
  BY DEF ReportTypeOK, ReportOK, Bound
<1>2. \A r \in Requests : pc[r] \in {"quota", "serve"} => profile[r] \in Profile
  BY DEF GInv, RequestsOK, RequestOK, InProgress
<1>3. ASSUME NEW r \in Requests, CheckReportQuota(r)
      PROVE  ReportTypeOK'
  <2> DEFINE quota == MonthlyQuota[profile[r].plan]
             left == quota - CountMonthRequests(Reporter(r))
             x == [report[r] EXCEPT !.step = "quota", !.remaining = left, !.seen = Len(log),
                                    !.period = CurrentPeriod(Reporter(r))]
  <2>1. UNCHANGED quotas /\ profile[r] \in Profile
    BY <1>2, <1>3 DEF CheckReportQuota
  <2>2. CASE pc'[r] = "gate" /\ quota > 0
    <3>1. report' = [report EXCEPT ![r] = x]
      BY <1>3, <2>2 DEF CheckReportQuota, Count
    <3>2. quota \in Nat /\ CountMonthRequests(Reporter(r)) \in Nat
      BY <2>1, PolicyAssumption, CountsAreNatural DEF Profile, CountMonthRequests
    <3>3. ~(CountMonthRequests(Reporter(r)) >= quota)
      <4>1. ~Abort(r, "monthly_quota_exceeded")
        BY <2>2 DEF Abort, Goto, GInv, TypeOK
      <4>2. CheckQuota(r)
        BY <1>3, <2>2, PassedIsCounted
      <4> QED
        BY <2>2, <4>1, <4>2 DEF CheckQuota, Reporter
    <3>4. left \in Nat
      BY <3>2, <3>3
    <3>5. ReportOK(x)
      <4> HIDE DEF left
      <4> QED
        BY <1>1, <2>1, <3>4, CountedOK
    <3> HIDE DEF x
    <3> QED
      BY <2>1, <3>1, <3>5, OneReport
  <2>3. CASE ~(pc'[r] = "gate" /\ quota > 0)
    BY <1>3, <2>1, <2>3 DEF CheckReportQuota, ReportTypeOK
  <2> QED
    BY <2>2, <2>3
<1>4. ASSUME NEW r \in Requests, ReadQuota(r)
      PROVE  ReportTypeOK'
  <2> DEFINE quota == quotas[profile[r].plan]
  <2>1. profile[r] \in Profile /\ UNCHANGED quotas
    BY <1>2, <1>4 DEF ReadQuota, At
  <2>2. quota \in Nat
    BY <2>1 DEF Profile, ReportTypeOK
  <2>3. CASE quota > 0
    <3> DEFINE x == [report[r] EXCEPT !.step = "count", !.quota = quota]
    <3>1. report' = [report EXCEPT ![r] = x]
      BY <1>4, <2>3 DEF ReadQuota
    <3>2. ReportOK(x)
      BY <1>1, <2>2 DEF ReportOK, Report
    <3> HIDE DEF x
    <3> QED
      BY <2>1, <3>1, <3>2, OneReport
  <2>4. CASE ~(quota > 0)
    BY <1>4, <2>1, <2>4, NewReportOK, OneReport DEF ReadQuota
  <2> QED
    BY <2>3, <2>4
<1>5. ASSUME NEW r \in Requests, CountUsage(r)
      PROVE  ReportTypeOK'
  <2> DEFINE count == CountMonthRequests(Reporter(r))
             left == Remaining(report[r].quota, count)
             x == [report[r] EXCEPT !.step = "usage", !.remaining = left, !.seen = Len(log),
                                    !.period = CurrentPeriod(Reporter(r))]
  <2>1. profile[r] \in Profile /\ UNCHANGED quotas /\ report' = [report EXCEPT ![r] = x]
    BY <1>2, <1>5 DEF CountUsage, At, Count
  <2>2. report[r].quota \in Nat /\ count \in Nat
    BY <1>1, CountsAreNatural DEF ReportOK, Report, CountMonthRequests
  <2>3. left \in Nat /\ left \in 0 .. Bound(report[r].quota)
    BY <2>2, MaxOfTwo DEF Remaining, Bound
  <2>4. ReportOK(x)
    <3> HIDE DEF left
    <3> QED
      BY <1>1, <2>1, <2>3, CountedOK
  <2> HIDE DEF x
  <2> QED
    BY <2>1, <2>4, OneReport
<1>6. ASSUME NEW r \in Requests, Tell(r)
      PROVE  ReportTypeOK'
  <2>1. PICK lines \in Shown(profile[r].plan, Reporter(r)) :
          report' = [report EXCEPT ![r].step = "told", ![r].lines = lines]
    BY <1>6 DEF Tell
  <2> DEFINE x == [report[r] EXCEPT !.step = "told", !.lines = lines]
  <2>2. report[r].step = "usage" /\ UNCHANGED quotas /\ report' = [report EXCEPT ![r] = x]
    BY <1>6, <2>1 DEF Tell, At
  <2>3. lines \subseteq Line
    BY ShownAreLines
  <2>4. ReportOK(x)
    BY <1>1, <2>2, <2>3 DEF ReportOK, Report
  <2> HIDE DEF x
  <2> QED
    BY <2>2, <2>4, OneReport
<1>7. ASSUME NEW r \in Requests, ReportFails(r)
      PROVE  ReportTypeOK'
  BY <1>7, NewReportOK, OneReport DEF ReportFails
<1>8. ASSUME NEW p \in Plans, EditQuota(p)
      PROVE  ReportTypeOK'
  BY <1>8, EditAssumption DEF EditQuota, ReportTypeOK
<1>9. ASSUME RestartReports
      PROVE  ReportTypeOK'
  <2>1. NewReport = [NewReport EXCEPT !.step = "quota"]
    BY DEF NewReport
  <2>2. ReportOK(NewReport)
    BY <2>1, NewReportOK
  <2> QED
    BY <1>1, <1>9, <2>2 DEF RestartReports, ReportTypeOK, ReportOK, Bound
<1>10. ASSUME UNCHANGED reporting
       PROVE  ReportTypeOK'
  BY <1>10 DEF reporting, ReportTypeOK
<1> QED
  BY <1>3, <1>4, <1>5, <1>6, <1>7, <1>8, <1>9, <1>10 DEF ReportNext, AsInGateway, reportVars

(***************************************************************************)
(* A report never promises the request that it answers, nor a negative     *)
(* number, for any quotas and however an operator edits them: the header   *)
(* is sent only when the count is below the quota, and the report cuts at  *)
(* zero what it takes off.                                                 *)
(***************************************************************************)
THEOREM ReportsWellFormed == ReportSpec => []ReportTypeOK
<1>1. ReportInit => ReportTypeOK
  <2> SUFFICES ASSUME ReportInit
               PROVE  ReportTypeOK
    OBVIOUS
  <2>1. NewReport = [NewReport EXCEPT !.step = "quota"]
    BY DEF NewReport
  <2>2. ReportOK(NewReport)
    BY <2>1, NewReportOK
  <2> QED
    BY <2>2, PolicyAssumption DEF ReportInit, ReportTypeOK, ReportOK, Bound
<1>2. GInv /\ ReportTypeOK /\ [ReportNext]_reportVars => ReportTypeOK'
  BY ReportTypeKeeps
<1>3. ReportSpec => []GInv
  BY ImplementsChain, Invariant, PTL
<1> QED
  BY <1>1, <1>2, <1>3, PTL DEF ReportSpec

-----------------------------------------------------------------------------
(* What a report was counted from.                                         *)

\* The user's requests that were logged when the log had length n.
LoggedBy(u, n) == {i \in MonthRequests(u) : i <= n}

\* As long as its plan and month last, the header and later the report agree
\* with what was logged when they were counted.
Counted(r) ==
  report[r].period # NotAdmitted =>
    /\ admitted[r] # NotAdmitted
    /\ report[r].period.era <= era[Reporter(r)]
    /\ report[r].period.month <= month
    /\ report[r].period = CurrentPeriod(Reporter(r)) =>
         /\ report[r].seen <= Len(log)
         /\ report[r].step \in {"quota", "count"} =>
              report[r].remaining = MonthlyQuota[profile[r].plan]
                                      - Cardinality(LoggedBy(Reporter(r), report[r].seen))
         /\ report[r].step \in {"usage", "told"} =>
              report[r].remaining =
                Remaining(report[r].quota, Cardinality(LoggedBy(Reporter(r), report[r].seen)))

AllCounted == \A r \in Requests : Counted(r)

LEMMA LoggedByKept ==
  ASSUME GInv, [Next]_vars, NEW u \in Users, era'[u] = era[u], month' = month,
         NEW n \in Nat, n <= Len(log)
  PROVE  LoggedBy(u, n)' = LoggedBy(u, n)
<1>1. GInv'
  BY NextKeeps
<1>2. Len(log) \in Nat /\ Len(log') \in Nat /\ DOMAIN log = 1 .. Len(log)
  BY <1>1 DEF GInv, TypeOK
<1>3. /\ planFrom'[u] = planFrom[u]
      /\ monthFrom' = monthFrom
      /\ Len(log') >= Len(log)
      /\ \A i \in DOMAIN log : log'[i] = log[i] /\ profile'[log[i]] = profile[log[i]]
  BY EraStep, LogStep
<1>4. \A i \in 1 .. Len(log) : i \in MonthRequests(u)' <=> i \in MonthRequests(u)
  BY <1>2, <1>3 DEF MonthRequests
<1>5. /\ \A i \in LoggedBy(u, n)' : i \in 1 .. Len(log) /\ i \in MonthRequests(u)'
      /\ \A i \in LoggedBy(u, n) : i \in 1 .. Len(log) /\ i \in MonthRequests(u)
  BY <1>2 DEF LoggedBy, MonthRequests
<1>6. \A i \in 1 .. Len(log) : i \in LoggedBy(u, n)' <=> i \in LoggedBy(u, n)
  BY <1>4 DEF LoggedBy
<1> QED
  BY <1>5, <1>6

\* What was logged before and since are all that is counted.
LEMMA BeforeAndSince ==
  ASSUME GInv, NEW u, NEW n \in Nat
  PROVE  /\ Cardinality(LoggedBy(u, n)) \in Nat
         /\ Cardinality(LoggedSince(u, n)) \in Nat
         /\ CountMonthRequests(u) =
              Cardinality(LoggedBy(u, n)) + Cardinality(LoggedSince(u, n))
<1>1. LoggedBy(u, n) \subseteq MonthRequests(u) /\ LoggedSince(u, n) \subseteq MonthRequests(u)
  BY DEF LoggedBy, LoggedSince
<1>2. /\ IsFiniteSet(LoggedBy(u, n)) /\ Cardinality(LoggedBy(u, n)) \in Nat
      /\ IsFiniteSet(LoggedSince(u, n)) /\ Cardinality(LoggedSince(u, n)) \in Nat
  BY <1>1, CountsAreNatural
<1>3. LoggedBy(u, n) \intersect LoggedSince(u, n) = {}
  BY DEF LoggedBy, LoggedSince, MonthRequests
<1>4. LoggedBy(u, n) \union LoggedSince(u, n) = MonthRequests(u)
  BY DEF LoggedBy, LoggedSince, MonthRequests
<1>5. Cardinality(LoggedBy(u, n) \union LoggedSince(u, n)) =
        Cardinality(LoggedBy(u, n)) + Cardinality(LoggedSince(u, n))
          - Cardinality(LoggedBy(u, n) \intersect LoggedSince(u, n))
  BY <1>2, FS_Union
<1>6. Cardinality(LoggedBy(u, n) \intersect LoggedSince(u, n)) = 0
  BY <1>3, FS_EmptySet
<1>7. CountMonthRequests(u) = Cardinality(LoggedBy(u, n) \union LoggedSince(u, n))
  BY <1>4 DEF CountMonthRequests
<1> QED
  BY <1>2, <1>5, <1>6, <1>7

\* When a count is taken, all of it is what was logged before.
LEMMA CountedNow ==
  ASSUME GInv, NEW u
  PROVE  Len(log) \in Nat /\ CountMonthRequests(u) = Cardinality(LoggedBy(u, Len(log)))
<1>1. Len(log) \in Nat
  BY DEF GInv, TypeOK
<1>2. LoggedBy(u, Len(log)) = MonthRequests(u)
  BY <1>1 DEF LoggedBy, MonthRequests
<1> QED
  BY <1>1, <1>2 DEF CountMonthRequests

\* Whoever has passed the quota check keeps profile and admission.
LEMMA AdmittedStays ==
  ASSUME GInv, [Next]_vars, NEW r \in Requests, admitted[r] # NotAdmitted
  PROVE  /\ profile[r] \in Profile
         /\ pc[r] \notin {"idle", "auth", "rate", "quota"}
         /\ profile'[r] = profile[r]
         /\ admitted'[r] = admitted[r]
<1> USE DEF GInv, TypeOK
<1>1. profile[r] \in Profile /\ pc[r] \notin {"idle", "auth", "rate", "quota"}
  BY DEF RequestsOK, RequestOK
<1>2. profile'[r] = profile[r]
  BY <1>1, PassingStep
<1>3. ASSUME NEW s \in Requests, CheckQuota(s)
      PROVE  admitted'[r] = admitted[r]
  BY <1>1, <1>3 DEF CheckQuota, Admit
<1>4. CASE UNCHANGED admitted
  BY <1>1, <1>2, <1>4
<1> QED
  BY <1>1, <1>2, <1>3, <1>4 DEF Next, Chain, Arrive, Authenticate, AuthUnavailable,
     PolicyNotFound, RateLimit, QuotaUnavailable, FeatureGate, Serve, LogRequest, LogLost, Surroundings, ChangePlan,
     RotateKey, SetStatus, MinutePasses, MonthPasses, Restart, vars, request

\* The period of a report is over for good when it is over.
LEMMA PeriodPasses ==
  ASSUME GInv, [Next]_vars, NEW u \in Users, NEW p \in Period,
         p.era <= era[u], p.month <= month
  PROVE  /\ p.era <= era'[u] /\ p.month <= month'
         /\ p = CurrentPeriod(u)' => /\ p = CurrentPeriod(u)
                                     /\ era'[u] = era[u] /\ month' = month
<1>1. /\ era[u] \in Nat /\ era'[u] \in Nat /\ month \in Nat /\ month' \in Nat
      /\ p.era \in Nat /\ p.month \in Nat
  BY NextKeeps, BoundAssumption DEF GInv, TypeOK, Period
<1>2. era'[u] >= era[u] /\ month' >= month
  BY EraStep, LogStep
<1>3. p = CurrentPeriod(u)' => p.era = era'[u] /\ p.month = month'
  BY DEF CurrentPeriod
<1>4. p = [era |-> p.era, month |-> p.month]
  BY DEF Period
<1> QED
  BY <1>1, <1>2, <1>3, <1>4 DEF CurrentPeriod

\* A report that is not touched stays right, for as long as it was.
LEMMA CountedStays ==
  ASSUME GInv, ReportTypeOK, NEW r \in Requests, Counted(r), [Next]_vars,
         report'[r] = report[r]
  PROVE  Counted(r)'
<1> SUFFICES ASSUME report[r].period # NotAdmitted
             PROVE  Counted(r)'
  BY DEF Counted
<1> DEFINE u == Reporter(r)
           p == report[r].period
<1>1. /\ admitted[r] # NotAdmitted
      /\ p.era <= era[u]
      /\ p.month <= month
  BY DEF Counted
<1>2. /\ profile[r] \in Profile
      /\ profile'[r] = profile[r]
      /\ admitted'[r] = admitted[r]
  BY <1>1, AdmittedStays
<1>3. u \in Users /\ Reporter(r)' = u /\ p \in Period /\ report[r].seen \in Nat
  BY <1>2 DEF Reporter, Profile, ReportTypeOK, Report
<1>4. /\ p.era <= era'[u] /\ p.month <= month'
      /\ p = CurrentPeriod(u)' => /\ p = CurrentPeriod(u)
                                  /\ era'[u] = era[u] /\ month' = month
  BY <1>1, <1>3, PeriodPasses
<1>5. report[r].seen <= Len(log) => Len(log') >= report[r].seen
  <2>1. Len(log) \in Nat /\ Len(log') \in Nat
    BY NextKeeps DEF GInv, TypeOK
  <2> QED
    BY <1>3, <2>1, LogStep
<1>6. ASSUME p = CurrentPeriod(u)'
      PROVE  /\ p = CurrentPeriod(u)
             /\ LoggedBy(u, report[r].seen)' = LoggedBy(u, report[r].seen)
  <2>1. p = CurrentPeriod(u) /\ era'[u] = era[u] /\ month' = month
    BY <1>4, <1>6
  <2>2. report[r].seen <= Len(log)
    BY <2>1 DEF Counted
  <2>3. PICK n \in Nat : n = report[r].seen
    BY <1>3
  <2>4. LoggedBy(u, n)' = LoggedBy(u, n)
    BY <1>3, <2>1, <2>2, <2>3, LoggedByKept
  <2> QED
    BY <2>1, <2>3, <2>4
<1> QED
  BY <1>1, <1>2, <1>3, <1>4, <1>5, <1>6 DEF Counted

\* Steps that count or tell leave alone what they count.
LEMMA SameToCount ==
  ASSUME NEW r \in Requests, UNCHANGED <<month, monthFrom, era, planFrom, log, profile>>
  PROVE  /\ Reporter(r)' = Reporter(r)
         /\ CurrentPeriod(Reporter(r))' = CurrentPeriod(Reporter(r))
         /\ \A n : LoggedBy(Reporter(r), n)' = LoggedBy(Reporter(r), n)
BY DEF Reporter, CurrentPeriod, LoggedBy, MonthRequests

LEMMA CountedKeeps ==
  ASSUME GInv, ReportTypeOK, AllCounted, [ReportNext]_reportVars
  PROVE  AllCounted'
<1> SUFFICES ASSUME NEW r \in Requests
             PROVE  Counted(r)'
  BY DEF AllCounted
<1>0. [Next]_vars /\ Counted(r)
  BY ChainStep DEF AllCounted
<1>1. CASE report'[r] = report[r]
  BY <1>0, <1>1, CountedStays
<1>2. CASE report'[r].period = NotAdmitted
  BY <1>2 DEF Counted
<1>3. CASE CheckReportQuota(r) /\ report'[r] # report[r]
  <2> DEFINE quota == MonthlyQuota[profile[r].plan]
             u == Reporter(r)
  <2>1. /\ CheckQuota(r)
        /\ pc'[r] = "gate"
        /\ report' = [report EXCEPT ![r].step = "quota",
                                    ![r].remaining = quota - CountMonthRequests(u),
                                    ![r].seen = Len(log),
                                    ![r].period = CurrentPeriod(u)]
    BY <1>3, PassedIsCounted DEF CheckReportQuota, Count
  <2>2. /\ Admit(r)
        /\ pc[r] = "quota"
        /\ UNCHANGED <<month, monthFrom, era, planFrom, log, profile>>
    <3>1. ~Abort(r, "monthly_quota_exceeded")
      BY <2>1 DEF Abort, Goto, GInv, TypeOK
    <3> QED
      BY <2>1, <3>1 DEF CheckQuota, clock, periods
  <2>3. profile[r] \in Profile /\ u \in Users
    BY <2>2 DEF GInv, RequestsOK, RequestOK, InProgress, Reporter, Profile
  <2>4. CurrentPeriod(u) \in Period /\ admitted'[r] = CurrentPeriod(u) /\ CurrentPeriod(u) # NotAdmitted
    BY <2>2, <2>3, DifferentThings DEF GInv, TypeOK, Admit, CurrentPeriod, Reporter, Period
  <2>5. /\ u' = u
        /\ CurrentPeriod(u)' = CurrentPeriod(u)
        /\ \A n : LoggedBy(u, n)' = LoggedBy(u, n)
    BY <2>2, SameToCount
  <2>6. /\ report'[r].step = "quota"
        /\ report'[r].remaining = quota - CountMonthRequests(u)
        /\ report'[r].seen = Len(log)
        /\ report'[r].period = CurrentPeriod(u)
    BY <2>1 DEF ReportTypeOK, Report
  <2>7. Len(log) \in Nat /\ CountMonthRequests(u) = Cardinality(LoggedBy(u, Len(log)))
    BY CountedNow
  <2>8. CurrentPeriod(u).era = era[u] /\ CurrentPeriod(u).month = month /\ era[u] \in Nat /\ month \in Nat
    BY <2>3, BoundAssumption DEF CurrentPeriod, GInv, TypeOK
  <2> HIDE DEF u
  <2> QED
    BY <2>2, <2>4, <2>5, <2>6, <2>7, <2>8 DEF Counted, u
<1>4. CASE ReadQuota(r) /\ report'[r].period # NotAdmitted
  <2>1. /\ report[r].step = "quota"
        /\ UNCHANGED <<month, monthFrom, era, planFrom, log, profile, admitted>>
    BY <1>4 DEF ReadQuota, At, vars, clock, periods, request
  <2>2. /\ report'[r].step = "count"
        /\ report'[r].remaining = report[r].remaining
        /\ report'[r].seen = report[r].seen
        /\ report'[r].period = report[r].period
    <3>1. [NewReport EXCEPT !.step = "usage"].period = NotAdmitted
      BY DEF NewReport
    <3> QED
      BY <1>4, <3>1 DEF ReadQuota, ReportTypeOK, Report
  <2> QED
    BY <1>0, <1>4, <2>1, <2>2, SameToCount DEF Counted
<1>5. CASE CountUsage(r)
  <2> DEFINE u == Reporter(r)
  <2>1. /\ report' = [report EXCEPT
             ![r].step = "usage",
             ![r].remaining = Remaining(report[r].quota, CountMonthRequests(u)),
             ![r].seen = Len(log),
             ![r].period = CurrentPeriod(u)]
        /\ pc[r] = "serve"
        /\ UNCHANGED <<month, monthFrom, era, planFrom, log, profile, admitted>>
    BY <1>5 DEF CountUsage, Count, At, vars, clock, periods, request
  <2>2. /\ report'[r].step = "usage"
        /\ report'[r].remaining = Remaining(report[r].quota, CountMonthRequests(u))
        /\ report'[r].seen = Len(log)
        /\ report'[r].period = CurrentPeriod(u)
        /\ report'[r].quota = report[r].quota
    BY <2>1 DEF ReportTypeOK, Report
  <2>3. /\ u' = u
        /\ CurrentPeriod(u)' = CurrentPeriod(u)
        /\ \A n : LoggedBy(u, n)' = LoggedBy(u, n)
    BY <2>1, SameToCount
  <2>4. Len(log) \in Nat /\ CountMonthRequests(u) = Cardinality(LoggedBy(u, Len(log)))
    BY CountedNow
  <2>5. admitted[r] # NotAdmitted /\ u \in Users
    BY <2>1, DifferentThings DEF GInv, RequestsOK, RequestOK, InProgress, Reporter, Profile
  <2>6. /\ CurrentPeriod(u).era = era[u] /\ CurrentPeriod(u).month = month
        /\ era[u] \in Nat /\ month \in Nat
    BY <2>5, BoundAssumption DEF CurrentPeriod, GInv, TypeOK
  <2> HIDE DEF u
  <2> QED
    BY <2>1, <2>2, <2>3, <2>4, <2>5, <2>6 DEF Counted, u
<1>6. CASE Tell(r)
  <2>1. /\ report[r].step = "usage"
        /\ UNCHANGED <<month, monthFrom, era, planFrom, log, profile, admitted>>
    BY <1>6 DEF Tell, Serve, At, clock, periods, request
  <2>2. /\ report'[r].step = "told"
        /\ report'[r].remaining = report[r].remaining
        /\ report'[r].quota = report[r].quota
        /\ report'[r].seen = report[r].seen
        /\ report'[r].period = report[r].period
    BY <1>6 DEF Tell, ReportTypeOK, Report
  <2> QED
    BY <1>0, <2>1, <2>2, SameToCount DEF Counted
<1>7. ASSUME report'[r] # report[r], report'[r].period # NotAdmitted
      PROVE  CheckReportQuota(r) \/ ReadQuota(r) \/ CountUsage(r) \/ Tell(r)
  <2>1. NewReport.period = NotAdmitted /\ [NewReport EXCEPT !.step = "failed"].period = NotAdmitted
    BY DEF NewReport
  <2>2. ASSUME NEW s \in Requests \ {r}, CheckReportQuota(s) \/ ReadQuota(s) \/ CountUsage(s) \/ Tell(s)
                                          \/ ReportFails(s)
        PROVE  report'[r] = report[r]
    BY <2>2 DEF CheckReportQuota, ReadQuota, CountUsage, Tell, ReportFails, Count, ReportTypeOK
  <2>3. ~ReportFails(r)
    BY <1>7, <2>1 DEF ReportFails, ReportTypeOK
  <2>4. ~RestartReports
    BY <1>7, <2>1 DEF RestartReports
  <2>5. ~(\E p \in Plans : EditQuota(p)) /\ ~AsInGateway /\ ~UNCHANGED reportVars
    BY <1>7 DEF EditQuota, AsInGateway, reporting, reportVars
  <2> QED
    BY <1>7, <2>2, <2>3, <2>4, <2>5 DEF ReportNext
<1> QED
  BY <1>1, <1>2, <1>3, <1>4, <1>5, <1>6, <1>7

LEMMA ReportInvariant == ReportSpec => [](GInv /\ ReportTypeOK /\ AllCounted)
<1>1. ReportInit => AllCounted
  BY DEF ReportInit, AllCounted, Counted, NewReport
<1>2. GInv /\ ReportTypeOK /\ AllCounted /\ [ReportNext]_reportVars => AllCounted'
  BY CountedKeeps
<1>3. ReportSpec => []GInv
  BY ImplementsChain, Invariant, PTL
<1> QED
  BY <1>1, <1>2, <1>3, ReportsWellFormed, PTL DEF ReportSpec

LEMMA OneReportAtATime ==
  ASSUME ReportTypeOK, [ReportNext]_reportVars, NEW r \in Requests,
         report[r].step # report'[r].step
  PROVE  /\ report'[r].step = "usage" /\ report[r].step = "count" => CountUsage(r)
         /\ report'[r].step = "told" => Tell(r)
<1>1. /\ [NewReport EXCEPT !.step = "failed"].step = "failed"
      /\ [NewReport EXCEPT !.step = "usage"].step = "usage"
      /\ NewReport.step = "quota"
  BY DEF NewReport
<1>2. ASSUME NEW s \in Requests \ {r}, CheckReportQuota(s) \/ ReadQuota(s) \/ CountUsage(s) \/ Tell(s)
                                        \/ ReportFails(s)
      PROVE  report'[r] = report[r]
  BY <1>2 DEF CheckReportQuota, ReadQuota, CountUsage, Tell, ReportFails, Count, ReportTypeOK
<1>3. ReportFails(r) => report'[r].step = "failed"
  BY <1>1 DEF ReportFails, ReportTypeOK
<1>4. CheckReportQuota(r) => report'[r].step = "quota" \/ report'[r] = report[r]
  <2>1. ASSUME NEW n, Count(r, "quota", n)
        PROVE  report'[r].step = "quota"
    BY <2>1 DEF Count, ReportTypeOK, Report
  <2> QED
    BY <2>1 DEF CheckReportQuota
<1>5. ReadQuota(r) => report[r].step = "quota" /\ report'[r].step \in {"count", "usage"}
  BY <1>1 DEF ReadQuota, At, ReportTypeOK, Report
<1>6. RestartReports => report'[r].step = "quota" \/ report'[r] = report[r]
  BY <1>1 DEF RestartReports
<1>7. (\E p \in Plans : EditQuota(p)) \/ AsInGateway \/ UNCHANGED reportVars => report' = report
  BY DEF EditQuota, AsInGateway, reporting, reportVars
<1>8. CountUsage(r) => report'[r].step = "usage"
  <2>1. ASSUME NEW n, Count(r, "usage", n)
        PROVE  report'[r].step = "usage"
    BY <2>1 DEF Count, ReportTypeOK, Report
  <2> QED
    BY <2>1 DEF CountUsage
<1>9. Tell(r) => report'[r].step = "told"
  BY DEF Tell, ReportTypeOK, Report
<1> QED
  BY <1>2, <1>3, <1>4, <1>5, <1>6, <1>7, <1>8, <1>9 DEF ReportNext

LEMMA LeftOver ==
  ASSUME NEW quota \in Nat, NEW before \in Nat, NEW since \in Nat
  PROVE  Remaining(quota, before + since) = Max({0, (quota - before) - 1 - since})
<1>1. quota - (before + since) - 1 \in Int /\ (quota - before) - 1 - since \in Int
  OBVIOUS
<1>2. quota - (before + since) - 1 = (quota - before) - 1 - since
  OBVIOUS
<1>3. {quota - (before + since) - 1, 0} = {0, (quota - before) - 1 - since}
  BY <1>2
<1> QED
  BY <1>3 DEF Remaining

(***************************************************************************)
(* The header and the report are computed from two counts and two copies   *)
(* of the quota; for any quotas, edits, restarts and requests in between   *)
(* they differ by exactly this request and those logged in between.        *)
(***************************************************************************)
THEOREM HeaderIsMatched == ReportSpec => ReportMatchesHeader
<1> DEFINE Matches ==
      \A r \in Requests :
        /\ report[r].step = "count"
        /\ report'[r].step = "usage"
        /\ report[r].quota = MonthlyQuota[profile[r].plan]
        /\ report[r].period = CurrentPeriod(Reporter(r))
       => report'[r].remaining =
            Max({0, report[r].remaining - 1
                      - Cardinality(LoggedSince(Reporter(r), report[r].seen))})
<1>1. GInv /\ ReportTypeOK /\ AllCounted /\ [ReportNext]_reportVars => Matches
  <2> SUFFICES ASSUME GInv, ReportTypeOK, AllCounted, [ReportNext]_reportVars,
                      NEW r \in Requests,
                      report[r].step = "count",
                      report'[r].step = "usage",
                      report[r].quota = MonthlyQuota[profile[r].plan],
                      report[r].period = CurrentPeriod(Reporter(r))
               PROVE  report'[r].remaining =
                        Max({0, report[r].remaining - 1
                                  - Cardinality(LoggedSince(Reporter(r), report[r].seen))})
    OBVIOUS
  <2> DEFINE u == Reporter(r)
             quota == report[r].quota
             n == report[r].seen
             before == Cardinality(LoggedBy(u, n))
             since == Cardinality(LoggedSince(u, n))
  <2>1. CountUsage(r)
    BY OneReportAtATime
  <2>2. report'[r].remaining = Remaining(quota, CountMonthRequests(u))
    BY <2>1 DEF CountUsage, Count, ReportTypeOK, Report
  <2>3. quota \in Nat /\ n \in Nat
    BY DEF ReportTypeOK, Report
  <2>4. report[r].remaining = quota - before
    <3>1. profile[r] \in Profile
      BY <2>1 DEF CountUsage, At, GInv, RequestsOK, RequestOK, InProgress
    <3>2. report[r].period # NotAdmitted
      BY <3>1, DifferentThings DEF Reporter, Profile, CurrentPeriod, Period, GInv, TypeOK
    <3> QED
      BY <3>2 DEF AllCounted, Counted
  <2>5. /\ before \in Nat /\ since \in Nat
        /\ CountMonthRequests(u) = before + since
    <3> HIDE DEF n, u
    <3> QED
      BY <2>3, BeforeAndSince
  <2> HIDE DEF before, since, quota
  <2>6. report'[r].remaining = Max({0, (quota - before) - 1 - since})
    BY <2>2, <2>3, <2>5, LeftOver
  <2> QED
    BY <2>4, <2>6 DEF since
<1> QED
  BY <1>1, ReportInvariant, PTL DEF ReportSpec, ReportMatchesHeader

\* What others than r have logged since the log had length n.
OthersSince(r, u, n) == {i \in LoggedSince(u, n) : log[i] # r}

\* A request is logged once: without it, one entry less at most.
LEMMA OthersLogged ==
  ASSUME GInv, NEW u, NEW n \in Nat, NEW r
  PROVE  /\ Cardinality(OthersSince(r, u, n)) \in Nat
         /\ Cardinality(OthersSince(r, u, n)) + 1 >= Cardinality(LoggedSince(u, n))
<1> DEFINE since == LoggedSince(u, n)
           others == OthersSince(r, u, n)
<1> USE DEF OthersSince
<1>1. since \subseteq MonthRequests(u) /\ others \subseteq MonthRequests(u)
  BY DEF LoggedSince
<1>2. /\ IsFiniteSet(since) /\ Cardinality(since) \in Nat
      /\ Cardinality(others) \in Nat
  BY <1>1, CountsAreNatural
<1>3. \A i, j \in since : log[i] = log[j] => i = j
  BY Appended DEF GInv, TypeOK, LogOK, LoggedSince, MonthRequests
<1>4. CASE \E i \in since : log[i] = r
  <2>1. PICK i \in since : log[i] = r
    BY <1>4
  <2>2. others = since \ {i}
    BY <1>3, <2>1
  <2>3. Cardinality(since \ {i}) = Cardinality(since) - 1
    <3> HIDE DEF since
    <3> QED
      BY <1>2, <2>1, FS_RemoveElement
  <2> HIDE DEF since, others
  <2>4. Cardinality(others) + 1 >= Cardinality(since)
    BY <1>2, <2>2, <2>3
  <2> QED
    BY <1>2, <2>4 DEF since, others
<1>5. CASE ~ \E i \in since : log[i] = r
  <2>1. others = since
    BY <1>5
  <2> HIDE DEF since, others
  <2>2. Cardinality(others) + 1 >= Cardinality(since)
    BY <1>2, <2>1
  <2> QED
    BY <1>2, <2>2 DEF since, others
<1> QED
  BY <1>4, <1>5

\* What remains by a report, once the quota is reached, was used by others.
LEMMA PromiseKept ==
  ASSUME NEW quota \in Nat, NEW before \in Nat, NEW since \in Nat, NEW others \in Nat,
         before + since >= quota, others + 1 >= since
  PROVE  others >= Remaining(quota, before)
<1>1. quota - before - 1 \in Int
  OBVIOUS
<1>2. Remaining(quota, before) = IF quota - before - 1 >= 0 THEN quota - before - 1 ELSE 0
  BY <1>1, MaxOfTwo DEF Remaining
<1> QED
  BY <1>2

(***************************************************************************)
(* A report's promise is kept, for any quota and however many requests are *)
(* in progress: no request is refused for the quota before others than the *)
(* report itself have used up what the report said remains.                *)
(***************************************************************************)
THEOREM PromiseIsHonoured == ReportSpec => RemainingHonoured
<1> DEFINE Honoured ==
      \A q, r \in Requests :
        /\ answer[q] = "none"
        /\ answer'[q] = "monthly_quota_exceeded"
        /\ report[r].step = "told"
        /\ Reporter(q) = Reporter(r)
        /\ report[r].period = CurrentPeriod(Reporter(r))
        /\ report[r].quota = MonthlyQuota[profile[q].plan]
       => Cardinality({i \in LoggedSince(Reporter(r), report[r].seen) : log[i] # r})
            >= report[r].remaining
<1>1. GInv /\ ReportTypeOK /\ AllCounted /\ [ReportNext]_reportVars => Honoured
  <2> SUFFICES ASSUME GInv, ReportTypeOK, AllCounted, [ReportNext]_reportVars,
                      NEW q \in Requests, NEW r \in Requests,
                      answer[q] = "none",
                      answer'[q] = "monthly_quota_exceeded",
                      report[r].step = "told",
                      Reporter(q) = Reporter(r),
                      report[r].period = CurrentPeriod(Reporter(r)),
                      report[r].quota = MonthlyQuota[profile[q].plan]
               PROVE  Cardinality({i \in LoggedSince(Reporter(r), report[r].seen) : log[i] # r})
                        >= report[r].remaining
    OBVIOUS
  <2> DEFINE u == Reporter(r)
             quota == report[r].quota
             n == report[r].seen
             before == Cardinality(LoggedBy(u, n))
             since == Cardinality(LoggedSince(u, n))
             others == Cardinality(OthersSince(r, u, n))
  <2>1. CountMonthRequests(u) >= quota
    BY ChainStep, RefusedStep DEF Reporter
  <2>2. quota \in Nat /\ n \in Nat
    BY DEF ReportTypeOK, Report
  <2>3. report[r].remaining = Remaining(quota, before)
    <3>1. CASE report[r].period # NotAdmitted
      BY <3>1 DEF AllCounted, Counted
    <3>2. CASE report[r].period = NotAdmitted
      <4>1. CurrentPeriod(u).month = LastMonth + 1
        BY <3>2 DEF NotAdmitted
      <4> QED
        BY <4>1, BoundAssumption DEF CurrentPeriod, GInv, TypeOK
    <3> QED
      BY <3>1, <3>2
  <2>4. /\ before \in Nat /\ since \in Nat
        /\ CountMonthRequests(u) = before + since
        /\ others \in Nat /\ others + 1 >= since
    <3> HIDE DEF n, u
    <3>1. n \in Nat
      BY <2>2
    <3>2. /\ before \in Nat /\ since \in Nat
          /\ CountMonthRequests(u) = before + since
      BY <3>1, BeforeAndSince
    <3>3. others \in Nat /\ others + 1 >= since
      BY <3>1, OthersLogged
    <3> QED
      BY <3>2, <3>3
  <2> HIDE DEF before, since, others, quota
  <2>5. others >= Remaining(quota, before)
    BY <2>1, <2>2, <2>4, PromiseKept
  <2> QED
    BY <2>3, <2>5 DEF others, OthersSince
<1> QED
  BY <1>1, ReportInvariant, PTL DEF ReportSpec, RemainingHonoured

-----------------------------------------------------------------------------
(* The lines of a report.                                                  *)

\* The requests of u that the line of f counts, the line, and its entries.
Asked(u, f) == {i \in MonthRequests(u) : ask[log[i]].feature = f}
LineOf(u, f) == [path |-> f, count |-> Cardinality(Asked(u, f))]
Entries(lines) == UNION {{l} \X (1 .. l.count) : l \in lines}

LEMMA LinesAre ==
  ASSUME NEW u
  PROVE  /\ \A l \in Lines(u) : \E f \in Features : l = LineOf(u, f)
         /\ \A f \in Features : Asked(u, f) # {} => LineOf(u, f) \in Lines(u)
BY DEF Lines, LineOf, Asked

\* Numbering the requests that each line counts.
LEMMA Numbered ==
  ASSUME GInv, NEW u, NEW f
  PROVE  \E b \in [Asked(u, f) -> 1 .. Cardinality(Asked(u, f))] :
           /\ \A i, j \in Asked(u, f) : b[i] = b[j] => i = j
           /\ \A n \in 1 .. Cardinality(Asked(u, f)) : \E i \in Asked(u, f) : b[i] = n
<1> DEFINE A == Asked(u, f)
           c == Cardinality(A)
<1>1. IsFiniteSet(A) /\ c \in Nat
  BY CountsAreNatural DEF Asked
<1> HIDE DEF A
<1>2. IsFiniteSet(1 .. c) /\ Cardinality(1 .. c) = c
  BY <1>1, FS_Interval
<1>3. PICK b \in Bijection(A, 1 .. c) : TRUE
  BY <1>1, <1>2, FS_SameCardinalityBij DEF ExistsBijection
<1>4. /\ b \in [A -> 1 .. c]
      /\ \A i, j \in A : b[i] = b[j] => i = j
      /\ \A n \in 1 .. c : \E i \in A : b[i] = n
  BY <1>3 DEF Bijection, Injection, Surjection, IsInjective
<1> QED
  BY <1>4 DEF A

\* All lines together count every request of the month once.
LEMMA LinesCountAll ==
  ASSUME GInv, NEW u
  PROVE  LinesTotal(Lines(u)) = CountMonthRequests(u) /\ IsFiniteSet(Entries(Lines(u)))
<1> DEFINE M == MonthRequests(u)
           path(i) == ask[log[i]].feature
           P == Entries(Lines(u))
           b == [f \in Features |->
                   CHOOSE g \in [Asked(u, f) -> 1 .. Cardinality(Asked(u, f))] :
                     /\ \A i, j \in Asked(u, f) : g[i] = g[j] => i = j
                     /\ \A n \in 1 .. Cardinality(Asked(u, f)) : \E i \in Asked(u, f) : g[i] = n]
           F == [i \in M |-> <<LineOf(u, path(i)), b[path(i)][i]>>]
<1>1. IsFiniteSet(M)
  BY CountsAreNatural
<1>2. \A i \in M : path(i) \in Features /\ i \in Asked(u, path(i))
  BY Appended DEF GInv, TypeOK, MonthRequests, Asked
<1>3. \A f \in Features :
        /\ b[f] \in [Asked(u, f) -> 1 .. Cardinality(Asked(u, f))]
        /\ \A i, j \in Asked(u, f) : b[f][i] = b[f][j] => i = j
        /\ \A n \in 1 .. Cardinality(Asked(u, f)) : \E i \in Asked(u, f) : b[f][i] = n
  BY Numbered
<1>4. \A p : p \in P <=> \E f \in Features : \E n \in 1 .. Cardinality(Asked(u, f)) :
                          p = <<LineOf(u, f), n>>
  <2>1. \A f \in Features : LineOf(u, f).count = Cardinality(Asked(u, f))
    BY DEF LineOf
  <2>2. ASSUME NEW p \in P
        PROVE  \E f \in Features : \E n \in 1 .. Cardinality(Asked(u, f)) : p = <<LineOf(u, f), n>>
    <3>1. PICK l \in Lines(u) : p \in {l} \X (1 .. l.count)
      BY <2>2 DEF Entries
    <3>2. PICK f \in Features : l = LineOf(u, f)
      BY LinesAre
    <3>3. PICK n \in 1 .. l.count : p = <<l, n>>
      BY <3>1
    <3> QED
      BY <2>1, <3>2, <3>3
  <2>3. ASSUME NEW f \in Features, NEW n \in 1 .. Cardinality(Asked(u, f))
        PROVE  <<LineOf(u, f), n>> \in P
    <3>1. Asked(u, f) # {}
      BY <1>3
    <3>2. LineOf(u, f) \in Lines(u)
      BY <3>1, LinesAre
    <3>3. <<LineOf(u, f), n>> \in {LineOf(u, f)} \X (1 .. LineOf(u, f).count)
      BY <2>1
    <3> QED
      BY <3>2, <3>3 DEF Entries
  <2> HIDE DEF P
  <2> QED
    BY <2>2, <2>3
<1> HIDE DEF b, P
<1>5. F \in [M -> P]
  BY <1>2, <1>3, <1>4
<1>6. \A i, j \in M : F[i] = F[j] => i = j
  BY <1>2, <1>3 DEF LineOf
<1>7. ASSUME NEW p \in P
      PROVE  \E i \in M : F[i] = p
  <2>1. PICK f \in Features : \E n \in 1 .. Cardinality(Asked(u, f)) : p = <<LineOf(u, f), n>>
    BY <1>4
  <2>2. PICK n \in 1 .. Cardinality(Asked(u, f)) : p = <<LineOf(u, f), n>>
    BY <2>1
  <2>3. PICK i \in Asked(u, f) : b[f][i] = n
    BY <1>3
  <2>4. i \in M /\ path(i) = f
    BY DEF Asked
  <2> QED
    BY <2>2, <2>3, <2>4
<1> HIDE DEF F, M
<1>8. F \in Bijection(M, P)
  BY <1>5, <1>6, <1>7 DEF Bijection, Injection, Surjection, IsInjective
<1>9. IsFiniteSet(P) /\ Cardinality(P) = Cardinality(M)
  BY <1>1, <1>8, FS_Bijection DEF ExistsBijection
<1> QED
  BY <1>9 DEF P, M, LinesTotal, Entries, CountMonthRequests

\* Some of the lines count no more than all of them.
LEMMA LinesCountSome ==
  ASSUME GInv, NEW u, NEW lines \in SUBSET Lines(u)
  PROVE  LinesTotal(lines) \in Nat /\ LinesTotal(lines) <= CountMonthRequests(u)
<1>1. Entries(lines) \subseteq Entries(Lines(u))
  BY DEF Entries
<1>2. IsFiniteSet(Entries(Lines(u)))
  BY LinesCountAll
<1>3. /\ IsFiniteSet(Entries(lines))
      /\ Cardinality(Entries(lines)) <= Cardinality(Entries(Lines(u)))
  BY <1>1, <1>2, FS_Subset
<1>4. Cardinality(Entries(lines)) \in Nat
  BY <1>3, FS_CardinalityType
<1>5. /\ LinesTotal(lines) = Cardinality(Entries(lines))
      /\ LinesTotal(Lines(u)) = Cardinality(Entries(Lines(u)))
  BY DEF LinesTotal, Entries
<1> QED
  BY <1>3, <1>4, <1>5, LinesCountAll

(***************************************************************************)
(* The numbers of a report are counted by up to two queries between which  *)
(* requests are logged; for any requests, features and quotas, what they   *)
(* differ by is exactly what was logged between the queries.               *)
(***************************************************************************)
THEOREM PartsAddUp == ReportSpec => ReportAddsUp
<1> DEFINE AddsUp ==
      \A r \in Requests :
        LET told == report'[r]
            between == Cardinality(LoggedSince(Reporter(r), told.seen)) IN
        /\ report[r].step = "usage"
        /\ told.step = "told"
        /\ told.period = CurrentPeriod(Reporter(r))
        /\ told.remaining > 0
       => /\ told.remaining + LinesTotal(told.lines) <= told.quota - 1 + between
          /\ profile[r].plan \notin {"free", "standard"} =>
               told.remaining + LinesTotal(told.lines) = told.quota - 1 + between
<1>1. GInv /\ ReportTypeOK /\ AllCounted /\ [ReportNext]_reportVars => AddsUp
  <2> SUFFICES ASSUME GInv, ReportTypeOK, AllCounted, [ReportNext]_reportVars,
                      NEW r \in Requests,
                      report[r].step = "usage",
                      report'[r].step = "told",
                      report'[r].period = CurrentPeriod(Reporter(r)),
                      report'[r].remaining > 0
               PROVE  /\ report'[r].remaining + LinesTotal(report'[r].lines)
                           <= report'[r].quota - 1
                                + Cardinality(LoggedSince(Reporter(r), report'[r].seen))
                      /\ profile[r].plan \notin {"free", "standard"} =>
                           report'[r].remaining + LinesTotal(report'[r].lines)
                             = report'[r].quota - 1
                                 + Cardinality(LoggedSince(Reporter(r), report'[r].seen))
    OBVIOUS
  <2> DEFINE u == Reporter(r)
             quota == report[r].quota
             n == report[r].seen
             left == report[r].remaining
             before == Cardinality(LoggedBy(u, n))
             since == Cardinality(LoggedSince(u, n))
  <2>1. Tell(r)
    BY OneReportAtATime
  <2>2. PICK lines \in Shown(profile[r].plan, u) :
          report' = [report EXCEPT ![r].step = "told", ![r].lines = lines]
    BY <2>1 DEF Tell
  <2>3. /\ report'[r].remaining = left
        /\ report'[r].quota = quota
        /\ report'[r].seen = n
        /\ report'[r].period = report[r].period
        /\ report'[r].lines = lines
    BY <2>2 DEF ReportTypeOK, Report
  <2>4. quota \in Nat /\ n \in Nat /\ left \in Nat
    BY DEF ReportTypeOK, Report
  <2>5. left = Remaining(quota, before)
    <3>1. CASE report[r].period # NotAdmitted
      BY <2>3, <3>1 DEF AllCounted, Counted
    <3>2. CASE report[r].period = NotAdmitted
      <4>1. CurrentPeriod(u).month = LastMonth + 1
        BY <2>3, <3>2 DEF NotAdmitted
      <4> QED
        BY <4>1, BoundAssumption DEF CurrentPeriod, GInv, TypeOK
    <3> QED
      BY <3>1, <3>2
  <2>6. /\ before \in Nat /\ since \in Nat
        /\ CountMonthRequests(u) = before + since
    <3> HIDE DEF n, u
    <3>1. n \in Nat
      BY <2>4
    <3> QED
      BY <3>1, BeforeAndSince
  <2>7. lines \subseteq Lines(u) /\ (profile[r].plan \notin {"free", "standard"} => lines = Lines(u))
    BY <2>2 DEF Shown, TopLines
  <2> DEFINE total == LinesTotal(lines)
  <2>8. /\ total \in Nat /\ total <= CountMonthRequests(u)
        /\ lines = Lines(u) => total = CountMonthRequests(u)
    BY <2>7, LinesCountSome, LinesCountAll
  <2> HIDE DEF before, since, quota, left, total
  <2>9. left = quota - before - 1
    <3>1. left > 0
      BY <2>3
    <3>2. quota - before - 1 \in Int
      BY <2>4, <2>6
    <3>3. Max({quota - before - 1, 0}) =
            IF quota - before - 1 >= 0 THEN quota - before - 1 ELSE 0
      BY <3>2, MaxOfTwo
    <3> QED
      BY <2>4, <2>5, <2>6, <3>1, <3>2, <3>3 DEF Remaining
  <2>10. /\ left + total <= quota - 1 + since
         /\ lines = Lines(u) => left + total = quota - 1 + since
    BY <2>4, <2>6, <2>8, <2>9
  <2> QED
    BY <2>3, <2>7, <2>10 DEF since, total
<1> QED
  BY <1>1, ReportInvariant, PTL DEF ReportSpec, ReportAddsUp
=============================================================================
