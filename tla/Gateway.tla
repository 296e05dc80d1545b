------------------------------- MODULE Gateway -------------------------------
(***************************************************************************)
(* A request to /api/v1 on its way through the middleware chain of main:   *)
(* API-key authentication, rate limit, monthly quota, feature gate, the    *)
(* handler, and the request log that the quota counts.                     *)
(*                                                                         *)
(* The chain composes three parts.  Accounts and their plans and keys are  *)
(* the abstract AccountRegistry (which Accounts.tla implements): they      *)
(* change between any two steps of a request.  Counting a request against  *)
(* its rate limit is the atomic step of RateCounter (which RateLimiter.tla *)
(* implements).  The request log is the sequence of its insertions; a      *)
(* point of time (the start of a plan, the start of a month) is the        *)
(* length the log had then.                                                *)
(***************************************************************************)
EXTENDS Naturals, Sequences, FiniteSets

CONSTANTS
  Requests,    \* requests to /api/v1
  Users, Keys, \* as in AccountRegistry
  Plans,       \* plan codes in the plans table
  FirstPlans,  \* those of them that were there when the first process started
  DemoKeys,    \* the keys that the SQL script stores
  Length,      \* Keys -> characters of the key
  NoPlan,      \* the plan of an address that is not registered
  Features,    \* feature keys of the routes
  AllowedFeatures,    \* Plans -> the features of each plan
  RequestsPerMinute,  \* Plans -> the rate limit, 0 when it is not positive
  MonthlyQuota,       \* Plans -> the quota, 0 when there is none
  NoProfile,   \* the request is not authenticated
  Slots,       \* bound: requests in progress at the same time
  LastMinute,  \* bound: minutes the clock passes through
  LastMonth,   \* bound: months it passes through
  LastEra,     \* bound: plan changes of one user
  Faults       \* what may go wrong, a subset of FaultKinds

FaultKinds == {"db_error", "log_lost", "restart", "suspension"}

ASSUME PolicyAssumption ==
  /\ FirstPlans \subseteq Plans
  /\ AllowedFeatures \in [Plans -> SUBSET Features]
  /\ RequestsPerMinute \in [Plans -> Nat]
  /\ MonthlyQuota \in [Plans -> Nat]

ASSUME KeyAssumption == DemoKeys \subseteq Keys /\ Length \in [Keys -> Nat]

ASSUME BoundAssumption ==
  /\ Slots \in Nat \ {0}
  /\ {LastMinute, LastMonth, LastEra} \subseteq Nat
  /\ Faults \subseteq FaultKinds

VARIABLES
  status, plan, active, issued,  \* the accounts, see AccountRegistry
  used, passed,                  \* the rate limiter, see RateCounter
  loaded,                        \* the plans whose policies the process has loaded
  minute, month,                 \* the clock
  monthFrom,                     \* when the month began: a length of log
  era,                           \* how often each user has changed the plan
  planFrom,                      \* started_at of the active plan: a length of log
  log,                           \* api_request_logs: the requests, in order
  ask,                           \* the API key and the feature of each request
  pc,                            \* where each request is
  profile,                       \* its ClientProfile
  admitted,                      \* the era and month in which it passed the quota
  answer,                        \* what the client is told
  unlogged                       \* requests whose log entry was lost

accounts == <<status, plan, active, issued>>
limiter == <<used, passed>>
memory == <<limiter, loaded>>
clock == <<minute, month, monthFrom>>
periods == <<era, planFrom>>
request == <<profile, admitted>>
vars == <<accounts, memory, clock, periods, log, ask, pc, request, answer, unlogged>>

Registry == INSTANCE AccountRegistry
Rate == INSTANCE RateCounter WITH Buckets <- Users \X (0 .. LastMinute)

InProgress == {"auth", "rate", "quota", "gate", "serve", "log"}
PCs == InProgress \union {"idle", "done", "lost"}
Answers == {"none", "served", "invalid_api_key", "auth_unavailable", "plan_policy_not_found",
            "rate_limit_misconfigured", "rate_limit_exceeded", "quota_unavailable",
            "monthly_quota_exceeded", "feature_not_available"}

\* ClientProfile, and when it was read: the era of the plan, and the minute.
Profile ==
  [user : Users, key : Keys, plan : Plans, era : 0 .. LastEra, minute : 0 .. LastMinute]

ASSUME NoProfileAssumption == NoProfile \notin Profile

NotAdmitted == [era |-> LastEra + 1, month |-> LastMonth + 1]
Period == [era : 0 .. LastEra, month : 0 .. LastMonth]

\* Keys may have been rotated and plans changed since the SQL script ran.
Init ==
  /\ Registry!Init
  /\ DemoKeys \subseteq issued
  /\ \A u \in Users : Cardinality(active[u] \intersect DemoKeys) <= 1
  /\ Rate!Init
  /\ loaded = FirstPlans
  /\ minute = 0
  /\ month = 0
  /\ monthFrom = 0
  /\ era = [u \in Users |-> 0]
  /\ planFrom = [u \in Users |-> 0]
  /\ log = <<>>
  /\ ask \in [Requests -> [key : Keys, feature : Features]]
  /\ pc = [r \in Requests |-> "idle"]
  /\ profile = [r \in Requests |-> NoProfile]
  /\ admitted = [r \in Requests |-> NotAdmitted]
  /\ answer = [r \in Requests |-> "none"]
  /\ unlogged = {}

Current == {r \in Requests : pc[r] \in InProgress}

Goto(r, step) == pc' = [pc EXCEPT ![r] = step]

\* AbortWithStatusJSON: the answer is given and the rest of the chain skipped.
Abort(r, code) ==
  /\ answer' = [answer EXCEPT ![r] = code]
  /\ Goto(r, "done")

-----------------------------------------------------------------------------
(* The chain.                                                              *)

Arrive(r) ==
  /\ pc[r] = "idle"
  /\ Cardinality(Current) < Slots
  /\ Goto(r, "auth")
  /\ UNCHANGED <<accounts, memory, clock, periods, log, ask, request, answer, unlogged>>

\* A key is looked up by its first 16 characters, and then by its hash.
PrefixLength == 16
Text(k, n) == [key |-> k, length |-> IF Length[k] > n THEN n ELSE Length[k]]
LookedUp(k) == Text(k, PrefixLength)

\* api_keys.key_prefix: the SQL script stores the demo keys in full.
KeyPrefix(k) == IF k \in DemoKeys THEN Text(k, Length[k]) ELSE Text(k, PrefixLength)

\* Mutant: the query does not ask for k.is_active and u.status.
HoldersEver(k) == {u \in Users : k \in issued /\ plan[u] # NoPlan}

\* The users whose account the query of Authenticate joins with the key.
Holders(k) ==
  {u \in Users : k \in active[u] /\ KeyPrefix(k) = LookedUp(k) /\ status[u] = "active"}

\* Mutant: profiles are cached by key, and never dropped from the cache.
AuthenticateCached(r) ==
  LET known == {s \in Requests : profile[s] # NoProfile /\ profile[s].key = ask[r].key} IN
  /\ pc[r] = "auth"
  /\ IF known # {}
       THEN /\ \E s \in known : profile' = [profile EXCEPT ![r] = profile[s]]
            /\ Goto(r, "rate")
            /\ UNCHANGED answer
       ELSE IF Holders(ask[r].key) = {}
         THEN Abort(r, "invalid_api_key") /\ UNCHANGED profile
         ELSE /\ \E u \in Holders(ask[r].key) :
                   profile' = [profile EXCEPT ![r] =
                     [user |-> u, key |-> ask[r].key, plan |-> plan[u], era |-> era[u],
                      minute |-> minute]]
              /\ Goto(r, "rate")
              /\ UNCHANGED answer
  /\ UNCHANGED <<accounts, memory, clock, periods, log, ask, admitted, unlogged>>

\* One query reads key, user and plan; later steps use what it found.  A
\* request without a key is refused like one whose key was never issued.
Authenticate(r) ==
  /\ pc[r] = "auth"
  /\ IF Holders(ask[r].key) = {}
       THEN Abort(r, "invalid_api_key") /\ UNCHANGED profile
       ELSE /\ \E u \in Holders(ask[r].key) :
                 profile' = [profile EXCEPT ![r] =
                   [user |-> u, key |-> ask[r].key, plan |-> plan[u], era |-> era[u],
                    minute |-> minute]]
            /\ Goto(r, "rate")
            /\ UNCHANGED answer
  /\ UNCHANGED <<accounts, memory, clock, periods, log, ask, admitted, unlogged>>

AuthUnavailable(r) ==
  /\ "db_error" \in Faults
  /\ pc[r] = "auth"
  /\ Abort(r, "auth_unavailable")
  /\ UNCHANGED <<accounts, memory, clock, periods, log, ask, request, unlogged>>

\* Each of the three middlewares that decide by the plan refuses one whose
\* policy was not loaded; what the gate refuses the quota middleware logs.
PolicyNotFound(r) ==
  /\ pc[r] \in {"rate", "quota", "gate"}
  /\ profile[r].plan \notin loaded
  /\ answer' = [answer EXCEPT ![r] = "plan_policy_not_found"]
  /\ Goto(r, IF pc[r] = "gate" THEN "log" ELSE "done")
  /\ UNCHANGED <<accounts, memory, clock, periods, log, ask, request, unlogged>>

\* A request is counted in the minute it was stamped with, which may be over
\* by the time the mutex is free.
RateLimit(r) ==
  LET limit == RequestsPerMinute[profile[r].plan] IN
  /\ pc[r] = "rate"
  /\ profile[r].plan \in loaded
  /\ IF limit = 0
       THEN Abort(r, "rate_limit_misconfigured") /\ UNCHANGED limiter
       ELSE /\ \E stamp \in profile[r].minute .. minute :
                 Rate!Count(r, <<profile[r].user, stamp>>, limit)
            /\ IF passed'[r] = "next"
                 THEN Goto(r, "quota") /\ UNCHANGED answer
                 ELSE Abort(r, "rate_limit_exceeded")
  /\ UNCHANGED <<accounts, loaded, clock, periods, log, ask, request, unlogged>>

\* The log entries since the user's active plan and the month began.
MonthRequests(u) ==
  {i \in 1 .. Len(log) : i > planFrom[u] /\ i > monthFrom /\ profile[log[i]].user = u}

CountMonthRequests(u) == Cardinality(MonthRequests(u))

Admit(r) ==
  /\ admitted' = [admitted EXCEPT ![r] = [era |-> era[profile[r].user], month |-> month]]
  /\ Goto(r, "gate")

\* Mutant: > instead of >=.
CheckQuotaLate(r) ==
  LET quota == MonthlyQuota[profile[r].plan] IN
  /\ pc[r] = "quota"
  /\ profile[r].plan \in loaded
  /\ IF quota > 0 /\ CountMonthRequests(profile[r].user) > quota
       THEN Abort(r, "monthly_quota_exceeded") /\ UNCHANGED admitted
       ELSE Admit(r) /\ UNCHANGED answer
  /\ UNCHANGED <<accounts, memory, clock, periods, log, ask, profile, unlogged>>

\* Mutant: no return after the refusal, the request is logged all the same.
CheckQuotaFallsThrough(r) ==
  LET quota == MonthlyQuota[profile[r].plan] IN
  /\ pc[r] = "quota"
  /\ profile[r].plan \in loaded
  /\ IF quota > 0 /\ CountMonthRequests(profile[r].user) >= quota
       THEN /\ answer' = [answer EXCEPT ![r] = "monthly_quota_exceeded"]
            /\ Goto(r, "log")
            /\ UNCHANGED admitted
       ELSE Admit(r) /\ UNCHANGED answer
  /\ UNCHANGED <<accounts, memory, clock, periods, log, ask, profile, unlogged>>

\* The quota is that of the plan in the profile, the count is taken now.
CheckQuota(r) ==
  LET quota == MonthlyQuota[profile[r].plan] IN
  /\ pc[r] = "quota"
  /\ profile[r].plan \in loaded
  /\ IF quota > 0 /\ CountMonthRequests(profile[r].user) >= quota
       THEN Abort(r, "monthly_quota_exceeded") /\ UNCHANGED admitted
       ELSE Admit(r) /\ UNCHANGED answer
  /\ UNCHANGED <<accounts, memory, clock, periods, log, ask, profile, unlogged>>

\* The count fails or takes longer than two seconds.
QuotaUnavailable(r) ==
  /\ "db_error" \in Faults
  /\ pc[r] = "quota"
  /\ profile[r].plan \in loaded
  /\ MonthlyQuota[profile[r].plan] > 0
  /\ Abort(r, "quota_unavailable")
  /\ UNCHANGED <<accounts, memory, clock, periods, log, ask, request, unlogged>>

\* A refusal here returns into the quota middleware, which logs it.
FeatureGate(r) ==
  /\ pc[r] = "gate"
  /\ profile[r].plan \in loaded
  /\ IF ask[r].feature \in AllowedFeatures[profile[r].plan]
       THEN Goto(r, "serve") /\ UNCHANGED answer
       ELSE /\ answer' = [answer EXCEPT ![r] = "feature_not_available"]
            /\ Goto(r, "log")
  /\ UNCHANGED <<accounts, memory, clock, periods, log, ask, request, unlogged>>

\* The handler; whatever it answers, the request is logged.
Serve(r) ==
  /\ pc[r] = "serve"
  /\ answer' = [answer EXCEPT ![r] = "served"]
  /\ Goto(r, "log")
  /\ UNCHANGED <<accounts, memory, clock, periods, log, ask, request, unlogged>>

\* Mutant: an entry is written, but only for what the handler served.
LogServed(r) ==
  /\ pc[r] = "log"
  /\ log' = IF answer[r] = "served" THEN Append(log, r) ELSE log
  /\ Goto(r, "done")
  /\ UNCHANGED <<accounts, memory, clock, periods, ask, request, answer, unlogged>>

\* logRequest: the entry is stamped NOW() when it is inserted.
LogRequest(r) ==
  /\ pc[r] = "log"
  /\ log' = Append(log, r)
  /\ Goto(r, "done")
  /\ UNCHANGED <<accounts, memory, clock, periods, ask, request, answer, unlogged>>

\* The INSERT fails or takes longer than two seconds: the error is ignored.
LogLost(r) ==
  /\ "log_lost" \in Faults
  /\ pc[r] = "log"
  /\ unlogged' = unlogged \union {r}
  /\ Goto(r, "done")
  /\ UNCHANGED <<accounts, memory, clock, periods, log, ask, request, answer>>

-----------------------------------------------------------------------------
(* The rest of the system.                                                 *)

\* A plan change commits.  NOW() in it is the time its transaction began, so
\* entries logged since then already count for the new plan; of two changes
\* the one that began first may commit last.
ChangePlan(u, p) ==
  /\ era[u] < LastEra
  /\ Registry!ChangePlan(u, p)
  /\ era' = [era EXCEPT ![u] = @ + 1]
  /\ \E began \in 0 .. Len(log) : planFrom' = [planFrom EXCEPT ![u] = began]
  /\ UNCHANGED <<memory, clock, log, ask, pc, request, answer, unlogged>>

RotateKey(u, k, revoked) ==
  /\ k \notin DemoKeys
  /\ Registry!RotateKey(u, k, revoked)
  /\ UNCHANGED <<memory, clock, periods, log, ask, pc, request, answer, unlogged>>

SetStatus(u, s) ==
  /\ "suspension" \in Faults
  /\ Registry!SetStatus(u, s)
  /\ UNCHANGED <<memory, clock, periods, log, ask, pc, request, answer, unlogged>>

MinutePasses ==
  /\ minute < LastMinute
  /\ minute' = minute + 1
  /\ UNCHANGED <<accounts, memory, month, monthFrom, periods, log, ask, pc, request,
                 answer, unlogged>>

MonthPasses ==
  /\ month < LastMonth
  /\ month' = month + 1
  /\ monthFrom' = Len(log)
  /\ UNCHANGED <<accounts, memory, minute, periods, log, ask, pc, request, answer, unlogged>>

\* The process dies with what it was doing; another one loads the policies of
\* the plans that there are now, and takes over.
Restart ==
  /\ "restart" \in Faults
  /\ Current # {}
  /\ Rate!Restart
  /\ loaded' = Plans
  /\ pc' = [r \in Requests |-> IF r \in Current THEN "lost" ELSE pc[r]]
  /\ UNCHANGED <<accounts, clock, periods, log, ask, request, answer, unlogged>>

Chain(r) ==
  \/ Arrive(r)
  \/ Authenticate(r)
  \/ AuthUnavailable(r)
  \/ PolicyNotFound(r)
  \/ RateLimit(r)
  \/ CheckQuota(r)
  \/ QuotaUnavailable(r)
  \/ FeatureGate(r)
  \/ Serve(r)
  \/ LogRequest(r)
  \/ LogLost(r)

Surroundings ==
  \/ \E u \in Users :
       \/ \E p \in Plans : ChangePlan(u, p)
       \/ \E k \in Keys : \E revoked \in SUBSET active[u] : RotateKey(u, k, revoked)
       \/ \E s \in {"active", "inactive"} : SetStatus(u, s)
  \/ MinutePasses
  \/ MonthPasses

Next == (\E r \in Requests : Chain(r)) \/ Surroundings \/ Restart

Spec == Init /\ [][Next]_vars

-----------------------------------------------------------------------------
(* Properties                                                              *)

(***************************************************************************)
(* Types; a request past authentication has a profile of the user that the *)
(* key belongs to, and the log holds only requests that were admitted.     *)
(***************************************************************************)
TypeOK ==
  /\ loaded \subseteq Plans
  /\ minute \in 0 .. LastMinute
  /\ month \in 0 .. LastMonth
  /\ monthFrom \in 0 .. Len(log)
  /\ era \in [Users -> 0 .. LastEra]
  /\ planFrom \in [Users -> 0 .. Len(log)]
  /\ log \in Seq(Requests)
  /\ ask \in [Requests -> [key : Keys, feature : Features]]
  /\ pc \in [Requests -> PCs]
  /\ profile \in [Requests -> Profile \union {NoProfile}]
  /\ admitted \in [Requests -> Period \union {NotAdmitted}]
  /\ answer \in [Requests -> Answers]
  /\ unlogged \subseteq Requests
  /\ \A r \in Requests : pc[r] \in InProgress \ {"auth"} => profile[r] # NoProfile
  /\ \A i \in DOMAIN log : profile[log[i]] # NoProfile /\ admitted[log[i]] # NotAdmitted

\* Requests that passed the check of a quota of at most q in month m, while
\* the user's plan was that of era e, and that are not lost.
AdmittedIn(u, e, m, q) ==
  {r \in Requests :
    /\ profile[r] # NoProfile
    /\ profile[r].user = u
    /\ MonthlyQuota[profile[r].plan] \in 1 .. q
    /\ admitted[r] = [era |-> e, month |-> m]
    /\ r \notin unlogged
    /\ pc[r] # "lost"}

(***************************************************************************)
(* Checking the quota and logging the request are not one step, and the    *)
(* quota that is compared may be that of an earlier plan than the one that *)
(* is counted for.  So a quota can be exceeded, but only by the requests   *)
(* in progress beside the one that was admitted last: in a month and on a  *)
(* plan, at most q - 1 + Slots requests pass the check of a quota of q or  *)
(* less, whatever plan changes, key rotations and suspensions happen       *)
(* meanwhile (lost log entries apart).                                     *)
(***************************************************************************)
QuotaOvershootBounded ==
  \A u \in Users, e \in 0 .. LastEra, m \in 0 .. LastMonth, p \in Plans :
    LET quota == MonthlyQuota[p] IN
    quota > 0 => Cardinality(AdmittedIn(u, e, m, quota)) <= quota - 1 + Slots

(***************************************************************************)
(* The log is what the quota is counted from: a finished request is in it  *)
(* exactly once if the quota middleware let it pass, be it served or       *)
(* refused by the feature gate, and not at all if it was refused before.   *)
(***************************************************************************)
LoggedExactlyOnce ==
  \A r \in Requests :
    Cardinality({i \in DOMAIN log : log[i] = r}) =
      IF /\ pc[r] = "done"
         /\ answer[r] \in {"served", "feature_not_available"}
         /\ r \notin unlogged
      THEN 1 ELSE 0

(***************************************************************************)
(* Once a key is revoked, no request that has yet to be authenticated with *)
(* it is ever served, by this process or a later one.                      *)
(***************************************************************************)
Revoked(k) == k \in issued /\ \A u \in Users : k \notin active[u]

RevokedKeysAreCutOff ==
  \A r \in Requests :
    [](pc[r] \in {"idle", "auth"} /\ Revoked(ask[r].key) => [](answer[r] # "served"))

(***************************************************************************)
(* A plan change takes effect for every request that has yet to be         *)
(* authenticated: a feature that the user's plan lacks then is served only *)
(* if the user changes the plan once more.                                 *)
(***************************************************************************)
DowngradeTakesEffect ==
  \A r \in Requests, u \in Users, e \in 0 .. LastEra :
    []( /\ pc[r] \in {"idle", "auth"}
        /\ ask[r].key \in active[u]
        /\ era[u] = e
        /\ ask[r].feature \notin AllowedFeatures[plan[u]]
       => [](answer[r] = "served" => profile[r].era > e) )

(***************************************************************************)
(* README: the free plan has a "Quota: 1,000 requests/month".  A user is   *)
(* served at most as many requests in a month, on one plan, as the quota   *)
(* of that plan says.                                                      *)
(***************************************************************************)
MonthlyQuotaKept ==
  \A u \in Users, p \in Plans, m \in 0 .. LastMonth :
    MonthlyQuota[p] > 0 =>
      Cardinality({r \in Requests :
        /\ answer[r] = "served"
        /\ profile[r].user = u
        /\ profile[r].plan = p
        /\ admitted[r].month = m}) <= MonthlyQuota[p]

(***************************************************************************)
(* README, "Test with curl": a search with the header "X-API-Key:          *)
(* standard-demo-key" is allowed.  While nobody rotates keys or suspends   *)
(* accounts, the key of an active account is never called invalid.         *)
(***************************************************************************)
IssuedKeysWork ==
  \A r \in Requests : answer[r] = "invalid_api_key" =>
    \A u \in Users : status[u] = "active" => ask[r].key \notin active[u]

(***************************************************************************)
(* The comment on the analytics handler: the free plan gets the answer     *)
(* "403 feature_not_allowed" from /analytics/usage.                        *)
(***************************************************************************)
FreePlanHasNoAnalytics ==
  \A r \in Requests :
    answer[r] = "served" /\ ask[r].feature = "analytics:usage" => profile[r].plan # "free"
=============================================================================
