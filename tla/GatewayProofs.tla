---------------------------- MODULE GatewayProofs ----------------------------
(***************************************************************************)
(* Proofs about Gateway for any requests, users, keys, policies and bounds *)
(* and with every fault: types (TypeOK), the request log                   *)
(* (LoggedExactlyOnce), how far the quota can be exceeded                  *)
(* (QuotaOvershootBounded), and that revoked keys and plans that have ended*)
(* let nobody through any more (RevokedKeysAreCutOff,                      *)
(* DowngradeTakesEffect).                                                  *)
(***************************************************************************)
EXTENDS Gateway, FiniteSetTheorems, TLAPS

AccountsOK ==
  /\ status \in [Users -> {"none", "active", "inactive"}]
  /\ plan \in [Users -> Plans \union {NoPlan}]
  /\ \A u \in Users : status[u] # "none" => plan[u] \in Plans

\* The answers that the quota middleware logs.
Logging == {"served", "feature_not_available"}

\* Where a request is, and what it has been told.
RequestOK(r) ==
  /\ pc[r] \in InProgress \ {"auth"} => profile[r] \in Profile
  /\ pc[r] \in {"idle", "auth", "rate", "quota"} => admitted[r] = NotAdmitted
  /\ pc[r] \in {"gate", "serve", "log"} => admitted[r] \in Period
  /\ admitted[r] # NotAdmitted => profile[r] \in Profile /\ pc[r] # "idle"
  /\ pc[r] \in {"idle", "auth", "rate", "quota", "gate", "serve"} => answer[r] = "none"
  /\ pc[r] = "log" => answer[r] \in Logging
  /\ pc[r] = "done" => (answer[r] \in Logging <=> admitted[r] # NotAdmitted)
  /\ r \in unlogged => pc[r] = "done"
  /\ pc[r] \in {"quota", "gate"} => profile[r].plan \in loaded

RequestsOK == \A r \in Requests : RequestOK(r)

\* The log has each request that the quota middleware let pass, once.
LogOK ==
  /\ \A i \in DOMAIN log : /\ pc[log[i]] = "done"
                           /\ admitted[log[i]] # NotAdmitted
                           /\ log[i] \notin unlogged
  /\ \A i, j \in DOMAIN log : log[i] = log[j] => i = j
  /\ \A r \in Requests :
       pc[r] = "done" /\ admitted[r] # NotAdmitted /\ r \notin unlogged =>
         \E i \in DOMAIN log : log[i] = r

\* No request passed the quota check on a plan or in a month yet to come; what
\* passed it on the present one is logged after the beginning of that.
PeriodsOK ==
  /\ \A r \in Requests : admitted[r] # NotAdmitted =>
       admitted[r].era <= era[profile[r].user] /\ admitted[r].month <= month
  /\ \A i \in DOMAIN log :
       /\ admitted[log[i]].era = era[profile[log[i]].user] => i > planFrom[profile[log[i]].user]
       /\ admitted[log[i]].month = month => i > monthFrom

SlotsOK == IsFiniteSet(Current) /\ Cardinality(Current) <= Slots

GInv == TypeOK /\ AccountsOK /\ RequestsOK /\ LogOK /\ PeriodsOK /\ SlotsOK

-----------------------------------------------------------------------------
(* Steps of one request that log nothing.                                  *)

LEMMA DifferentThings == NotAdmitted \notin Period /\ NoProfile \notin Profile
BY NoProfileAssumption, BoundAssumption DEF NotAdmitted, Period

Same(s) ==
  /\ pc'[s] = pc[s]
  /\ profile'[s] = profile[s]
  /\ admitted'[s] = admitted[s]
  /\ answer'[s] = answer[s]

Quiet(r) ==
  /\ UNCHANGED <<accounts, loaded, clock, periods, log, ask, unlogged>>
  /\ pc[r] \in InProgress \union {"idle"}
  /\ pc' \in [Requests -> PCs]
  /\ profile' \in [Requests -> Profile \union {NoProfile}]
  /\ admitted' \in [Requests -> Period \union {NotAdmitted}]
  /\ answer' \in [Requests -> Answers]
  /\ \A s \in Requests \ {r} : Same(s)
  /\ RequestOK(r)'
  /\ pc'[r] = "done" => admitted'[r] = NotAdmitted
  /\ pc'[r] # "lost"
  /\ \/ admitted'[r] = NotAdmitted
     \/ admitted'[r] = admitted[r] /\ profile'[r] = profile[r]
     \/ CheckQuota(r) /\ Admit(r) /\ profile'[r] = profile[r]
  /\ pc[r] # "idle" \/ Arrive(r)

LEMMA QuietKeeps ==
  ASSUME GInv, NEW r \in Requests, Quiet(r)
  PROVE  GInv'
<1> USE DEF GInv, Quiet, Same, accounts, clock, periods
<1>1. /\ r \notin unlogged
      /\ \A i \in DOMAIN log : log[i] \in Requests \ {r}
  BY DEF RequestsOK, RequestOK, LogOK, TypeOK, InProgress
<1>2. RequestsOK'
  BY DEF RequestsOK, RequestOK
<1>3. LogOK'
  BY <1>1 DEF LogOK
<1>4. TypeOK'
  <2>1. \A s \in Requests : pc'[s] \in InProgress \ {"auth"} => profile'[s] # NoProfile
    BY <1>2, DifferentThings DEF RequestsOK, RequestOK
  <2>2. \A i \in DOMAIN log : profile'[log[i]] # NoProfile /\ admitted'[log[i]] # NotAdmitted
    BY <1>1 DEF TypeOK
  <2> QED
    BY <2>1, <2>2 DEF TypeOK
<1>5. AccountsOK'
  BY DEF AccountsOK
<1>6. PeriodsOK'
  <2>1. \/ admitted'[r] = NotAdmitted
        \/ admitted'[r] = admitted[r] /\ profile'[r] = profile[r]
        \/ /\ admitted'[r] = [era |-> era[profile[r].user], month |-> month]
           /\ profile'[r] = profile[r]
           /\ era[profile[r].user] \in Nat /\ month \in Nat
    BY BoundAssumption DEF Admit, CheckQuota, TypeOK, RequestsOK, RequestOK, InProgress,
       Profile
  <2>2. \A s \in Requests : admitted'[s] # NotAdmitted =>
          admitted'[s].era <= era[profile'[s].user] /\ admitted'[s].month <= month
    BY <2>1 DEF PeriodsOK
  <2>3. \A i \in DOMAIN log :
          /\ admitted'[log[i]].era = era[profile'[log[i]].user] =>
               i > planFrom[profile'[log[i]].user]
          /\ admitted'[log[i]].month = month => i > monthFrom
    BY <1>1 DEF PeriodsOK
  <2> QED
    BY <2>2, <2>3 DEF PeriodsOK
<1>7. SlotsOK'
  <2>1. CASE Arrive(r)
    <3>1. Cardinality(Current) < Slots /\ Current' = Current \union {r} /\ r \notin Current
      BY <2>1 DEF Arrive, Goto, Current, TypeOK, InProgress
    <3>2. /\ IsFiniteSet(Current \union {r})
          /\ Cardinality(Current \union {r}) = Cardinality(Current) + 1
          /\ Cardinality(Current) \in Nat
      BY <3>1, FS_AddElement, FS_CardinalityType DEF SlotsOK
    <3> QED
      BY <3>1, <3>2, BoundAssumption DEF SlotsOK
  <2>2. CASE pc[r] # "idle"
    <3>1. Current' \subseteq Current
      BY <2>2 DEF Current
    <3> QED
      BY <3>1, FS_Subset, FS_CardinalityType, BoundAssumption DEF SlotsOK
  <2> QED
    BY <2>1, <2>2
<1> QED
  BY <1>2, <1>3, <1>4, <1>5, <1>6, <1>7

LEMMA ArriveQuiet ==
  ASSUME GInv, NEW r \in Requests, Arrive(r)
  PROVE  Quiet(r)
BY DEF GInv, TypeOK, RequestsOK, RequestOK, Arrive, Goto, Quiet, Same, request, memory,
   InProgress, PCs

LEMMA RefuseQuiet ==
  ASSUME GInv, NEW r \in Requests, pc[r] \in {"auth", "rate", "quota"},
         NEW code \in Answers \ Logging, Abort(r, code),
         UNCHANGED <<accounts, loaded, clock, periods, log, ask, request, unlogged>>
  PROVE  Quiet(r)
BY DEF GInv, TypeOK, RequestsOK, RequestOK, Abort, Goto, Quiet, Same, request, InProgress, PCs,
   Answers

LEMMA AuthenticateQuiet ==
  ASSUME GInv, NEW r \in Requests, Authenticate(r)
  PROVE  Quiet(r)
<1>1. CASE Holders(ask[r].key) = {}
  BY <1>1, RefuseQuiet DEF Authenticate, Answers, Logging, request, memory
<1>2. CASE Holders(ask[r].key) # {}
  <2>1. PICK u \in Holders(ask[r].key) :
          profile' = [profile EXCEPT ![r] =
            [user |-> u, key |-> ask[r].key, plan |-> plan[u], era |-> era[u],
             minute |-> minute]]
    BY <1>2 DEF Authenticate
  <2>2. [user |-> u, key |-> ask[r].key, plan |-> plan[u], era |-> era[u], minute |-> minute]
          \in Profile
    BY DEF Holders, GInv, TypeOK, AccountsOK, Profile
  <2>3. /\ pc[r] = "auth" /\ pc' = [pc EXCEPT ![r] = "rate"]
        /\ UNCHANGED <<accounts, loaded, clock, periods, log, ask, unlogged, admitted, answer>>
    BY <1>2 DEF Authenticate, Goto, memory
  <2> QED
    BY <2>1, <2>2, <2>3 DEF GInv, TypeOK, RequestsOK, RequestOK, Quiet, Same, InProgress, PCs
<1> QED
  BY <1>1, <1>2

LEMMA RateLimitQuiet ==
  ASSUME GInv, NEW r \in Requests, RateLimit(r)
  PROVE  Quiet(r)
<1>1. /\ pc[r] = "rate" /\ profile[r].plan \in loaded
      /\ UNCHANGED <<accounts, loaded, clock, periods, log, ask, request, unlogged>>
      /\ \/ Abort(r, "rate_limit_misconfigured")
         \/ Abort(r, "rate_limit_exceeded")
         \/ Goto(r, "quota") /\ UNCHANGED answer
  BY DEF RateLimit
<1>2. CASE Abort(r, "rate_limit_misconfigured") \/ Abort(r, "rate_limit_exceeded")
  BY <1>1, <1>2, RefuseQuiet DEF Answers, Logging
<1>3. CASE Goto(r, "quota") /\ UNCHANGED answer
  BY <1>1, <1>3 DEF GInv, TypeOK, RequestsOK, RequestOK, Goto, Quiet, Same, request,
     InProgress, PCs
<1> QED
  BY <1>1, <1>2, <1>3

\* Behind the rate limit a policy that was loaded is still there.
LEMMA PolicyNotFoundQuiet ==
  ASSUME GInv, NEW r \in Requests, PolicyNotFound(r)
  PROVE  Quiet(r)
<1>1. pc[r] = "rate"
  BY DEF PolicyNotFound, GInv, RequestsOK, RequestOK
<1> QED
  BY <1>1, RefuseQuiet DEF PolicyNotFound, Abort, Answers, Logging, memory

LEMMA CheckQuotaQuiet ==
  ASSUME GInv, NEW r \in Requests, CheckQuota(r)
  PROVE  Quiet(r)
<1>1. CASE Abort(r, "monthly_quota_exceeded") /\ UNCHANGED admitted
  BY <1>1, RefuseQuiet DEF CheckQuota, Answers, Logging, request, memory
<1>2. CASE Admit(r) /\ UNCHANGED answer
  <2>1. [era |-> era[profile[r].user], month |-> month] \in Period
    BY DEF CheckQuota, GInv, TypeOK, RequestsOK, RequestOK, InProgress, Period, Profile
  <2>2. /\ pc[r] = "quota" /\ pc' = [pc EXCEPT ![r] = "gate"]
        /\ admitted' = [admitted EXCEPT ![r] = [era |-> era[profile[r].user], month |-> month]]
        /\ profile[r].plan \in loaded
        /\ UNCHANGED <<accounts, loaded, clock, periods, log, ask, unlogged, profile, answer>>
    BY <1>2 DEF CheckQuota, Admit, Goto, memory
  <2> QED
    BY <1>2, <2>1, <2>2 DEF GInv, TypeOK, RequestsOK, RequestOK, Quiet, Same, InProgress, PCs
<1> QED
  BY <1>1, <1>2 DEF CheckQuota

LEMMA GateQuiet ==
  ASSUME GInv, NEW r \in Requests, FeatureGate(r) \/ Serve(r)
  PROVE  Quiet(r)
BY DEF FeatureGate, Serve, GInv, TypeOK, RequestsOK, RequestOK, Goto, Quiet, Same, request,
   memory, InProgress, PCs, Answers, Logging

-----------------------------------------------------------------------------
(* The end of a request, and the rest of the system.                       *)

LEMMA Appended ==
  ASSUME NEW S, NEW q \in Seq(S), NEW x \in S
  PROVE  /\ Len(q) \in Nat
         /\ DOMAIN q = 1 .. Len(q)
         /\ \A i \in DOMAIN q : q[i] \in S
         /\ Append(q, x) \in Seq(S)
         /\ Len(Append(q, x)) = Len(q) + 1
         /\ DOMAIN Append(q, x) = (DOMAIN q) \union {Len(q) + 1}
         /\ \A i \in DOMAIN q : i < Len(q) + 1 /\ Append(q, x)[i] = q[i]
         /\ Append(q, x)[Len(q) + 1] = x
<1>1. Len(q) \in Nat /\ DOMAIN q = 1 .. Len(q)
  OBVIOUS
<1>2. Append(q, x) \in Seq(S) /\ Len(Append(q, x)) = Len(q) + 1
  OBVIOUS
<1>3. DOMAIN Append(q, x) = 1 .. Len(q) + 1
  BY <1>2
<1>4. \A i \in DOMAIN q : i < Len(q) + 1 /\ Append(q, x)[i] = q[i] /\ q[i] \in S
  BY <1>1
<1>5. Append(q, x)[Len(q) + 1] = x
  BY <1>1
<1> QED
  BY <1>1, <1>2, <1>3, <1>4, <1>5

LEMMA LogRequestKeeps ==
  ASSUME GInv, NEW r \in Requests, LogRequest(r)
  PROVE  GInv'
<1> USE DEF GInv
<1>0. /\ pc[r] = "log"
      /\ pc' = [pc EXCEPT ![r] = "done"]
      /\ log' = Append(log, r)
      /\ UNCHANGED <<status, plan, active, issued, loaded, minute, month, monthFrom, era, planFrom,
                     ask, profile, admitted, answer, unlogged>>
  BY DEF LogRequest, Goto, accounts, memory, clock, periods, request
<1>1. /\ Len(log) \in Nat
      /\ log' \in Seq(Requests)
      /\ Len(log') = Len(log) + 1
      /\ DOMAIN log' = (DOMAIN log) \union {Len(log) + 1}
      /\ \A i \in DOMAIN log : i < Len(log) + 1 /\ log'[i] = log[i] /\ log[i] \in Requests
      /\ log'[Len(log) + 1] = r
  BY <1>0, Appended DEF TypeOK
<1>2. /\ profile[r] \in Profile
      /\ admitted[r] \in Period /\ admitted[r] # NotAdmitted
      /\ answer[r] \in Logging
      /\ r \notin unlogged
  BY <1>0, DifferentThings DEF RequestsOK, RequestOK, InProgress
<1>3. \A i \in DOMAIN log : log[i] # r
  BY <1>0 DEF LogOK
<1>4. pc' \in [Requests -> PCs] /\ pc'[r] = "done" /\ \A s \in Requests \ {r} : pc'[s] = pc[s]
  BY <1>0 DEF TypeOK, PCs
<1>5. TypeOK'
  <2>1. /\ monthFrom' \in 0 .. Len(log')
        /\ planFrom' \in [Users -> 0 .. Len(log')]
    BY <1>0, <1>1 DEF TypeOK
  <2>2. \A s \in Requests : pc'[s] \in InProgress \ {"auth"} => profile'[s] # NoProfile
    BY <1>0, <1>4 DEF TypeOK, InProgress
  <2>3. \A i \in DOMAIN log' : profile'[log'[i]] # NoProfile /\ admitted'[log'[i]] # NotAdmitted
    BY <1>0, <1>1, <1>2, DifferentThings DEF TypeOK
  <2> QED
    BY <1>0, <1>1, <1>4, <2>1, <2>2, <2>3 DEF TypeOK
<1>6. AccountsOK'
  BY <1>0 DEF AccountsOK
<1>7. RequestsOK'
  BY <1>0, <1>2, <1>4 DEF RequestsOK, RequestOK, InProgress
<1>8. LogOK'
  <2>1. \A i \in DOMAIN log' : /\ pc'[log'[i]] = "done"
                               /\ admitted'[log'[i]] # NotAdmitted
                               /\ log'[i] \notin unlogged'
    BY <1>0, <1>1, <1>2, <1>4 DEF LogOK
  <2>2. \A i, j \in DOMAIN log' : log'[i] = log'[j] => i = j
    BY <1>1, <1>3 DEF LogOK
  <2>3. \A s \in Requests :
          pc'[s] = "done" /\ admitted'[s] # NotAdmitted /\ s \notin unlogged' =>
            \E i \in DOMAIN log' : log'[i] = s
    BY <1>0, <1>1, <1>4 DEF LogOK
  <2> QED
    BY <2>1, <2>2, <2>3 DEF LogOK
<1>9. PeriodsOK'
  <2>1. \A i \in DOMAIN log' :
          /\ admitted'[log'[i]].era = era'[profile'[log'[i]].user] =>
               i > planFrom'[profile'[log'[i]].user]
          /\ admitted'[log'[i]].month = month' => i > monthFrom'
    <3>1. \A i \in DOMAIN log : profile'[log'[i]] = profile[log[i]] /\ admitted'[log'[i]] = admitted[log[i]]
      BY <1>0, <1>1
    <3>2. planFrom[profile[r].user] \in 0 .. Len(log) /\ monthFrom \in 0 .. Len(log)
      BY <1>2 DEF TypeOK, Profile
    <3> QED
      BY <1>0, <1>1, <3>1, <3>2 DEF PeriodsOK
  <2> QED
    BY <1>0, <2>1 DEF PeriodsOK
<1>10. SlotsOK'
  <2>1. Current' \subseteq Current
    BY <1>4 DEF Current, InProgress
  <2> QED
    BY <2>1, FS_Subset, FS_CardinalityType, BoundAssumption DEF SlotsOK
<1> QED
  BY <1>5, <1>6, <1>7, <1>8, <1>9, <1>10

LEMMA LogLostKeeps ==
  ASSUME GInv, NEW r \in Requests, LogLost(r)
  PROVE  GInv'
<1> USE DEF GInv
<1>0. /\ pc[r] = "log"
      /\ pc' = [pc EXCEPT ![r] = "done"]
      /\ unlogged' = unlogged \union {r}
      /\ UNCHANGED <<status, plan, active, issued, loaded, minute, month, monthFrom, era, planFrom,
                     log, ask, profile, admitted, answer>>
  BY DEF LogLost, Goto, accounts, memory, clock, periods, request
<1>1. pc' \in [Requests -> PCs] /\ pc'[r] = "done" /\ \A s \in Requests \ {r} : pc'[s] = pc[s]
  BY <1>0 DEF TypeOK, PCs
<1>2. TypeOK'
  BY <1>0, <1>1 DEF TypeOK, InProgress
<1>3. AccountsOK'
  BY <1>0 DEF AccountsOK
<1>4. RequestsOK'
  BY <1>0, <1>1, DifferentThings DEF RequestsOK, RequestOK, InProgress
<1>5. LogOK'
  <2>1. \A i \in DOMAIN log : log[i] # r /\ log[i] \in Requests
    BY <1>0 DEF LogOK, TypeOK
  <2> QED
    BY <1>0, <1>1, <2>1 DEF LogOK
<1>6. PeriodsOK'
  BY <1>0 DEF PeriodsOK
<1>7. SlotsOK'
  <2>1. Current' \subseteq Current
    BY <1>1 DEF Current, InProgress
  <2> QED
    BY <2>1, FS_Subset, FS_CardinalityType, BoundAssumption DEF SlotsOK
<1> QED
  BY <1>2, <1>3, <1>4, <1>5, <1>6, <1>7

LEMMA SurroundingsKeep ==
  ASSUME GInv, Surroundings
  PROVE  GInv'
<1> USE DEF GInv
<1>0. UNCHANGED <<loaded, log, ask, pc, profile, admitted, answer, unlogged>>
  BY DEF Surroundings, ChangePlan, RotateKey, SetStatus, MinutePasses, MonthPasses, request,
     memory
<1>1. RequestsOK' /\ LogOK' /\ SlotsOK'
  BY <1>0 DEF RequestsOK, RequestOK, LogOK, SlotsOK, Current
<1>2. \A s \in Requests : profile[s] # NoProfile => profile[s] \in Profile
  BY DEF TypeOK
<1>3. \A i \in DOMAIN log : log[i] \in Requests
  BY DEF TypeOK
<1>4. \A s \in Requests : admitted[s] # NotAdmitted => admitted[s] \in Period
  BY DEF TypeOK
<1>5. ASSUME NEW u \in Users, NEW p \in Plans, ChangePlan(u, p)
      PROVE  TypeOK' /\ AccountsOK' /\ PeriodsOK'
  <2>0. PICK began \in 0 .. Len(log) : planFrom' = [planFrom EXCEPT ![u] = began]
    BY <1>5 DEF ChangePlan
  <2>1. /\ era[u] < LastEra
        /\ status[u] # "none"
        /\ plan' = [plan EXCEPT ![u] = p]
        /\ status' = status
        /\ era' = [era EXCEPT ![u] = @ + 1]
        /\ UNCHANGED <<minute, month, monthFrom>>
    BY <1>5 DEF ChangePlan, Registry!ChangePlan, clock
  <2>2. era' \in [Users -> 0 .. LastEra] /\ planFrom' \in [Users -> 0 .. Len(log)]
    BY <2>0, <2>1, BoundAssumption DEF TypeOK
  <2>3. TypeOK'
    BY <1>0, <2>1, <2>2 DEF TypeOK
  <2>4. AccountsOK'
    BY <2>1 DEF AccountsOK
  <2>5. \A s \in Requests : admitted[s] # NotAdmitted =>
          /\ profile[s].user \in Users
          /\ admitted[s].era \in Nat
          /\ admitted[s].era <= era[profile[s].user]
    BY <1>4, BoundAssumption DEF RequestsOK, RequestOK, Profile, Period, PeriodsOK
  <2>6. /\ \A v \in Users \ {u} : era'[v] = era[v] /\ planFrom'[v] = planFrom[v]
        /\ era[u] \in Nat /\ era'[u] = era[u] + 1
    BY <2>0, <2>1, BoundAssumption DEF TypeOK
  <2>7. \A s \in Requests : admitted[s] # NotAdmitted =>
          /\ admitted[s].era <= era'[profile[s].user]
          /\ profile[s].user = u => admitted[s].era # era'[u]
    <3> SUFFICES ASSUME NEW s \in Requests, admitted[s] # NotAdmitted
                 PROVE  /\ admitted[s].era <= era'[profile[s].user]
                        /\ profile[s].user = u => admitted[s].era # era'[u]
      OBVIOUS
    <3>1. CASE profile[s].user = u
      BY <2>5, <2>6, <3>1
    <3>2. CASE profile[s].user # u
      BY <2>5, <2>6, <3>2
    <3> QED
      BY <3>1, <3>2
  <2>8. \A i \in DOMAIN log :
           admitted[log[i]].era = era'[profile[log[i]].user] => i > planFrom'[profile[log[i]].user]
    <3> SUFFICES ASSUME NEW i \in DOMAIN log, admitted[log[i]].era = era'[profile[log[i]].user]
                 PROVE  i > planFrom'[profile[log[i]].user]
      OBVIOUS
    <3>1. log[i] \in Requests /\ admitted[log[i]] # NotAdmitted
      BY <1>3 DEF TypeOK
    <3>2. profile[log[i]].user \in Users \ {u}
      BY <2>5, <2>7, <3>1
    <3> QED
      BY <2>6, <3>1, <3>2 DEF PeriodsOK
  <2> QED
    BY <1>0, <2>1, <2>3, <2>4, <2>7, <2>8 DEF PeriodsOK
<1>6. ASSUME NEW u \in Users, NEW k \in Keys, NEW revoked \in SUBSET active[u],
             RotateKey(u, k, revoked)
      PROVE  TypeOK' /\ AccountsOK' /\ PeriodsOK'
  <2>1. UNCHANGED <<status, plan, minute, month, monthFrom, era, planFrom>>
    BY <1>6 DEF RotateKey, Registry!RotateKey, clock, periods
  <2> QED
    BY <1>0, <2>1 DEF TypeOK, AccountsOK, PeriodsOK
<1>7. ASSUME NEW u \in Users, NEW s \in {"active", "inactive"}, SetStatus(u, s)
      PROVE  TypeOK' /\ AccountsOK' /\ PeriodsOK'
  <2>1. /\ status[u] # "none"
        /\ status' = [status EXCEPT ![u] = s]
        /\ UNCHANGED <<plan, minute, month, monthFrom, era, planFrom>>
    BY <1>7 DEF SetStatus, Registry!SetStatus, clock, periods
  <2>2. AccountsOK'
    BY <2>1 DEF AccountsOK
  <2> QED
    BY <1>0, <2>1, <2>2 DEF TypeOK, PeriodsOK
<1>8. ASSUME MinutePasses
      PROVE  TypeOK' /\ AccountsOK' /\ PeriodsOK'
  <2>1. /\ minute < LastMinute
        /\ minute' = minute + 1
        /\ UNCHANGED <<status, plan, month, monthFrom, era, planFrom>>
    BY <1>8 DEF MinutePasses, accounts, periods
  <2>2. minute' \in 0 .. LastMinute
    BY <2>1, BoundAssumption DEF TypeOK
  <2> QED
    BY <1>0, <2>1, <2>2 DEF TypeOK, AccountsOK, PeriodsOK
<1>9. ASSUME MonthPasses
      PROVE  TypeOK' /\ AccountsOK' /\ PeriodsOK'
  <2>1. /\ month < LastMonth
        /\ month' = month + 1
        /\ monthFrom' = Len(log)
        /\ UNCHANGED <<status, plan, minute, era, planFrom>>
    BY <1>9 DEF MonthPasses, accounts, periods
  <2>2. month \in Nat /\ month' \in 0 .. LastMonth
    BY <2>1, BoundAssumption DEF TypeOK
  <2>3. Len(log) \in Nat
    BY DEF TypeOK
  <2>4. TypeOK' /\ AccountsOK'
    BY <1>0, <2>1, <2>2, <2>3 DEF TypeOK, AccountsOK
  <2>5. \A s \in Requests : admitted[s] # NotAdmitted =>
          admitted[s].month <= month' /\ admitted[s].month # month'
    <3> SUFFICES ASSUME NEW s \in Requests, admitted[s] # NotAdmitted
                 PROVE  admitted[s].month <= month' /\ admitted[s].month # month'
      OBVIOUS
    <3>1. admitted[s].month \in Nat /\ admitted[s].month <= month
      BY <1>4, BoundAssumption DEF Period, PeriodsOK
    <3> QED
      BY <2>1, <2>2, <3>1
  <2>6. \A i \in DOMAIN log : admitted[log[i]].month # month'
    BY <1>3, <2>5 DEF TypeOK
  <2> QED
    BY <1>0, <2>1, <2>4, <2>5, <2>6 DEF PeriodsOK
<1> QED
  BY <1>1, <1>5, <1>6, <1>7, <1>8, <1>9 DEF Surroundings

LEMMA RestartKeeps ==
  ASSUME GInv, Restart
  PROVE  GInv'
<1> USE DEF GInv
<1>1. /\ pc' = [r \in Requests |-> IF r \in Current THEN "lost" ELSE pc[r]]
      /\ loaded' = Plans
      /\ UNCHANGED <<status, plan, active, issued, minute, month, monthFrom, era, planFrom,
                     log, ask, profile, admitted, answer, unlogged>>
  BY DEF Restart, accounts, clock, periods, request
<1>2. \A r \in Requests : /\ pc'[r] \in PCs \ InProgress
                          /\ pc'[r] # "lost" => pc'[r] = pc[r]
                          /\ pc[r] \notin InProgress => pc'[r] = pc[r]
  BY <1>1 DEF Current, TypeOK, PCs, InProgress
<1>3. pc' \in [Requests -> PCs]
  BY <1>1, <1>2
<1>4. TypeOK'
  BY <1>1, <1>2, <1>3 DEF TypeOK
<1>5. AccountsOK' /\ PeriodsOK'
  BY <1>1 DEF AccountsOK, PeriodsOK
<1>6. RequestsOK'
  BY <1>1, <1>2 DEF RequestsOK, RequestOK, InProgress
<1>7. LogOK'
  BY <1>1, <1>2 DEF LogOK, TypeOK, InProgress
<1>8. SlotsOK'
  <2>1. Current' = {}
    BY <1>2 DEF Current
  <2> QED
    BY <2>1, FS_EmptySet, BoundAssumption DEF SlotsOK
<1> QED
  BY <1>4, <1>5, <1>6, <1>7, <1>8

-----------------------------------------------------------------------------
(* The inductive invariant, and what follows from it.                      *)

LEMMA InitOK ==
  ASSUME Init
  PROVE  GInv
<1> USE DEF Init
<1>1. log = <<>> /\ Len(log) = 0 /\ DOMAIN log = {} /\ log \in Seq(Requests)
  OBVIOUS
<1>2. TypeOK
  BY <1>1, BoundAssumption, PolicyAssumption DEF TypeOK, PCs, InProgress, Answers
<1>3. AccountsOK
  BY DEF Registry!Init, AccountsOK
<1>4. RequestsOK
  BY DEF RequestsOK, RequestOK, InProgress
<1>5. LogOK /\ PeriodsOK
  BY <1>1 DEF LogOK, PeriodsOK
<1>6. SlotsOK
  <2>1. Current = {}
    BY DEF Current, InProgress
  <2> QED
    BY <2>1, FS_EmptySet, BoundAssumption DEF SlotsOK
<1> QED
  BY <1>2, <1>3, <1>4, <1>5, <1>6 DEF GInv

LEMMA ChainKeeps ==
  ASSUME GInv, NEW r \in Requests, Chain(r)
  PROVE  GInv'
<1>1. CASE Arrive(r)
  BY <1>1, ArriveQuiet, QuietKeeps
<1>2. CASE Authenticate(r)
  BY <1>2, AuthenticateQuiet, QuietKeeps
<1>3. CASE AuthUnavailable(r)
  BY <1>3, RefuseQuiet, QuietKeeps DEF AuthUnavailable, Answers, Logging, memory
<1>4. CASE RateLimit(r)
  BY <1>4, RateLimitQuiet, QuietKeeps
<1>5. CASE CheckQuota(r)
  BY <1>5, CheckQuotaQuiet, QuietKeeps
<1>6. CASE QuotaUnavailable(r)
  BY <1>6, RefuseQuiet, QuietKeeps DEF QuotaUnavailable, Answers, Logging, memory
<1>7. CASE FeatureGate(r) \/ Serve(r)
  BY <1>7, GateQuiet, QuietKeeps
<1>8. CASE LogRequest(r)
  BY <1>8, LogRequestKeeps
<1>9. CASE LogLost(r)
  BY <1>9, LogLostKeeps
<1>10. CASE PolicyNotFound(r)
  BY <1>10, PolicyNotFoundQuiet, QuietKeeps
<1> QED
  BY <1>1, <1>2, <1>3, <1>4, <1>5, <1>6, <1>7, <1>8, <1>9, <1>10 DEF Chain

LEMMA NextKeeps ==
  ASSUME GInv, [Next]_vars
  PROVE  GInv'
<1>1. CASE \E r \in Requests : Chain(r)
  BY <1>1, ChainKeeps
<1>2. CASE Surroundings
  BY <1>2, SurroundingsKeep
<1>3. CASE Restart
  BY <1>3, RestartKeeps
<1>4. CASE UNCHANGED vars
  BY <1>4 DEF vars, accounts, memory, clock, periods, request, GInv, TypeOK, AccountsOK,
     RequestsOK,
     RequestOK, LogOK, PeriodsOK, SlotsOK, Current
<1> QED
  BY <1>1, <1>2, <1>3, <1>4 DEF Next

LEMMA Invariant == Spec => []GInv
<1>1. Init => GInv
  BY InitOK
<1>2. GInv /\ [Next]_vars => GInv'
  BY NextKeeps
<1> QED
  BY <1>1, <1>2, PTL DEF Spec

(***************************************************************************)
(* Types, with what goes with them: a request past authentication has a    *)
(* profile, and only requests that passed the quota check are logged.      *)
(***************************************************************************)
THEOREM Types == Spec => []TypeOK
<1>1. GInv => TypeOK
  BY DEF GInv
<1> QED
  BY <1>1, Invariant, PTL

(***************************************************************************)
(* Whatever fails or restarts: the log has a finished request exactly once *)
(* if the quota middleware let it pass, and never if it was refused before.*)
(***************************************************************************)
THEOREM LogIsExact == Spec => []LoggedExactlyOnce
<1>1. GInv => LoggedExactlyOnce
  <2> SUFFICES ASSUME GInv, NEW r \in Requests
               PROVE  Cardinality({i \in DOMAIN log : log[i] = r}) =
                        IF /\ pc[r] = "done"
                           /\ answer[r] \in {"served", "feature_not_available"}
                           /\ r \notin unlogged
                        THEN 1 ELSE 0
    BY DEF LoggedExactlyOnce
  <2> DEFINE at == {i \in DOMAIN log : log[i] = r}
  <2>1. CASE \E i \in DOMAIN log : log[i] = r
    <3>1. PICK i \in DOMAIN log : log[i] = r
      BY <2>1
    <3>2. at = {i}
      BY <3>1 DEF GInv, LogOK
    <3>3. pc[r] = "done" /\ answer[r] \in Logging /\ r \notin unlogged
      BY <3>1 DEF GInv, LogOK, RequestsOK, RequestOK
    <3> QED
      BY <3>2, <3>3, FS_Singleton DEF Logging
  <2>2. CASE ~ \E i \in DOMAIN log : log[i] = r
    <3>1. at = {}
      BY <2>2
    <3>2. ~(pc[r] = "done" /\ answer[r] \in Logging /\ r \notin unlogged)
      BY <2>2 DEF GInv, LogOK, RequestsOK, RequestOK
    <3> QED
      BY <3>1, <3>2, FS_EmptySet DEF Logging
  <2> QED
    BY <2>1, <2>2
<1> QED
  BY <1>1, Invariant, PTL

-----------------------------------------------------------------------------
(* How far the quota can be exceeded.                                      *)

\* The bound for one user, one plan of the user, one month and one quota.
Bounded(u, e, m, q) ==
  /\ IsFiniteSet(AdmittedIn(u, e, m, q))
  /\ Cardinality(AdmittedIn(u, e, m, q)) <= q - 1 + Slots

AllBounded ==
  \A u \in Users, e \in 0 .. LastEra, m \in 0 .. LastMonth, q \in Nat \ {0} :
    Bounded(u, e, m, q)

\* Nobody new has passed the quota check.
NoneAdmitted ==
  \A r \in Requests :
    /\ admitted'[r] # NotAdmitted => admitted'[r] = admitted[r] /\ profile'[r] = profile[r]
    /\ r \in unlogged => r \in unlogged'
    /\ pc[r] = "lost" => pc'[r] = "lost"

LEMMA NoNewKeeps ==
  ASSUME NEW u \in Users, NEW e \in 0 .. LastEra, NEW m \in 0 .. LastMonth,
         NEW q \in Nat \ {0}, Bounded(u, e, m, q),
         AdmittedIn(u, e, m, q)' \subseteq AdmittedIn(u, e, m, q)
  PROVE  Bounded(u, e, m, q)'
<1>1. /\ IsFiniteSet(AdmittedIn(u, e, m, q))
      /\ IsFiniteSet(AdmittedIn(u, e, m, q)')
      /\ Cardinality(AdmittedIn(u, e, m, q)') <= Cardinality(AdmittedIn(u, e, m, q))
  BY FS_Subset DEF Bounded
<1>2. /\ Cardinality(AdmittedIn(u, e, m, q)) \in Nat
      /\ Cardinality(AdmittedIn(u, e, m, q)') \in Nat
  BY <1>1, FS_CardinalityType
<1>3. Cardinality(AdmittedIn(u, e, m, q)) <= q - 1 + Slots
  BY DEF Bounded
<1>4. Cardinality(AdmittedIn(u, e, m, q)') <= q - 1 + Slots
  BY <1>1, <1>2, <1>3, BoundAssumption
<1> QED
  BY <1>1, <1>4 DEF Bounded

LEMMA NoneAdmittedKeeps ==
  ASSUME AllBounded, NoneAdmitted
  PROVE  AllBounded'
<1> SUFFICES ASSUME NEW u \in Users, NEW e \in 0 .. LastEra, NEW m \in 0 .. LastMonth,
                    NEW q \in Nat \ {0}
             PROVE  Bounded(u, e, m, q)'
  BY DEF AllBounded
<1>1. [era |-> e, month |-> m] # NotAdmitted
  BY DifferentThings DEF Period
<1>2. AdmittedIn(u, e, m, q)' \subseteq AdmittedIn(u, e, m, q)
  BY <1>1 DEF AdmittedIn, NoneAdmitted
<1> QED
  BY <1>2, NoNewKeeps DEF AllBounded

\* The requests of a set that are in the log are as many as their entries.
LEMMA LoggedAtMost ==
  ASSUME NEW S, NEW I, NEW q,
         IsFiniteSet(I),
         \A s \in S : \E i \in I : q[i] = s
  PROVE  IsFiniteSet(S) /\ Cardinality(S) <= Cardinality(I)
<1> DEFINE f == [s \in S |-> CHOOSE i \in I : q[i] = s]
<1>1. \A s \in S : f[s] \in I /\ q[f[s]] = s
  OBVIOUS
<1>2. f \in [S -> I]
  BY <1>1
<1>3. \A s, t \in S : f[s] = f[t] => s = t
  BY <1>1
<1>4. f \in Injection(S, I)
  BY <1>2, <1>3 DEF Injection, IsInjective
<1> QED
  BY <1>4, FS_Injection

LEMMA UnionAtMost ==
  ASSUME NEW S, IsFiniteSet(S), NEW T, IsFiniteSet(T)
  PROVE  /\ IsFiniteSet(S \union T)
         /\ Cardinality(S \union T) <= Cardinality(S) + Cardinality(T)
<1>1. IsFiniteSet(S \intersect T)
  BY FS_Subset
<1>2. /\ IsFiniteSet(S \union T)
      /\ Cardinality(S \union T) = Cardinality(S) + Cardinality(T) - Cardinality(S \intersect T)
  BY FS_Union
<1>3. /\ Cardinality(S) \in Nat
      /\ Cardinality(T) \in Nat
      /\ Cardinality(S \intersect T) \in Nat
  BY <1>1, FS_CardinalityType
<1> QED
  BY <1>2, <1>3

\* What a plan and month have admitted is either logged or in progress.
LEMMA LoggedOrCurrent ==
  ASSUME GInv, NEW u \in Users, NEW e \in 0 .. LastEra, NEW m \in 0 .. LastMonth,
         NEW q \in Nat, NEW r \in AdmittedIn(u, e, m, q), r \notin Current
  PROVE  \E i \in DOMAIN log : log[i] = r
<1>1. r \in Requests /\ admitted[r] # NotAdmitted /\ r \notin unlogged /\ pc[r] # "lost"
  BY DifferentThings DEF AdmittedIn, Period
<1>2. pc[r] \in PCs /\ pc[r] # "idle"
  BY <1>1 DEF GInv, TypeOK, RequestsOK, RequestOK
<1>3. pc[r] = "done"
  BY <1>1, <1>2 DEF PCs, Current
<1> QED
  BY <1>1, <1>3 DEF GInv, LogOK

\* Of the plan and month that are current, the quota counts every log entry.
LEMMA CountedInMonth ==
  ASSUME GInv, NEW u \in Users, NEW q \in Nat, NEW s \in AdmittedIn(u, era[u], month, q),
         NEW i \in DOMAIN log, log[i] = s
  PROVE  i \in MonthRequests(u)
<1>1. /\ profile[s].user = u
      /\ admitted[s].era = era[u]
      /\ admitted[s].month = month
  BY DEF AdmittedIn
<1>2. i > planFrom[u] /\ i > monthFrom
  BY <1>1 DEF GInv, PeriodsOK
<1>3. i \in 1 .. Len(log)
  BY Appended DEF GInv, TypeOK
<1> QED
  BY <1>1, <1>2, <1>3 DEF MonthRequests

(***************************************************************************)
(* The step that matters: a request passes the quota check, which counts   *)
(* what is logged, while others that passed it earlier are in progress.    *)
(***************************************************************************)
LEMMA AdmitKeeps ==
  ASSUME GInv, AllBounded, NEW r \in Requests, CheckQuota(r), Admit(r)
  PROVE  AllBounded'
<1> SUFFICES ASSUME NEW u \in Users, NEW e \in 0 .. LastEra, NEW m \in 0 .. LastMonth,
                    NEW q \in Nat \ {0}
             PROVE  Bounded(u, e, m, q)'
  BY DEF AllBounded
<1> USE DEF GInv
<1>1. /\ pc[r] = "quota" /\ pc' = [pc EXCEPT ![r] = "gate"]
      /\ admitted' = [admitted EXCEPT ![r] = [era |-> era[profile[r].user], month |-> month]]
      /\ UNCHANGED <<profile, unlogged>>
  BY DEF CheckQuota, Admit, Goto
<1>2. /\ profile[r] \in Profile
      /\ pc[r] # "lost"
      /\ r \in Current
  BY <1>1 DEF RequestsOK, RequestOK, InProgress, Current
<1>3. \A s \in Requests \ {r} : pc'[s] = pc[s] /\ admitted'[s] = admitted[s]
  BY <1>1 DEF TypeOK
<1>4. \A s \in AdmittedIn(u, e, m, q)' : s = r \/ s \in AdmittedIn(u, e, m, q)
  BY <1>1, <1>3 DEF AdmittedIn
<1>5. CASE r \notin AdmittedIn(u, e, m, q)'
  BY <1>4, <1>5, NoNewKeeps DEF AllBounded
<1>6. CASE r \in AdmittedIn(u, e, m, q)'
  <2> DEFINE logged == AdmittedIn(u, e, m, q) \ Current
             quota == MonthlyQuota[profile[r].plan]
  <2>1. /\ profile[r].user = u
        /\ quota \in 1 .. q
        /\ e = era[u]
        /\ m = month
    <3>1. /\ profile'[r].user = u
          /\ MonthlyQuota[profile'[r].plan] \in 1 .. q
          /\ admitted'[r] = [era |-> e, month |-> m]
      BY <1>6 DEF AdmittedIn
    <3>2. admitted'[r] = [era |-> era[profile[r].user], month |-> month]
      BY <1>1 DEF TypeOK
    <3> QED
      BY <1>1, <3>1, <3>2
  <2>2. \A s \in logged : \E i \in MonthRequests(u) : log[i] = s
    <3> SUFFICES ASSUME NEW s \in logged
                 PROVE  \E i \in MonthRequests(u) : log[i] = s
      OBVIOUS
    <3>1. PICK i \in DOMAIN log : log[i] = s
      BY LoggedOrCurrent
    <3>2. s \in AdmittedIn(u, era[u], month, q)
      BY <2>1
    <3> QED
      BY <3>1, <3>2, CountedInMonth
  <2>3. IsFiniteSet(MonthRequests(u))
    <3>1. Len(log) \in Nat
      BY DEF TypeOK
    <3>2. IsFiniteSet(1 .. Len(log))
      BY <3>1, FS_Interval
    <3>3. MonthRequests(u) \subseteq 1 .. Len(log)
      BY DEF MonthRequests
    <3> QED
      BY <3>2, <3>3, FS_Subset
  <2>4. IsFiniteSet(logged) /\ Cardinality(logged) <= CountMonthRequests(u)
    <3> HIDE DEF logged
    <3> QED
      BY <2>2, <2>3, LoggedAtMost DEF CountMonthRequests
  <2>5. IsFiniteSet(Current) /\ Cardinality(Current) <= Slots
    BY DEF SlotsOK
  <2>6. /\ IsFiniteSet(logged \union Current)
        /\ Cardinality(logged \union Current) <= Cardinality(logged) + Cardinality(Current)
    <3> HIDE DEF logged
    <3> QED
      BY <2>4, <2>5, UnionAtMost
  <2>7. AdmittedIn(u, e, m, q)' \subseteq logged \union Current
    BY <1>2, <1>4
  <2>8. /\ IsFiniteSet(AdmittedIn(u, e, m, q)')
        /\ Cardinality(AdmittedIn(u, e, m, q)') <= Cardinality(logged \union Current)
    <3> HIDE DEF logged
    <3> QED
      BY <2>6, <2>7, FS_Subset
  <2>9. ~(CountMonthRequests(u) >= quota)
    <3>1. pc'[r] = "gate"
      BY <1>1 DEF TypeOK
    <3>2. ~Abort(r, "monthly_quota_exceeded")
      BY <3>1 DEF Abort, Goto, TypeOK
    <3> QED
      BY <2>1, <3>2 DEF CheckQuota
  <2>10. /\ CountMonthRequests(u) \in Nat
         /\ Cardinality(logged) \in Nat
         /\ Cardinality(Current) \in Nat
         /\ Cardinality(logged \union Current) \in Nat
         /\ Cardinality(AdmittedIn(u, e, m, q)') \in Nat
    <3> HIDE DEF logged
    <3> QED
      BY <2>3, <2>4, <2>5, <2>6, <2>8, FS_CardinalityType DEF CountMonthRequests
  <2>11. Cardinality(AdmittedIn(u, e, m, q)') <= q - 1 + Slots
    <3> HIDE DEF logged, quota
    <3> QED
      BY <2>1, <2>4, <2>5, <2>6, <2>8, <2>9, <2>10, BoundAssumption
  <2> QED
    BY <2>8, <2>11 DEF Bounded
<1> QED
  BY <1>5, <1>6

LEMMA NextKeepsBound ==
  ASSUME GInv, AllBounded, [Next]_vars
  PROVE  AllBounded'
<1> USE DEF GInv
<1>1. ASSUME NEW r \in Requests, Chain(r), ~(CheckQuota(r) /\ Admit(r))
      PROVE  NoneAdmitted
  <2>1. CASE Authenticate(r)
    <3>1. admitted[r] = NotAdmitted
      BY <2>1 DEF Authenticate, RequestsOK, RequestOK
    <3>2. /\ UNCHANGED <<admitted, unlogged>>
          /\ \A s \in Requests \ {r} : profile'[s] = profile[s]
          /\ \A s \in Requests : pc[s] = "lost" => pc'[s] = "lost"
      BY <2>1 DEF Authenticate, Abort, Goto, TypeOK
    <3> QED
      BY <3>1, <3>2 DEF NoneAdmitted
  <2>2. CASE ~Authenticate(r)
    <3>1. UNCHANGED request /\ unlogged \subseteq unlogged'
      BY <1>1, <2>2 DEF Chain, Arrive, AuthUnavailable, PolicyNotFound, RateLimit, CheckQuota,
         QuotaUnavailable,
         FeatureGate, Serve, LogRequest, LogLost, request
    <3>2. \A s \in Requests : pc[s] = "lost" => pc'[s] = "lost"
      BY <1>1, <2>2 DEF Chain, Arrive, AuthUnavailable, PolicyNotFound, RateLimit, CheckQuota,
         QuotaUnavailable,
         FeatureGate, Serve, LogRequest, LogLost, Admit, Abort, Goto, TypeOK
    <3> QED
      BY <3>1, <3>2 DEF NoneAdmitted, request
  <2> QED
    BY <2>1, <2>2
<1>2. ASSUME Surroundings \/ Restart \/ UNCHANGED vars
      PROVE  NoneAdmitted
  <2>1. UNCHANGED request /\ UNCHANGED unlogged
    BY <1>2 DEF Surroundings, ChangePlan, RotateKey, SetStatus, MinutePasses, MonthPasses,
       Restart, vars
  <2>2. \A s \in Requests : pc[s] = "lost" => pc'[s] = "lost"
    BY <1>2 DEF Surroundings, ChangePlan, RotateKey, SetStatus, MinutePasses, MonthPasses,
       Restart, vars, Current, InProgress
  <2> QED
    BY <2>1, <2>2 DEF NoneAdmitted, request
<1> QED
  BY <1>1, <1>2, NoneAdmittedKeeps, AdmitKeeps DEF Next

(***************************************************************************)
(* For any quota and any number of concurrent requests, with plan changes, *)
(* key rotations, suspensions and restarts at any moment: in a month and   *)
(* on a plan, at most q - 1 + Slots requests pass a quota of q or less,    *)
(* whichever plan's quota they were compared with.                         *)
(***************************************************************************)
THEOREM OvershootIsBounded == Spec => []QuotaOvershootBounded
<1>1. Init => AllBounded
  <2> SUFFICES ASSUME Init, NEW u \in Users, NEW e \in 0 .. LastEra, NEW m \in 0 .. LastMonth,
                      NEW q \in Nat \ {0}
               PROVE  Bounded(u, e, m, q)
    BY DEF AllBounded
  <2>1. AdmittedIn(u, e, m, q) = {}
    BY DEF Init, AdmittedIn
  <2>2. Cardinality(AdmittedIn(u, e, m, q)) = 0 /\ IsFiniteSet(AdmittedIn(u, e, m, q))
    BY <2>1, FS_EmptySet
  <2> QED
    BY <2>2, BoundAssumption DEF Bounded
<1>2. GInv /\ AllBounded /\ [Next]_vars => AllBounded'
  BY NextKeepsBound
<1>3. AllBounded => QuotaOvershootBounded
  BY PolicyAssumption DEF AllBounded, Bounded, QuotaOvershootBounded
<1> QED
  BY <1>1, <1>2, <1>3, Invariant, PTL DEF Spec

-----------------------------------------------------------------------------
(* Keys and plans: what changes for requests yet to be authenticated.      *)

\* A key belongs to one user, and was issued.
KeysOK ==
  /\ active \in [Users -> SUBSET Keys]
  /\ \A u \in Users : active[u] \subseteq issued
  /\ \A u, v \in Users : u # v => active[u] \intersect active[v] = {}

\* A user's plan is replaced only by a plan change.
LEMMA EraStep ==
  ASSUME GInv, [Next]_vars, NEW u \in Users
  PROVE  /\ era'[u] >= era[u]
         /\ era'[u] = era[u] => plan'[u] = plan[u] /\ planFrom'[u] = planFrom[u]
<1> USE DEF GInv, TypeOK
<1>1. era[u] \in Nat
  BY BoundAssumption
<1>2. CASE UNCHANGED <<plan, periods>>
  BY <1>1, <1>2 DEF periods
<1>3. ASSUME NEW v \in Users, NEW p \in Plans, ChangePlan(v, p)
      PROVE  /\ era'[u] >= era[u]
             /\ era'[u] = era[u] => plan'[u] = plan[u] /\ planFrom'[u] = planFrom[u]
  BY <1>1, <1>3 DEF ChangePlan, Registry!ChangePlan, AccountsOK
<1> QED
  BY <1>2, <1>3 DEF Next, Chain, Arrive, Authenticate, AuthUnavailable, PolicyNotFound,
     RateLimit, CheckQuota,
     QuotaUnavailable, FeatureGate, Serve, LogRequest, LogLost, Surroundings, RotateKey,
     Registry!RotateKey, SetStatus, Registry!SetStatus, MinutePasses, MonthPasses, Restart, vars,
     accounts, periods

\* Nobody gets a key that was issued before.
LEMMA AccountsStep ==
  ASSUME GInv, KeysOK, [Next]_vars
  PROVE  /\ KeysOK'
         /\ issued \subseteq issued'
         /\ \A k \in issued, u \in Users : k \in active'[u] => k \in active[u]
         /\ ask' = ask
<1> USE DEF KeysOK
<1>1. ask' = ask
  BY DEF Next, Chain, Arrive, Authenticate, AuthUnavailable, PolicyNotFound, RateLimit,
     CheckQuota,
     QuotaUnavailable, FeatureGate, Serve, LogRequest, LogLost, Surroundings, ChangePlan,
     RotateKey, SetStatus, MinutePasses, MonthPasses, Restart, vars
<1>2. CASE UNCHANGED <<active, issued>>
  BY <1>1, <1>2
<1>3. ASSUME NEW u \in Users, NEW k \in Keys, NEW revoked \in SUBSET active[u],
             RotateKey(u, k, revoked)
      PROVE  /\ KeysOK'
             /\ issued \subseteq issued'
             /\ \A j \in issued, v \in Users : j \in active'[v] => j \in active[v]
  <2>1. /\ k \notin issued
        /\ active' = [active EXCEPT ![u] = (@ \ revoked) \union {k}]
        /\ issued' = issued \union {k}
    BY <1>3 DEF RotateKey, Registry!RotateKey
  <2>2. /\ active'[u] = (active[u] \ revoked) \union {k}
        /\ \A v \in Users \ {u} : active'[v] = active[v]
        /\ active' \in [Users -> SUBSET Keys]
    BY <2>1
  <2> QED
    BY <2>1, <2>2
<1> QED
  BY <1>1, <1>2, <1>3 DEF Next, Chain, Arrive, Authenticate, AuthUnavailable, PolicyNotFound,
     RateLimit,
     CheckQuota, QuotaUnavailable, FeatureGate, Serve, LogRequest, LogLost, Surroundings,
     ChangePlan, Registry!ChangePlan, SetStatus, Registry!SetStatus, MinutePasses, MonthPasses,
     Restart, vars, accounts

LEMMA KeysInvariant == Spec => []KeysOK
<1>1. Init => KeysOK
  BY DEF Init, Registry!Init, KeysOK
<1>2. GInv /\ KeysOK /\ [Next]_vars => KeysOK'
  BY AccountsStep
<1> QED
  BY <1>1, <1>2, Invariant, PTL DEF Spec

\* What one step makes of a request that has yet to be authenticated, or that
\* is at its end.
LEMMA WaitingStep ==
  ASSUME GInv, NEW r \in Requests, pc[r] \in {"idle", "auth"}, [Next]_vars
  PROVE  \/ pc'[r] \in {"idle", "auth", "done", "lost"} /\ answer'[r] # "served"
         \/ Authenticate(r) /\ Holders(ask[r].key) # {}
<1> USE DEF GInv, TypeOK
<1>0. answer[r] = "none"
  BY DEF RequestsOK, RequestOK
<1>1. ASSUME NEW s \in Requests \ {r}, Chain(s)
      PROVE  pc'[r] = pc[r] /\ answer'[r] = answer[r]
  BY <1>1 DEF Chain, Arrive, Authenticate, AuthUnavailable, PolicyNotFound, RateLimit,
     CheckQuota, Admit,
     QuotaUnavailable, FeatureGate, Serve, LogRequest, LogLost, Abort, Goto
<1>2. ASSUME Chain(r), ~(Authenticate(r) /\ Holders(ask[r].key) # {})
      PROVE  pc'[r] \in {"auth", "done"} /\ answer'[r] # "served"
  BY <1>0, <1>2 DEF Chain, Arrive, Authenticate, AuthUnavailable, PolicyNotFound, RateLimit,
     CheckQuota,
     QuotaUnavailable, FeatureGate, Serve, LogRequest, LogLost, Abort, Goto
<1>3. ASSUME Surroundings \/ Restart \/ UNCHANGED vars
      PROVE  pc'[r] \in {pc[r], "lost"} /\ answer'[r] = answer[r]
  BY <1>3 DEF Surroundings, ChangePlan, RotateKey, SetStatus, MinutePasses, MonthPasses,
     Restart, vars
<1> QED
  BY <1>0, <1>1, <1>2, <1>3 DEF Next

LEMMA EndedStep ==
  ASSUME GInv, NEW r \in Requests, pc[r] \in {"done", "lost"}, [Next]_vars
  PROVE  pc'[r] = pc[r] /\ answer'[r] = answer[r] /\ profile'[r] = profile[r]
<1> USE DEF GInv, TypeOK
<1>1. ASSUME NEW s \in Requests, Chain(s)
      PROVE  pc'[r] = pc[r] /\ answer'[r] = answer[r] /\ profile'[r] = profile[r]
  BY <1>1 DEF Chain, Arrive, Authenticate, AuthUnavailable, PolicyNotFound, RateLimit,
     CheckQuota, Admit,
     QuotaUnavailable, FeatureGate, Serve, LogRequest, LogLost, Abort, Goto, request
<1>2. ASSUME Surroundings \/ Restart \/ UNCHANGED vars
      PROVE  pc'[r] = pc[r] /\ answer'[r] = answer[r] /\ profile'[r] = profile[r]
  BY <1>2 DEF Surroundings, ChangePlan, RotateKey, SetStatus, MinutePasses, MonthPasses,
     Restart, vars, request, Current, InProgress
<1> QED
  BY <1>1, <1>2 DEF Next

\* Only a count that has reached the quota refuses a request for the quota.
LEMMA RefusedStep ==
  ASSUME GInv, [Next]_vars, NEW r \in Requests,
         answer[r] # "monthly_quota_exceeded", answer'[r] = "monthly_quota_exceeded"
  PROVE  CountMonthRequests(profile[r].user) >= MonthlyQuota[profile[r].plan]
<1> USE DEF GInv, TypeOK
<1>1. ASSUME NEW s \in Requests, Chain(s), ~CheckQuota(r)
      PROVE  answer'[r] # "monthly_quota_exceeded"
  BY <1>1 DEF Chain, Arrive, Authenticate, AuthUnavailable, PolicyNotFound, RateLimit,
     CheckQuota, Admit,
     QuotaUnavailable, FeatureGate, Serve, LogRequest, LogLost, Abort, Goto
<1>2. ASSUME Surroundings \/ Restart \/ UNCHANGED vars
      PROVE  answer'[r] = answer[r]
  BY <1>2 DEF Surroundings, ChangePlan, RotateKey, SetStatus, MinutePasses, MonthPasses,
     Restart, vars
<1>3. CheckQuota(r)
  BY <1>1, <1>2 DEF Next
<1> QED
  BY <1>3 DEF CheckQuota

\* Time goes on, and what was logged stays as it was.
LEMMA LogStep ==
  ASSUME GInv, [Next]_vars
  PROVE  /\ month' >= month
         /\ month' = month => monthFrom' = monthFrom
         /\ Len(log') >= Len(log)
         /\ DOMAIN log \subseteq DOMAIN log'
         /\ \A i \in DOMAIN log : log'[i] = log[i] /\ profile'[log[i]] = profile[log[i]]
<1> USE DEF GInv, TypeOK
<1>1. \A i \in DOMAIN log : profile'[log[i]] = profile[log[i]]
  <2>1. \A i \in DOMAIN log : log[i] \in Requests /\ pc[log[i]] = "done"
    BY DEF LogOK
  <2> QED
    BY <2>1, EndedStep
<1>2. /\ Len(log') >= Len(log)
      /\ DOMAIN log \subseteq DOMAIN log'
      /\ \A i \in DOMAIN log : log'[i] = log[i]
  <2>1. Len(log) \in Nat
    OBVIOUS
  <2>2. ASSUME NEW r \in Requests, log' = Append(log, r)
        PROVE  /\ Len(log') >= Len(log)
               /\ DOMAIN log \subseteq DOMAIN log'
               /\ \A i \in DOMAIN log : log'[i] = log[i]
    BY <2>1, <2>2, Appended
  <2>3. ASSUME log' = log
        PROVE  /\ Len(log') >= Len(log)
               /\ DOMAIN log \subseteq DOMAIN log'
               /\ \A i \in DOMAIN log : log'[i] = log[i]
    BY <2>1, <2>3
  <2>4. log' = log \/ \E r \in Requests : log' = Append(log, r)
    BY DEF Next, Chain, Arrive, Authenticate, AuthUnavailable, PolicyNotFound, RateLimit,
       CheckQuota,
       QuotaUnavailable, FeatureGate, Serve, LogRequest, LogLost, Surroundings, ChangePlan,
       RotateKey, SetStatus, MinutePasses, MonthPasses, Restart, vars
  <2> QED
    BY <2>2, <2>3, <2>4
<1>3. month' >= month /\ (month' = month => monthFrom' = monthFrom)
  <2>1. month \in Nat
    BY BoundAssumption
  <2>2. CASE MonthPasses
    BY <2>1, <2>2 DEF MonthPasses
  <2>3. CASE UNCHANGED <<month, monthFrom>>
    BY <2>1, <2>3
  <2> QED
    BY <2>2, <2>3 DEF Next, Chain, Arrive, Authenticate, AuthUnavailable, PolicyNotFound,
       RateLimit, CheckQuota,
       QuotaUnavailable, FeatureGate, Serve, LogRequest, LogLost, Surroundings, ChangePlan,
       RotateKey, SetStatus, MinutePasses, Restart, vars, clock
<1> QED
  BY <1>1, <1>2, <1>3

\* The request has not come past authentication, and it never will.
CutOff(r) ==
  /\ Revoked(ask[r].key)
  /\ pc[r] \in {"idle", "auth", "done", "lost"}
  /\ answer[r] # "served"

LEMMA CutOffKept ==
  ASSUME GInv, KeysOK, NEW r \in Requests, CutOff(r), [Next]_vars
  PROVE  CutOff(r)'
<1>1. Revoked(ask[r].key)'
  BY AccountsStep DEF CutOff, Revoked
<1>2. CASE pc[r] \in {"idle", "auth"}
  <2>1. Holders(ask[r].key) = {}
    BY DEF CutOff, Revoked, Holders
  <2> QED
    BY <1>1, <1>2, <2>1, WaitingStep DEF CutOff
<1>3. CASE pc[r] \in {"done", "lost"}
  BY <1>1, <1>3, EndedStep DEF CutOff
<1> QED
  BY <1>2, <1>3 DEF CutOff

(***************************************************************************)
(* A revoked key is never usable again: no rotation, by whatever user, and *)
(* no restart lets a request be served that was not authenticated with it  *)
(* before.                                                                 *)
(***************************************************************************)
THEOREM RevokedIsCutOff == Spec => RevokedKeysAreCutOff
<1> SUFFICES ASSUME NEW r \in Requests
             PROVE  Spec => [](pc[r] \in {"idle", "auth"} /\ Revoked(ask[r].key)
                                 => [](answer[r] # "served"))
  BY DEF RevokedKeysAreCutOff
<1>1. GInv /\ (pc[r] \in {"idle", "auth"} /\ Revoked(ask[r].key)) => CutOff(r)
  BY DEF GInv, RequestsOK, RequestOK, CutOff
<1>2. GInv /\ KeysOK /\ CutOff(r) /\ [Next]_vars => CutOff(r)'
  BY CutOffKept
<1>3. CutOff(r) => answer[r] # "served"
  BY DEF CutOff
<1> QED
  BY <1>1, <1>2, <1>3, Invariant, KeysInvariant, PTL DEF Spec

\* What one step makes of a request that has been authenticated.
LEMMA PassingStep ==
  ASSUME GInv, NEW r \in Requests, pc[r] \notin {"idle", "auth"}, [Next]_vars
  PROVE  /\ pc'[r] \notin {"idle", "auth"}
         /\ profile'[r] = profile[r]
         /\ pc'[r] \in InProgress => pc[r] \in InProgress
         /\ answer'[r] = "served" => answer[r] = "served" \/ pc[r] = "serve"
         /\ pc'[r] = "serve" =>
              \/ pc[r] = "serve"
              \/ pc[r] = "gate" /\ ask[r].feature \in AllowedFeatures[profile[r].plan]
<1> USE DEF GInv, TypeOK
<1>1. ASSUME NEW s \in Requests \ {r}, Chain(s)
      PROVE  pc'[r] = pc[r] /\ answer'[r] = answer[r] /\ profile'[r] = profile[r]
  BY <1>1 DEF Chain, Arrive, Authenticate, AuthUnavailable, PolicyNotFound, RateLimit,
     CheckQuota, Admit,
     QuotaUnavailable, FeatureGate, Serve, LogRequest, LogLost, Abort, Goto, request
<1>2. CASE FeatureGate(r)
  BY <1>2 DEF FeatureGate, Goto, request, InProgress
<1>3. CASE Serve(r)
  BY <1>3 DEF Serve, Goto, request, InProgress
<1>4. CASE \/ PolicyNotFound(r) \/ RateLimit(r) \/ CheckQuota(r) \/ QuotaUnavailable(r)
         \/ LogRequest(r) \/ LogLost(r)
  BY <1>4 DEF PolicyNotFound, RateLimit, CheckQuota, Admit, QuotaUnavailable, LogRequest,
     LogLost,
     Abort, Goto, request, InProgress
<1>5. ~Arrive(r) /\ ~Authenticate(r) /\ ~AuthUnavailable(r)
  BY DEF Arrive, Authenticate, AuthUnavailable
<1>6. ASSUME Surroundings \/ Restart \/ UNCHANGED vars
      PROVE  /\ pc'[r] \in {pc[r], "lost"}
             /\ answer'[r] = answer[r] /\ profile'[r] = profile[r]
  BY <1>6 DEF Surroundings, ChangePlan, RotateKey, SetStatus, MinutePasses, MonthPasses,
     Restart, vars, request
<1>7. "lost" \notin InProgress
  BY DEF InProgress
<1> QED
  BY <1>1, <1>2, <1>3, <1>4, <1>5, <1>6, <1>7 DEF Next, Chain

\* If the request belongs to u, it is not served on the plan that u has now.
Denied(r, u, e) ==
  /\ ask[r].key \in issued
  /\ \A v \in Users \ {u} : ask[r].key \notin active[v]
  /\ era[u] >= e
  /\ era[u] = e => ask[r].feature \notin AllowedFeatures[plan[u]]
  /\ pc[r] \in InProgress \ {"auth"} =>
       /\ profile[r].era >= e
       /\ profile[r].era = e => ask[r].feature \notin AllowedFeatures[profile[r].plan]
  /\ pc[r] = "serve" \/ answer[r] = "served" => profile[r].era > e

LEMMA DeniedKept ==
  ASSUME GInv, KeysOK, NEW r \in Requests, NEW u \in Users, NEW e \in 0 .. LastEra,
         Denied(r, u, e), [Next]_vars
  PROVE  Denied(r, u, e)'
<1>1. /\ ask' = ask
      /\ ask[r].key \in issued'
      /\ \A v \in Users \ {u} : ask[r].key \notin active'[v]
  BY AccountsStep DEF Denied
<1>2. era'[u] >= e /\ (era'[u] = e => ask[r].feature \notin AllowedFeatures[plan'[u]])
  <2>1. era[u] \in Nat /\ era'[u] \in Nat /\ e \in Nat
    BY NextKeeps, BoundAssumption DEF GInv, TypeOK
  <2>2. /\ era'[u] >= era[u]
        /\ era'[u] = era[u] => plan'[u] = plan[u]
    BY EraStep
  <2> QED
    BY <2>1, <2>2 DEF Denied
<1>3. CASE pc[r] \in {"idle", "auth"}
  <2>1. CASE pc'[r] \in {"idle", "auth", "done", "lost"} /\ answer'[r] # "served"
    BY <1>1, <1>2, <2>1 DEF Denied, InProgress
  <2>2. CASE Authenticate(r) /\ Holders(ask[r].key) # {}
    <3>1. PICK v \in Holders(ask[r].key) :
            profile' = [profile EXCEPT ![r] =
              [user |-> v, key |-> ask[r].key, plan |-> plan[v], era |-> era[v],
               minute |-> minute]]
      BY <2>2 DEF Authenticate
    <3>2. v = u
      BY DEF Holders, Denied
    <3>3. profile'[r].era = era[u] /\ profile'[r].plan = plan[u]
      BY <3>1, <3>2 DEF GInv, TypeOK
    <3>4. pc'[r] = "rate" /\ answer'[r] = "none"
      BY <2>2 DEF Authenticate, Goto, GInv, TypeOK, RequestsOK, RequestOK
    <3> QED
      BY <1>1, <1>2, <3>3, <3>4 DEF Denied
  <2> QED
    BY <1>3, <2>1, <2>2, WaitingStep
<1>4. CASE pc[r] \notin {"idle", "auth"}
  <2>1. /\ pc'[r] \notin {"idle", "auth"}
        /\ profile'[r] = profile[r]
        /\ pc'[r] \in InProgress => pc[r] \in InProgress
        /\ answer'[r] = "served" => answer[r] = "served" \/ pc[r] = "serve"
        /\ pc'[r] = "serve" =>
             \/ pc[r] = "serve"
             \/ pc[r] = "gate" /\ ask[r].feature \in AllowedFeatures[profile[r].plan]
    BY <1>4, PassingStep
  <2>2. ASSUME pc[r] = "gate", ask[r].feature \in AllowedFeatures[profile[r].plan]
        PROVE  profile[r].era > e
    <3>1. profile[r].era \in Nat /\ e \in Nat
      BY <2>2, BoundAssumption DEF GInv, RequestsOK, RequestOK, InProgress, Profile
    <3>2. profile[r].era >= e /\ profile[r].era # e
      BY <2>2 DEF Denied, InProgress
    <3> QED
      BY <3>1, <3>2
  <2> QED
    BY <1>1, <1>2, <1>4, <2>1, <2>2 DEF Denied
<1> QED
  BY <1>3, <1>4

(***************************************************************************)
(* Whatever happens between authentication and the feature gate: a feature *)
(* that the plan of the key's owner lacks is not served to a request yet   *)
(* to be authenticated, unless the owner changes the plan once more.       *)
(***************************************************************************)
THEOREM DowngradeIsEffective == Spec => DowngradeTakesEffect
<1> SUFFICES ASSUME NEW r \in Requests, NEW u \in Users, NEW e \in 0 .. LastEra
             PROVE  Spec => []( /\ pc[r] \in {"idle", "auth"}
                                /\ ask[r].key \in active[u]
                                /\ era[u] = e
                                /\ ask[r].feature \notin AllowedFeatures[plan[u]]
                               => [](answer[r] = "served" => profile[r].era > e) )
  BY DEF DowngradeTakesEffect
<1>1. GInv /\ KeysOK /\ ( /\ pc[r] \in {"idle", "auth"}
                          /\ ask[r].key \in active[u]
                          /\ era[u] = e
                          /\ ask[r].feature \notin AllowedFeatures[plan[u]] )
        => Denied(r, u, e)
  <2> SUFFICES ASSUME GInv, KeysOK, pc[r] \in {"idle", "auth"}, ask[r].key \in active[u],
                      era[u] = e, ask[r].feature \notin AllowedFeatures[plan[u]]
               PROVE  Denied(r, u, e)
    OBVIOUS
  <2>1. /\ ask[r].key \in issued
        /\ \A v \in Users \ {u} : ask[r].key \notin active[v]
    BY DEF KeysOK
  <2>2. era[u] >= e
    BY BoundAssumption
  <2>3. answer[r] = "none" /\ pc[r] \notin InProgress \ {"auth"} /\ pc[r] # "serve"
    BY DEF GInv, RequestsOK, RequestOK, InProgress
  <2> QED
    BY <2>1, <2>2, <2>3 DEF Denied
<1>2. GInv /\ KeysOK /\ Denied(r, u, e) /\ [Next]_vars => Denied(r, u, e)'
  BY DeniedKept
<1>3. Denied(r, u, e) => (answer[r] = "served" => profile[r].era > e)
  BY DEF Denied
<1> QED
  BY <1>1, <1>2, <1>3, Invariant, KeysInvariant, PTL DEF Spec
=============================================================================
