# Comic Provider API: TLA+ models, checks and proofs

The backend under `src/backend` is a Go service over PostgreSQL: it sells access to a
comic catalog by plan (free, standard, premium), with API keys, a rate limit per minute, a
request quota per month and features per plan. This directory models the parts of it that
keep state or decide something, checks the models with TLC on small instances, and proves
some of the results with TLAPS for all instances. `PROJECT.json` maps every definition to
the lines of code it stands for.

## The system

| Component | Code | State | Operations |
| --- | --- | --- | --- |
| Account service | `service/auth_service.go`, `handler/auth_handler.go` | tables `users`, `user_plans`, `api_keys` | register, login, issue an API key, change the plan |
| Schema and seeds | `database/001_init_postgres.sql` | all tables, unique indexes, demo accounts, plans | – |
| Access service, API-key middleware | `service/access_service.go`, `middleware/apikey.go` | the profile in the request's context; plan policies loaded at start-up | authenticate a request |
| Rate limiter | `middleware/rate_limit.go` | a map of counters in memory, a mutex | count a request in its minute, refuse with 429 |
| Monthly quota | `middleware/monthly_quota.go` | table `api_request_logs` | count, refuse with 429, log afterwards |
| Feature gate | `middleware/feature_gate.go` | – | refuse with 403 |
| Comic catalog | `handler/comic_handler.go`, `usecase/comic_usecase.go`, `repository/postgres_comic_repository.go` | tables `comics`, `comic_categories`, `chapters` (read only) | list, search, detail, chapters, recommend |
| Usage analytics | `handler/analytics_handler.go`, `usecase/…`, `repository/…` | reads `plans`, `user_plans`, `api_request_logs` | one report, in two or three queries |
| Start-up and routing | `cmd/main.go`, `LoadPlanPolicies` | plan policies in memory, read once from `plans` and `plan_features` | connect, load, serve, or end |
| Connection pool | `storage/postgres.go` | ten connections, a queue | acquire, release |
| Health check, JSON helpers, generated docs | `handler/health_handler.go`, `handler/http.go`, `docs/` | – | – |

How they interact. A request to `/auth/*` runs a handler of the account service, which
reads with single statements and writes in one transaction. A request to `/api/v1/*` runs
through API key → rate limit → quota → feature gate → handler; the quota middleware wraps
what comes after it and inserts the log entry once the handler has returned. The chain
communicates by the profile that authentication stores (client, key, plan): everything
later decides by that plan, and only the quota's count and the report look at the database
again. Every HTTP request has its goroutine. They share the rate limiter's map, the plan
policies (which nobody writes after start-up), and the connection pool.

What is hard. Concurrent account calls on one user's rows (row locks, unique indexes,
READ COMMITTED re-checks, deadlocks); errors, lost acknowledgements and crashes inside a
transaction; the unlocked steps around the rate limiter's critical section, minute
boundaries and restarts; check-then-act on the quota; plans, keys and accounts that change
while requests carry an older profile; reports, pages and two-query operations over tables
that change between the queries; transactions that wait for locks with a connection in hand;
a start that reads its policies row by row. `PROJECT.json` lists these hazards line by line,
with the properties that cover each.

What makes each component correct:

- accounts: a registered user has exactly one active plan and always a key; a registration
  is stored whole, once per address, or not at all; an acknowledged rotation has revoked
  the old keys; answers agree with the tables, and what a call has read before its transaction
  was true while it ran; a suspension stops every later call; every call ends;
- rate limiter: one process lets no more requests of a client and minute through than the
  limit, and refuses none while the limit is not used up;
- quota: the log has exactly the admitted requests, so that the quota can be exceeded by
  no more than the requests in progress;
- authentication and gate: revocation and plan changes hold for every request not yet
  authenticated;
- analytics: a report agrees with the quota header, with later refusals, and its parts with
  each other, but for what was logged between its queries;
- start-up: the process serves by whole policies of one moment, or ends;
- pool: connections are in the hands of running requests only, every request ends though all
  may wait for each other's rows;
- catalog: a search honours, to the letter, every parameter that no other one overrules, and the
  page number, or is refused; pages lose and repeat no more than concurrent edits explain; deleted comics stay hidden.

## The modules

| Module | What it is |
| --- | --- |
| `AccountRegistry` | abstract specification of the account endpoints: every call is one atomic step |
| `Accounts` | the account endpoints statement by statement, with locks and faults |
| `AccountsHistory` | `Accounts` with a history of each user's account while a call runs |
| `AccountsProofs`, `AccountsRowsProofs` | proofs about `Accounts`: types and plans; rows, keys and answers |
| `AccountsRefinement` | proof that `Accounts` implements `AccountRegistry`, and proofs about `AccountsHistory` |
| `RateCounter` | abstract counter: a request is counted and judged in one step |
| `RateLimiter` | the rate-limit middleware, step by step, with mutex, clock, restarts |
| `RateLimiterProofs` | proofs about `RateLimiter`, and that it implements `RateCounter` |
| `Gateway` | the middleware chain and the request log; composes `AccountRegistry` and `RateCounter` |
| `GatewayProofs` | proofs about `Gateway`: types, the log, the bound on the quota's overshoot, revoked keys, downgrades |
| `Analytics` | the usage report query by query, in place of the step `Serve` of `Gateway` |
| `AnalyticsProofs` | proofs about `Analytics`: reports agree with the header, with refusals and in their parts |
| `Startup` | from the start of the process to the first request |
| `ConnPool` | what requests need connections and row locks for |
| `Server` | a process that starts, serves and dies; composes `Startup` and `ConnPool` |
| `ServerProofs` | proofs about `Server` |
| `Catalog` | the comic catalog and its editors |
| `CatalogProofs` | proofs about `Catalog`: single answers, then all pages of a reader |
| `MCAccounts`, `MCAccountsHistory`, `MCRateLimiter`, `MCGateway`, `MCAnalytics`, `MCServer`, `MCCatalog` | instances for TLC |

`Accounts` implements `AccountRegistry` and `RateLimiter` implements `RateCounter`, and
`Gateway` is built on the two abstractions, so that the chain is checked against every
interleaving of accounts and limiter without their internal steps. Both refinements are
checked by TLC on an instance and proved for all. `Analytics` extends `Gateway`: its actions
are those of `Gateway` with more variables, so what holds of every step there holds here, too.

### Accounts

Each call has a program counter (`pc`) that names the statement it executes next; a
statement is an action. Every call inserts at most one row into each table, so a row is
named by its call: `row["api_keys"][c]` is `none`, `active` or `inactive`. `pending`,
`found`, `visited` and `locked` are the open transaction: rows inserted and not committed,
the snapshot of the `UPDATE`, the rows of it dealt with, and the rows locked.

- `StartUpdate`, `UpdateRow`, `FinishUpdate` are one `UPDATE … WHERE … active`: it takes its
  snapshot, visits the rows one by one in any order, waits for locks, and looks at each row
  again after waiting (READ COMMITTED). `DeadlockVictim` is the database's deadlock detector.
- `InsertUser` and `InsertPlan` wait for, and are rejected by, the unique indexes on the
  address and on the active plan of a user.
- `Fail` is every early return: with an open transaction it leads to the deferred
  `Rollback`. `DBError` is any failing statement, including a cancelled request and the
  rejection of a colliding `key_prefix`. `Commit` may succeed without its acknowledgement, and
  is a step before `Answer` (the return of the service and `writeJSON`): a process that dies
  between the two has stored everything and told nobody. Where nothing has been stored, the
  return and the answer are one step, since nobody can tell them apart.
- `Crash` ends all calls in flight, before or after their `Commit`, `SetStatus` is an operator who suspends an account (the
  code never writes `users.status`, but checks it).

Validation is reduced to the kinds of input in `Inputs`. The demo accounts of the script
are calls that have finished.

`AccountsHistory` adds `lived`: the states (status, plan) that its user's account has been in
since a call was received. What a call reads with single statements before its transaction is
judged by it.

### RateLimiter

`Arrive` looks up the policy (403 and 500 when it is missing or zero), `ReadClock` computes
the window before the mutex is taken, `Lock` … `Unlock` is the critical section with the
read and the write of the map as separate steps, `Decide` compares the request's own count
after `Unlock`. `Tick` and `Restart` may happen between any two steps.

### Gateway

One action per stage of a request. The log is the sequence of its insertions, and a point
of time (the start of a plan, of a month) is the length the log had then;
`CountMonthRequests` counts the entries of the user after the later of the two, which is
`GREATEST(started_at, start of month)`. `ChangePlan` sets the plan's start to any earlier
moment, since `NOW()` is the time its transaction began. Holders of a key are found by its
first 16 characters, as stored in `key_prefix`, and the hash. `profile` and `admitted` record
the plan *change* (`era`) besides the plan, so that properties can tell two subscriptions to
the same plan apart. `loaded` are the plans whose policies the process has read when it
started: for a plan that was added later each of the three middlewares answers 403
(`PolicyNotFound`), and a limit that is not positive is 500 `rate_limit_misconfigured`. A
request is counted in a minute between the one it was authenticated in and the current one, as
the limiter stamps it before it waits for the mutex. The handler is the single step `Serve`; whatever it answers is logged.

### Analytics

`Analytics` extends `Gateway`: the requests to `/analytics/usage` are served in the steps
`ReadQuota` (`plans.monthly_quota`), `CountUsage` (`CountMonthRequests` and `remaining--`) and
`Tell` (the lines of the plan's shape of report), or `ReportFails`; every other request and
everything else goes on as in `Gateway` in between (`AsInGateway`). `report` holds what the
report has so far, and the history its properties need: the length of the log when the count
was taken (`seen`), and the plan change and month it was for (`period`). Before the handler,
`CheckReportQuota` records the header `X-Quota-Remaining`. The table of quotas (`quotas`) is
apart from the quotas loaded at start-up (`MonthlyQuota`), which the middleware enforces, and
an operator may edit it. Free plans see no lines, standard the top line, premium all.

### Startup, ConnPool and Server

`Startup` has the phases of `main`. `Query` joins `plans` and `plan_features` at one moment;
`ReadRow` takes one row and does to the map what the loop does; `Loaded` and `NoPlans` are its
two ends, and `StartFails` every `log.Fatal` on the way. Operators may replace the tables at
any time (`Databases`).

`ConnPool` sees a request as the sequence of its uses of the pool (`Uses`): authentication,
count, up to three queries of the handler, log entry; or the reads and the transaction of an
account call of each kind. After a query the request goes on, ends early because it is refused
or the query fails, or goes to its log entry (`Following`). A use acquires
a connection or queues (`Acquire`), keeps it until it is done (`Release` hands it to the first
in the queue), and a transaction needs the lock of its rows meanwhile. It ends by `Commit` or,
when a statement fails, by `Rollback`. `GiveUp` is a client
that goes away or a deadline, in the queue or with a connection; the repositories' queries
have neither (`context.Background()`). A request that gives up gives its connection back,
while its database session holds the lock until the server notices (`ServerRollsBack`).

`Server` composes the two: requests only while the process serves, and a `Crash` that ends
all of them, after which it may start again while old sessions still hold locks.

### Catalog

`shelf` is the row of each comic (absent, listed, soft-deleted, gone); its columns are the
constant `Book`. A reader asks for one page after the other until a page is not full; each
page is an atomic query over the rows of that moment. A query is a record of the parameters
given, with or without a value, so that the handler's rules (allowed by plan, aliases, a range replaces a year, not a
number) and the repository's `WHERE`, `ORDER BY`, `LIMIT` and `OFFSET` are operators over it.
Rows tied in the sort column come in any order (`Orders`), NULL years sort as PostgreSQL does
(last ascending, first descending). The page number comes as text and is multiplied at the
width of an `int`: `Offset` wraps around, and a negative offset is an SQL error. A text of
blanks is a parameter that `strings.TrimSpace` removes. Year bounds are SMALLINT to the
database: a greater one (`YearMax`) is an error of the query (`YearsFit`, `QueryRejected`).
What the parameters ask for is stated apart from all that, one parameter at a time as the
handler's comments have it (`Meets`), with the parameters that ask for nothing (`Asking`) and
those that give way to another (`Overruled`) named as such. `ListChapters` and `RecommendByComic` are the second queries
of their operations, with edits in between. Substring search is a set of words per column.

## The runs

All passing runs finish in less than five minutes with two workers.

| Run | Instance | What it shows |
| --- | --- | --- |
| `accounts_safety` | three calls of any operation, good or rejected in each possible way, a demo account and an address that can register; all faults | types and transactions, `OneActivePlan`, `KeyAlwaysAvailable`, `RotationRevokes`, `AtomicRegistration`, `AnswerMatchesTables`, and `ImplementsRegistry` |
| `accounts_pair` | two calls of any kind that contend for one user's rows, all faults, with the history | `ReportedPlanHeld`, `SuspendedAccountsRest`, `EveryCallAnswered` |
| `accounts_rotation` | four rotations of one user, three at a time, no faults | `RotationRevokes` and `EveryCallAnswered` when updates lock several rows in opposite orders |
| `ratelimit` | three requests of one client, limits 1 and 2, a plan with limit 0 and one loaded by nobody, two minutes, one restart | `PassedWithinLimit`, `RefusalJustified`, `CountsAtomically` (the abstract counter), `EveryRequestDecided` |
| `gateway_chain` | two requests, all faults, tight limits, two minutes, a plan change, rotation, suspension, a plan added later and without a limit | `TypeOK`, `LoggedExactlyOnce`, `RevokedKeysAreCutOff`, `DowngradeTakesEffect`; every answer of the chain occurs |
| `analytics` | three requests of one user, any of them reports, two at a time; a plan of each shape of report with quotas 1, 2 and none; a plan change, a month's end or an edited quota; a lost or failed request, a restart | `QuotaOvershootBounded`, `ReportTypeOK`, `ReportMatchesHeader`, `RemainingHonoured`, `ReportAddsUp` |
| `server` | two rotations of the same keys and two requests under `/api/v1` on two connections; three states of the plan tables; failing starts and statements, clients that go away, crashes | `PoolTypeOK`, `NoConnectionLost`, `EveryRequestEnds`, `ServesWholePolicies`, `StartEnds` |
| `catalog` | four comics, two of them added later; one reader with one of 27 queries or one other call with one of 9; three edits; pages of 1 to 3 | `SearchHonoursParameters`, `PagesLoseLittle`, `PagesRepeatLittle`, `ChaptersComplete`, `DeletedStaysHidden`, `RecommendsTheBest`, `PageNumberHonoured` |
| `quota_race`, `quota_reset`, `analytics_free`, `demo_keys` | two requests each | the findings below: a violation is expected |

Bounds, and why they are enough for what the runs ask:

- Accounts: a violation of its invariants needs two writers of one row and at most a third
  call that was there before or observes; three calls and a demo account give that. A lock
  cycle needs two rows, hence two overlapping rotations before the two that deadlock: four
  calls (`ThreeInOrder`: three at a time, received in one order). What a call has read goes out
  of date by one other call or an operator: two calls in `accounts_pair`. Calls are symmetric
  (`SYMMETRY` only where no liveness is checked).
- RateLimiter: two requests at the limit and one over it; one minute boundary and one
  restart, because nothing remembers more than one.
- Gateway: `Slots` bounds the requests in progress, and is part of the property
  `QuotaOvershootBounded`; `LastEra`, `LastMonth`, `LastMinute` allow one change each. The
  constraints of `gateway_chain` keep apart what does not interact: `MonthAlone`, months from
  minutes and plan changes, each of which only moves the place in the log, or the bucket, from
  which requests are counted; `TrialAlone`, the plan that is added, whose requests are refused
  in all the same ways, from the clock and other changes; `SuspensionAlone`, suspensions from
  the clock.
  The quota is 1 and the limits 1 and 2 instead of 1,000 and 60: the code compares only.
- Analytics: the quotas are 1, 2 and none, so that two requests in progress can exceed them
  and a third finds them exceeded. The constraint `OneChange` allows one of a plan change, a
  month's end and an edit (each property speaks of reports with no change, or one, since they
  counted); `FewFaults` allows one request that is lost, not logged or fails, and leaves out
  failures before the handler, which `gateway_chain` has. The rate limit is wide. A restart
  would load an edited quota and make the two copies equal again, so it comes before edits.
- Server: two connections and not ten, so that two transactions on one lock take all of them
  and two more requests queue. One lock: different rows do not wait for each other. The tables
  are empty, the script's cut down to two plans, or edited: features moved, a quota set, a
  plan added, a blank feature key. `EditsBetween` has them edited while no request runs, since
  the process does not look at them again.
- Catalog: `LastEdit` bounds the edits; page sizes 2 and 3 stand for 20 and 100, and 1 and
  2 for 10 and 50; `IntMax` 7 stands for the largest `int`, and the page numbers asked for
  reach beyond it; so does `YearMax` 2047 for the largest SMALLINT. The constraint `Apart` interleaves either the reader or the other call
  with the editors: neither changes anything the other reads.

`CHECK_DEADLOCK FALSE` is set where all requests may be done and no more clock, edit or
plan change is allowed by the bounds. In the `accounts_safety`, `accounts_pair` and
`server` runs deadlock is checked (an operator can always act), which only says that; that
calls do not wait for each other is `EveryCallAnswered` and `EveryRequestEnds`.

Fairness. `FairSpec` of `Accounts` and `RateLimiter`, and `FairHistory` of `AccountsHistory`, assume weak fairness of each call's own
steps: goroutines are scheduled, statements are executed, a released lock wakes a waiter,
the deadlock detector runs (one second by default), and `sync.Mutex` does not starve a
waiter. Nothing is assumed of clients, faults, restarts, the clock or operators. A free mutex
is only ever taken once per request, so weak fairness is enough. `FairServer` assumes the same
of requests that use the pool (a queue that is first come, first served makes weak fairness
enough there, too), that the server notices closed sessions, and that what `main` does on the
way to serving ends, if only by its deadlines. Nobody has to start the process, make a
request, go away, or let a deadline pass: `EveryRequestEnds` holds though no timeout ever
helps.

## Findings

- **`quota_race`**: the quota counts before the handler and logs after it: two concurrent
  requests pass on the last unit (`monthly_quota.go:66`). `QuotaOvershootBounded` says how far
  this can go: one less than the requests in progress, also when their profiles are of several
  plans.
- **`quota_reset`**: counting starts at the active plan's `started_at`, and a change to the same
  plan makes a new row, so `POST /auth/plan` gives the month's quota again.
- **`analytics_free`**: the analytics handler's comment promises 403 to the free plan, the
  seeded features let it through.
- **`demo_keys`**: `standard-demo-key` is stored with a `key_prefix` of 17 characters and looked
  up by 16, so the advertised demo key is refused with 401.

Also worth knowing, though no text in the repository says otherwise: overlapping rotations
leave several keys active (each revokes what was active when its `UPDATE` began); the rate
limit starts again with the process; comics tied in the sort column (all seeded ones, by
`created_at`) may be repeated or skipped by pages, which is why the paging properties exclude
ties; a comic deleted between two queries gives an empty list with 200. Further:

- A call that dies between its `COMMIT` and its answer, or whose client has gone, has stored
  everything. A rotation has then revoked the old keys for a key nobody knows, and the user
  has to rotate again; a registration has an account whose key is unknown, and a second try is
  answered 409 (rotating works).
- `year` next to `year_from` or `year_to` is not the "Exact publish year" that
  `comic_handler.go:162` documents: the range replaces it, bound by bound, also a bound of 0.
  `title` next to `q`, and `genre` next to `category`, are not looked at, as the comments on
  these aliases suggest; but a blank `q` or `category`, which asks for nothing, hides its alias,
  too. `SearchHonoursParameters` leaves these parameters out (`Overruled`).
- A year above 32767 is accepted by the handler and is a 500, since the database has a SMALLINT.

- A plan without a quota gets `remaining` 0 in the report (`analytics_usecase.go:21`), the same
  as a plan that has used its quota up.
- An edit of `plans` shows in reports at once and is enforced after the next restart.
- A page number whose offset exceeds the width of an `int` wraps around: the answer is 500
  for a negative offset, or the rows of another page.
- The header `X-Quota-Reset` is computed in UTC, the count's month in the time zone of the
  database session.
- The log entry is inserted with a deadline of its own, also while others wait for the pool:
  behind a pool that is exhausted for longer the entry is lost, and the quota not charged.
- The process ends if the database cannot be reached or has no plans yet; it does not retry.

## What is proved

TLAPS proves, for any sets of calls, users, plans, clients and requests and any bounds, from
the named `ASSUME`s of the modules only (a blank plan argument is no plan, seeds are distinct
users, policies are natural numbers, page limits are `int`s, and the like):

- `AccountsProofs!TypeCorrect`: `Spec => []TypeOK`, including that no call outside its
  transaction has locks or pending rows. `TypeOK` is inductive.
- `AccountsProofs!ExactlyOnePlan`: `Spec => []OneActivePlan`. This is not inductive: when a
  plan change commits, it must be known that the row it replaces is still the only active
  one. The invariant `Inv` adds
  `ControlFlow` (which statements each operation passes through), `Pending` (what its
  transaction has inserted by then), `KnownUser` (the user of a change exists), `NewUser`
  (one insertion of an address at a time: the unique index on the address), `LockedRows`
  (locked rows are active and the user's), `LocksExclude` (a row has one owner) and
  `PlanSlot` (a change that has inserted its row has the active one locked: the unique index
  on active plans). `LockedRows` and `PlanSlot` are what the commit needs; the others make
  them inductive. The proof has one lemma per action.
- `AccountsRowsProofs`, on the same invariant and on `RowInv`: what a call has stored is a matter of
  its control point and result (`StoredRows`), since a commit stores exactly what its operation
  writes (`CommitStores`) and nothing else writes rows (`RowsWritten`). From that:
  `AnswersAgree` (`AnswerMatchesTables`) at once; `KeyAvailable` (`KeyAlwaysAvailable`) because the
  commit that takes keys away adds one (`CommitKeys`); `RegisteredWhole` (`AtomicRegistration`)
  with `Registrations`, a registered user has exactly one stored registration;
  `RotationsRevoke` (`RotationRevokes`) with `Revocation`, every row that an `UPDATE` has dealt
  with is locked by it or inactive for good. A commit and its answer are two steps, so what a
  call has stored is known from its control point also when the process dies between them.
- `AccountsRefinement!ImplementsAtomicRegistry`: `Spec => ImplementsRegistry`. A commit is one
  step of `AccountRegistry` (`RegistryCommit`: by operation, `Register`, `RotateKey` or
  `ChangePlan`), `SetStatus` is `SetStatus`, and every other step stutters, for want of changed
  rows. It needs the invariants above and that only registered users have keys (`KeyOwners`).
- `AccountsRefinement!ReportsHeldPlans` and `SuspendedRest` (`ReportedPlanHeld`,
  `SuspendedAccountsRest`): the invariant `HistoryInv` says, by the step a call is at, what the
  history must have seen already (`Experience`: the plan it is going to report, and an active
  account once it has found its user). It is kept because histories only grow (`LivedGrows`).
- `RateLimiterProofs!MutualExclusion`: `Spec => []TypeOK`, exactly the holder of the mutex is
  in the critical section.
- `RateLimiterProofs!LimitHolds`: `Spec => []PassedWithinLimit`. The invariant says that the
  counter is at least every number given out by this process (`CounterAhead`), that the copy
  in the critical section is current (`CopyCurrent`), and that numbers differ within a bucket
  (`NumbersDiffer`). Requests that passed then have different numbers between 1 and the limit,
  and the lemma `DistinctNumbers` (an injection into `1 .. n` bounds the cardinality) gives
  the result.
- `RateLimiterProofs!RefusalsJustified`: `Spec => []RefusalJustified`. `RefusalInv` adds that
  numbers are given out without gaps (`NumbersTaken`), so that a number above the limit needs as
  many counted requests before it (`NumbersNeedRequests`, by the lemma on injections).
- `RateLimiterProofs!ImplementsCounter`: `Spec => CountsAtomically`. The step that writes the
  window back is the atomic step of `RateCounter`, every other step stutters.
- `ServerProofs!WholePolicies`: `ServerSpec => []ServesWholePolicies`, for any plan tables. The
  invariant `PoliciesInv` says that while rows are read the map is what the rows read so far
  say (`Folded`), which is a statement about a set of rows: `FoldedStep` shows that reading one
  more row keeps it in whatever order rows come, `FoldedAll` that all rows of the join give the
  policies of the tables.
- `ServerProofs!PoolTypes` and `PoolComplete`: `ServerSpec => []PoolTypeOK` and
  `ServerSpec => []NoConnectionLost`, for any number of requests and connections (hence ten).
  Their conjunction `PoolInv` is inductive; `NoConnectionLost` alone is not: that holders are
  running requests is a part of `PoolTypeOK`, and who leaves the queue empty must know that it
  was not twice in it. `QueueLeft` and `Removed` are the facts
  about queues, `ReleaseKeeps` and `LeaveQueueKeeps` the two ways out of the pool.

- `GatewayProofs!Types` and `LogIsExact`: `Spec => []TypeOK` and `Spec => []LoggedExactlyOnce`. The
  invariant `GInv` adds to the types what accounts the registry holds (`AccountsOK`), what is
  known of a request by its stage (`RequestsOK`), that an entry of the log was written by a
  request that was let through (`LogOK`), and which plan changes and months exist
  (`PeriodsOK`, `SlotsOK`). Stages that log nothing and admit nobody are `Quiet` and share one lemma.
- `GatewayProofs!OvershootIsBounded`: `Spec => []QuotaOvershootBounded`, for any quota and number of
  slots. At the moment of admission, every request counted there is in the log after the
  period's start or still in progress (`LoggedOrCurrent`); the logged ones are fewer than the
  quota, since the count that let the request pass counted them (`LoggedAtMost`,
  `CountedInMonth`), and the others are at most as many as there are slots.
- `GatewayProofs!RevokedIsCutOff` and `DowngradeIsEffective` (`RevokedKeysAreCutOff`,
  `DowngradeTakesEffect`): statements about a state and everything after it. Each has a predicate
  that follows from that state and is kept by every step: `CutOff`, the key stays revoked and the
  request is never past authentication (`CutOffKept`), and `Denied`, only a later plan change can
  let the request through the gate (`DeniedKept`). Both need that keys are issued once and belong
  to one user (`KeysOK`).
- `AnalyticsProofs!ReportsWellFormed`: `ReportSpec => []ReportTypeOK`. `OvershootStaysBounded` is the
  bound of `Gateway` for the chain with reports, whose steps are steps of `Gateway` or leave its
  variables alone; that holds by the way `Analytics` is written, and is a lemma only
  (`ImplementsChain`).
- `AnalyticsProofs!HeaderIsMatched`, `PromiseIsHonoured` and `PartsAddUp` (`ReportMatchesHeader`,
  `RemainingHonoured`, `ReportAddsUp`) compare counts of different moments. The invariant
  `AllCounted` says that, while its plan and month last, what a header or a report told is the
  quota less the entries that were in the log when it counted (`LoggedBy`). The count of a later
  moment is that one and what was logged since (`BeforeAndSince`). A promise is kept because a
  refusal has counted the whole quota (`PromiseKept`, with `OthersLogged` for the report's own
  entry); lines add up since every entry has one feature, hence one line (`LinesCountAll`, and
  `LinesCountSome` for the plans that see only the top one).
- `CatalogProofs`, for any catalog, queries and edits. `SearchIsHonest` (`SearchHonoursParameters`) rests
  on the lemma `MatchingMeets`: what the `WHERE` clause lets through, which handler and repository
  put together from aliases, blanks and ranges, meets each parameter taken by itself.
  `FittingMatches` is the other direction, which `LittleIsLost` uses. `PagesAreInPlace`
  (`PageNumberHonoured`): the offset does not wrap around (`Wrapped`, `OffsetIs`), a page is a piece of
  the result (`Sliced`), and the p-th comic of an order has p - 1 before it (`RankInOrder`).
  `ChaptersAreComplete` (`ChaptersComplete`): rows of chapters disappear only with their comic, for
  good. `RecommendationsAreBest` (`RecommendsTheBest`) by `FirstAreBest`, on the first rows of an
  order by score. `DeletedIsHidden` (`DeletedStaysHidden`): `Hidden`, once it holds of a call and a
  comic, is kept by every step.
- `CatalogProofs!LittleIsLost` and `LittleIsRepeated` (`PagesLoseLittle`, `PagesRepeatLittle`), for any
  number of pages and edits. Neither is inductive: halfway, a reader cannot know what it will
  miss. `PagesInv` has, for each reader, where its next page begins (`RowsOK`: at the row after
  those it has read, though offsets wrap around, by `WrapGrows`), that the untied comics before
  that row which it has not seen are at most the removals (`LossesOK`), and that the repeats so
  far and the seen comics that have been pushed beyond that row are at most the additions
  (`RepeatsOK`). An edit moves any other comic by at most one place (`EditRanks`) and untied
  comics have different places (`RanksDiffer`), so an edit moves at most one of them across the
  beginning of the next page (`AddKeepsPages`, `RemoveKeepsPages`), and a page adds to each count
  only what the beginning moving on takes from it (`ReadKeepsPages`).

Only model-checked is liveness: `EveryCallAnswered`, `EveryRequestDecided`, `EveryRequestEnds` and
`StartEnds` rest on fairness, hence on `ENABLED`, which is out of the prover's reach. Every
invariant, action property and refinement that a passing run checks is also a theorem.

## What is not modelled

- Health check, JSON writing, generated documentation: no state and no decision.
- Expiry of keys and plans as a clock: the code never sets `expires_at`, and sets `ends_at` only
  together with `status = 'inactive'`, which the queries check as well.
- A missing API key takes the same path as an unknown one, with another message;
  `missing_client_profile` cannot happen in the chain of `main`. A panic of a handler (gin
  recovers it) would skip the log entry like `LogLost`.
- Catalog: the columns that are only displayed. Edits of a listed comic's columns are left out: a title that changes
  moves a comic between pages as removing and adding it would.
- Pool: when connections are opened and closed (`MinConns`, idle time), since it does not
  change who has one; locks held by others than the server. `Accounts` has the statements of
  the account calls in full and no pool, `ConnPool` has the pool and one lock per call.
- Reading the environment and the DSN, and shutting down, which the code leaves to the process's end.
- Backups, migrations, clients' behaviour, and time beyond the order of events.

## Plan

The order in which the modules were, and are to be, written:

1. `AccountRegistry`, `Accounts`: accounts and keys are what everything else rests on. Done,
   with all safety properties and the refinement proved.
2. `RateCounter`, `RateLimiter`: the only shared memory. Done, with all safety properties and the
   refinement proved.
3. `Gateway` over the two abstractions. Done, with all properties proved.
4. `Catalog`. Done, with all properties proved.
5. `Analytics` over `Gateway`. Done, with all properties proved.
6. `ConnPool`, `Startup`, and `Server` over both. Done, with the pool's invariants and the policies
   proved.

What is left: the liveness properties stay with TLC. Worth proving beside them is what the runs
do not ask, such as bounds that follow from the theorems here for the service as it is deployed.

## Running it

```
tlc -workers 2 -config accounts_safety.cfg MCAccounts     # and so on, one per .cfg
tlapm AccountsProofs.tla
tlapm AccountsRowsProofs.tla
tlapm AccountsRefinement.tla
tlapm RateLimiterProofs.tla
tlapm GatewayProofs.tla
tlapm AnalyticsProofs.tla
tlapm ServerProofs.tla
tlapm CatalogProofs.tla
```
