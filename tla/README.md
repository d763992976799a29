# llm-broker in TLA+

A formal model of llm-broker (`internal/` and `cmd/` of this repository): a broker that shares
a pool of upstream accounts (Claude, Codex, Gemini) between its users. The modules are
translated from the Go code; TLC checks them on small instances and TLAPS proves the most
important invariants for every instance.

## 1. The system

| Component | State | Operations | Where |
|---|---|---|---|
| Route scheduler | in memory: inflight counters per (provider, bucket, class), affinity claims; in the store: session bindings | `AcquireRoute`, `AttemptLease.Accept/Finish/Abort` | `pool/pool_schedule.go` |
| Token refresh | refresh-lock row, stored tokens, account status | `EnsureValidToken`, `ForceRefresh`, lock acquire/release/purge | `tokens/manager.go`, `store/sqlite_refresh_locks.go` |
| Pool health | account rows (status, bucket key), bucket rows (cooldown, quota state), breaker counters | `Observe`, `ClearCooldown`, `Update`, `Add`, `Delete`, `StoreTokens`, `MarkError`, `RecoverBucket`, `cleanup`, `SetDrivers` | `pool/pool_accounts.go`, `pool_observe.go`, `pool_buckets.go`, `pool.go` |
| Relay flow | per request: attempt, exclusions, retry pin, lease, last upstream error | `handleWithDriver`, `executeRelayAttempt`, both endings, `handleCountTokens` | `relay/*.go` |
| Driver policies | none (pure), provider state blob in the bucket | `Plan`, `ShouldRetry`, `RetrySameAccount`, `ParseNonRetriable`, `Interpret`, `PreflightStream` | `driver/*.go` |
| Driver quota state | a blob per bucket: windows, Opus cooldown, Codex families, Gemini project and quota | `captureState`, `captureHeaders`, `applyQuota`, `CanServe`, `IsStale`, `ComputeExhaustedCooldown`, probes | `driver/*_support.go`, `driver/*_admin.go`, `server/admin_probe.go` |
| Egress cells | cell rows (status, proxy, cooldown), which account has which cell | `SaveCell`, `CooldownCell`, `ClearCellCooldown`, bind | `pool/pool_cells.go`, `server/admin_cells.go`, `admin_accounts.go` |
| OAuth login | OAuth sessions (ten minutes, deleted at the end of a login), tokens of the account | `handleGenerateAuthURL`, `handleExchangeCode`, upsert of the account | `server/admin_oauth.go`, `admin_oauth_support.go` |
| Cell watchdog | none of its own; a process that runs every few minutes | list, probe, repair, probe again, clear the cooldown | `localcellwatchdog/`, `cmd/local-cell-watchdog` |
| Event bus | ring buffer, subscribers' channels | `Publish`, `Subscribe`, `Unsubscribe`, `Recent`, `Clear` | `events/bus.go` |
| Background jobs | a leader file lock; request log rows and files | leader election, clean-up, log purge | `server/server_runtime.go`, `requestlog/artifact.go`, `store/sqlite_logs.go` |
| Compat surface | limiter entries per user, one stream writer per request | OpenAI chat endpoint, translation, SSE rewriting | `server/compat_*.go` |
| Store | SQLite rows, upserted whole | CRUD per table, `Migrate`, check of the schema at start | `store/` |
| Others | authentication, transport cache, Claude identity, crypto, config, users, web pages | | `auth`, `transport`, `driver/claude_identity.go`, ... |

How they interact: a request goes through the relay, which asks the scheduler for a lease, the
token manager for a token and the driver for a request, sends it, interprets the answer with
the driver and tells the pool (`Observe`). An authentication failure starts a refresh in a
goroutine of its own. Administration and clean-up write the same rows at the same time. The
compat surface calls the relay as an inner handler. The watchdog talks to the broker through its
admin API. During a blue-green deployment two processes share one database; the pool's mutex is per process.

What is hard: the scheduler reads the store outside its mutex; the refresh lock expires while
its holder may still be at work; provider answers are lost after the provider acted on them;
rows are written whole from copies; buckets move to another key while leases, exclusions and
cooldowns refer to the old one; a request has some thirty ways to end; an answer is interpreted on
top of the quota state of lease time; handlers check under one lock acquisition and write under
another; a migration or a provider's stream may be cut off anywhere. `PROJECT.json` lists
these hazards line by line, with the properties that watch each.

## 2. The modules

    DriverPolicy          pure operators: what a driver decides
      RelayFlow           one request through the relay             RelayFlow_proofs
    RouteLease            the scheduler                             RouteLease_proofs
    TokenRefresh          the token refresh                         TokenRefresh_proofs
    PoolHealth            status, cooldowns, buckets                PoolHealth_proofs
    QuotaState            what the drivers remember of a quota      Control_proofs
    EgressCells           cells, bindings and logins                EgressCells_proofs
      CellWatchdog        the watchdog beside them                    (the same module)
    CompatSurface         the OpenAI-compatible endpoint            CompatSurface_proofs
    EventBus              implements RecentLog, the last N events   Platform_proofs
    ServerJobs            leader election, request log and purge      (the same module)
    SchemaMigration       `llm-broker migrate`                        (the same module)
    MCPlatform            these three side by side                    (the same module)
    MCControl             cells, watchdog, quota and compat surface
                          side by side                              Control_proofs
    MC*                   the other instances for TLC

Definitions keep the names of the functions they model; `PROJECT.json` maps each one to its
lines. Every module has one type invariant; a definition whose comment begins "A mutant of"
is a plausible bug that shows that a property notices it, and is used by no specification.

### RouteLease

A goroutine in `AcquireRoute` takes interleaved steps: read the binding (no mutex), decide
(mutex), and, behind a pending claim, wait for its channel. `Accept` is the store write and
then the release of the claim; `finish` is one step. `acquireLocked` is the set of accounts it
may return: filters, then the least loaded bucket by weight, age and key order
(`leastInflightCandidateLocked`), then any member. Last-use times are left out, so that any
member of the chosen bucket may be the least recently used. `lastAssigned` is kept as the order
between load keys. The square root of the priority is a positive weight. Accounts' health is one
set that anybody changes at any time; accounts come and go, change bucket, bindings are dropped,
and the process restarts.

### TokenRefresh

Refreshers of any process share one account and its lock row. The clock ticks between any two
steps, and the store truncates it to seconds. The provider (external) rotates the refresh
token or not, refuses spent ones, and may act on a request whose sender gave up.

The account is one row, and whoever changes it writes all of it. `StoreTokens`, `MarkError`,
`Observe`, `Update` and `RecoverBucket` take their process's mutex, reload, and upsert the whole
row, refresh token included (`sqlite_accounts.go:97`), so each is two steps with `copy[h]` between
them: the row that process `h` is about to write. While a process has a copy its other writers
wait; those of the other process do not, and their rows may be overwritten, or a deleted row come
back. A sign-in is the exchange with the provider (`login[h]` holds its token, new or the one read
before), the reload and the write, without the refresh lock. Crashes of a process, failed reads,
writes and releases, purge and deletion are actions.

Two history variables record what the code cannot repair. `mishap`: an answer lost after a
rotation, a read or write of a token that failed, a holder that outlived its lock, a sign-in that
revoked or put back a token in use. `restored`: a row was written back whose refresh token had been
replaced, or which had been deleted, since its reload. `Calm` is neither.

### PoolHealth

Every operation reloads the rows under the mutex, decides, and writes bucket rows and account
rows in separate statements, so it is `Begin` and one write per table; other processes run and
crashes strike in between. An operation under way is the rows it is going to write and the table
it writes first, which differs between the operations. The provider's state blob is reduced to what the pool derives from
it: whether the project is known, which gives the bucket key (Gemini), and until when the quota
is exhausted. A sign-in that adds an account brings such a state along, and a late answer to a
request leased before the project was known moves the bucket back to the key without it. `owed` is history: until when upstream asked to be left alone, less what somebody
dropped on purpose. `torn` records an operation cut between its writes.

### DriverPolicy and RelayFlow

One request of any provider, plan, user pin and stream mode. Every call of the relay (route,
token, build, send, preflight, read, accept) is a step that may fail, the client may leave at
any moment, and a Gemini account may be re-keyed between steps. The scheduler is reduced to
"any account that the request allows", which is more than `RouteLease` grants: a property that
holds here holds with the scheduler. An answer is its status and what the driver looks for in
the body. The history variables record what the accounts answered, what was told to the pool,
and how many requests were built and logged.

### QuotaState

A request or probe copies the bucket's state when it is leased; its answer is interpreted on top
of the copy and `Observe` stores the result over whatever the bucket holds by then. The three
providers have their own state and rules; a behaviour is about one bucket of one provider.
A Gemini probe whose `loadCodeAssist` names no project still applies the quota and is observed; the
account then has quota and cannot serve, and the exhausted cooldown is about the quota alone.
Headers are a few pairs of windows around the 99 % mark with resets of different length. `told`
is history: what an answer said last; `lost` holds what was overwritten by an answer to a request
leased before it was said, which the code does not prevent.

### EgressCells and CellWatchdog

A handler takes the pool's lock once per call and not across calls, so each action is one locked
call, and bind, upsert and login handlers interleave between them. The provider of a login may
return a refresh token or none, a login need not name a session (its request then carries the
verifier itself, and no session is deleted at its end), and the token refresher may rotate the stored one at any time.
`excused`, `overtaken` and `writes` are history: bindings whose check was overtaken before the
write, tokens that changed under a login, and how often an account's tokens were stored, by which
a login knows whether they were stored since it got its own. The watchdog is a second program on the same cells: it lists
them, probes, repairs and clears step by step, any step may fail, and the host's proxies and
addresses change by themselves.

### CompatSurface

The limiter reads the clock before it takes its lock, and a request whose reading is out of date
by then is marked `late`. Its list of start times is the set of requests that started, each of
which has its own reading; `Kept` is what the pruning leaves of it. The translation keeps roles, texts, system parts and the format, which
is what its property is about; `Picked` takes the elements of a sequence at given positions in
their order, which is what the loops over the messages append. The relay answers with an error, a JSON body, or line by line; its
stream may be cut between lines or inside one, and every write to the client may fail, that of the
JSON body too, which the handler does not notice. Frames are
their one interesting part. `ended` records how the provider's stream ended.

### EventBus, ServerJobs, SchemaMigration

`EventBus` has the ring with its wrapping position and the bounded channels; `RecentLog` is what
the dashboard may rely on, and `RingImplementsLog` is the refinement (`log <- recentLocked`).
`ServerJobs` has the loop for the lock file, the end of a process at any moment, the goroutines
that write a row and then a file, and the purge in its three steps; ticks are finer than
seconds. Mode `all`, and leader mode without a lock path, run the jobs without an election and
are meant for one process. `SchemaMigration` has one action per statement or transaction of `Migrate`, from any
database an earlier release may have left, cut off between steps or inside the script and run
again. Of the columns it keeps the ones the steps read. The stored bucket key of an account is
any: none, `provider:subject`, or Gemini's with the project behind it. Where the accounts table
has a bucket key and still lacks another column, `migrateAccountsTable` copies the account under
`provider:subject` again, so that the bucket of a key with a project stays behind;
`MigratedFaithfully` excepts these accounts and no others.

## 3. The runs

| Run | Expect | What it shows |
|---|---|---|
| route_lease | pass | `LoadMatchesLeases`, `ClaimsHaveOwners`, `OneElectorPerKey`, `FollowersTrackClaim`, `LeaseHonoursRequest`, `RequireStaysWithOwner` under all interleavings of two requests |
| route_lease_live | pass | `AcquireReturns`: no follower waits for ever, with three requests for one key |
| route_follower | violation | `FollowerJoinsOwner`: see findings |
| route_require | violation | `RequireNeverMigrates`: see findings |
| token_refresh | pass | `ExclusiveUntilExpiry`, `StoredTokenUsable`, `NoSpuriousError`, and `RefreshReturns` under fairness |
| pool_health | pass | `CooldownHonoured`, `BucketsHaveMembers`, `UnblockedOnPurpose` with one process |
| pool_health_blocked | violation | `BlockedNeedsAdminOrProbe`: see findings |
| pool_health_bluegreen | violation | `UnblockedOnPurpose` fails with two processes: see findings |
| relay_flow | pass | `OneAnswer`, `NoLeaseLeftBehind`, `NoReturnToSpent`, `FailuresAreTold`, `FailureShowsUpstream`, `LogsMatchTries`; the deadlock check shows that the handler is never stuck, and the attempt bound that it ends |
| platform | pass | `RingImplementsLog`, `StreamUnbroken`; `OneLeader`, `JobsKeepRunning`, `RetentionKept`; `RowsSurvive`, `MigratedFaithfully` |
| control | pass | `SharedOnlyByRace`, `LoginKeepsRefreshToken`; `EveryTargetProbed`; `ReadingsKept`, `ExhaustedUntilServable`; `LimitsHold`, `ChatFaithful` |
| relay_breaker | violation | `ServerErrorIsNoSuccess`: see findings |

`platform` and `control` each check several components that share no state in one run: the
variable `part` chooses at the start which of them moves, and the others rest. The reachable
states are so the sum of the parts' and not their product, and nothing about a part depends on the
others. `CellWatchdog` and `EgressCells` do share state: part `watchdog` runs the watchdog with
the broker's changes of cells, part `cells` the handlers with each other.

Several properties name what the code does not prevent, mostly by a history variable:

* `StoredTokenUsable`, `NoSpuriousError`: a mishap, or a whole-row write of an outdated copy
  (`mishap`, `restored`);
* `CooldownHonoured`, `BucketsHaveMembers`: an operation cut between its writes, or an `Add` that
  the store refused after its bucket was written (`torn`);
* `NoReturnToSpent`: accounts that were re-keyed during the request (`Rekeyed`);
* `SharedOnlyByRace` (`excused`), `LoginKeepsRefreshToken` (`overtaken`), `ReadingsKept` (`lost`),
  `LimitsHold` (`late`);
* `ChatFaithful`: success is also logged for a stream that the relay answered with an error status
  (`compat_openai_chat.go:171-179` looks for incomplete streams only under a 200), for a JSON answer
  whose write failed (`:207-208`), and for a Gemini stream cut right behind `data: `
  (`compat_openai_stream.go:408`).

These properties characterise such a hazard and do not exclude it: they show that the named ways
are the only ones.

### Bounds, and why they are enough

* RouteLease: two goroutines with two calls each (three with one for liveness), because claim
  and follower are relations of two and a successor's claim needs a third call; three accounts,
  two of which compete while one is of another provider; one key; `Unsteady` names the account
  that comes, goes and changes health. The nine calls are the shapes the relay sends.
* TokenRefresh: two refreshers, half-second ticks, a lock of three ticks: the lock can expire
  inside every step, in the middle of a second too. `MaxTokens` 2 allows one rotation or one
  sign-in with a new token; the theorems hold for any number. The refreshers are in two processes,
  in one of which (`Writers`) the row is changed by others too; `AfterMishap` "no" lets what is
  under way end after the first mishap or outdated write, and nothing new begin, since neither
  safety property says anything from there on. `LastStart` and `MaxTime` bound the clock; a sleeper
  always gets its time.
* PoolHealth: one subject whose bucket moves when its project is learned, and two IDs that
  stand for it in turn; times up to 2, so that a long and a short cooldown overlap.
* RelayFlow: three accounts, two in one bucket; `MaxRetryAccounts` 3, enough for two
  same-account retries and one other account; ten answers, one for each case that the
  policies tell apart.
* EventBus: a ring of 3 and channels of 2 with 5 events: the ring wraps, also after a clear, and a
  channel fills; two subscribers. ServerJobs: two processes with one start each, since a
  process that comes back does what a new one does; one fault of the lock's system calls; a
  day of two seconds, each of two ticks, so that an entry may lie on either side of a second's and of
  a day's edge, and a clock of nine ticks, so that a cut-off (the retention is one day) reaches the
  second day and directories are removed; one log entry, because the purge treats each by itself. SchemaMigration: up to three runs
  of the command, two populations of accounts with and without subject, one of which breaks the
  new table's UNIQUE constraint; one account's stored key names a project and one has none.
* EgressCells: two handlers, two subjects of one provider and one cell, as sharing is a relation
  of two; two requests and one edit. CellWatchdog: two cells, one run, two probes after a repair.
* QuotaState: two overlapping requests and two answers on top of an empty bucket, with four
  window pairs around the mark; two Codex families. CompatSurface: two requests of one user and one
  of an administrator, limits of one, a minute of one tick on a clock of three; an answer of two texts.

### Fairness

`RouteLease!FairSpec` is weak fairness of every goroutine's own steps: the Go scheduler runs
it, upstream calls end by their client's timeout or by the request's context, and `Abort` is
deferred. It assumes nothing of stores that fail or of the environment; callers need not make
calls, and make finitely many (`MaxCalls`), so that it is not shown that a follower returns when
ever new requests for its key are elected before it. `TokenRefresh!FairSpec`
adds that the clock ticks; a call that the provider never answers ends by the HTTP client's
30 seconds, so `CallFails` is enabled and the refresher's steps are fair. Whoever holds the pool's
mutex goes on (`holder`, weakly fair), and the refresher's fairness is strong because its steps wait
for that mutex again and again: a Go `sync.Mutex` starves none of its waiters. `PoolHealth!FairSpec`
says that an operation that holds the mutex writes its rows. `ServerJobs!JobsFairness` is weak
fairness of the loop for the lock file and of its two-second timer: a goroutine of a live process
is scheduled and its timer fires. Faults of the system calls are bounded by `MaxFaults`, that is,
they do not go on for ever; nothing is assumed of processes that end.

`CHECK_DEADLOCK FALSE` is used where the clock's or another bound is reached and nothing has to
happen (TokenRefresh, PoolHealth, platform, control); the other runs check for deadlock.

## 4. What is proved

Every theorem holds for every value of the constants that satisfies the named assumption of its
module (`ConstantsAssumption`, `RefreshAssumption`, `PoolAssumption` and `NoRowAssumption`,
`RelayAssumption`, `BusAssumption`, `JobsAssumption`, `CellsAssumption`, `WatchdogAssumption`,
`QuotaAssumption`, `CompatAssumption`). They say that sets of actors are finite where they are counted, that tables and
bounds have their types, and that special values (no row, no cell, no lock) are different from the
ordinary ones. `CompatAssumption` also says that the texts of an answer are not empty and are none
of the words by which the model names the other frames: in the code a frame's kind is a field of
its own, so that a text can never be taken for a finish reason. TLC evaluates them in the runs of
their modules. A theorem has the name of what it shows; the property it is about is the one the
runs check.

*RouteLease_proofs*

* `TypeCorrect`: `TypeOK` with `LeaseShape`, which says that a lease record is there exactly
  while the lease is out. Without it neither `Finish` nor `Accept` can be typed.
* `ClaimsOwned`, `ElectionExclusive`, `FollowersCorrect`: the three claim properties are inductive
  only together (`ClaimInv`): the release compares the pending claim with one's own, so that the
  second needs the first, and a follower's wake-up needs both. `ReleaseKeepsClaims` has the
  argument once, for every action that releases.
* `LoadCorrect`: each grant adds one element to the set of leases on one key and each finish
  removes one (`LeaseAdds`, `FinishRemoves`, with the library's cardinality theorems).
* `LeasesHonour`, `RequiredOwnerKept`: `OwnersKnown` is the strengthening: what a goroutine read
  before taking the mutex, and what the store holds, is an owner that was once accepted.

*TokenRefresh_proofs*

* `TypeCorrect`; `LockExclusive`, which needs only that `Unix` is monotone.
* `TokensSafe` and `NoErrorByRace` rest on `Chain`: while `Calm` holds there is one
  refresher in the critical section, the token it sends is valid, and so is the answer in its hands,
  in its own variables or in the copy its process is about to write. `Shape` and `Mutex` say whose a
  copy is (a refresher that is writing, a sign-in, or the pool), `Known` that every token
  anywhere is one the provider issued.
* `OneProcessRestoresNothing`: with one process the row cannot change between reload and write
  (the strengthening is that a copy of the pool has the stored token), so `restored` stays "no". The
  exception of the two theorems is thus the same race as finding 4.

*PoolHealth_proofs*

* `TypeCorrect`, for any number of processes.
* `BlocksStay` and `BucketsInhabited`, for one process. The hypothesis `OneProcess` is the mutex:
  it keeps two operations of one process apart and not those of two, and the run
  `pool_health_bluegreen` shows that `UnblockedOnPurpose` is false without it.
* `CooldownsKept`, for one process and `OwnBuckets`: bucket keys of different subjects differ. Every
  driver's `BucketKey` begins with provider and subject, and Gemini only adds the project. The
  invariant (`SoundInv`) is about the rows as they will be when the operation under way is through
  (`NextAcct`, `NextBucket`): one row for each subject, keys that are the ones the driver derives, and the cooldown
  owed in the bucket so named. The rows in between satisfy none of this, which is why the property
  itself is not inductive.

*RelayFlow_proofs*

* `TypeCorrect`, `OneAnswerGiven`, `LeaseReturned`: `Control` ties the place in the handler to the lease
  and the answer, `Data` to the attempt's variables.
* `LogsComplete`: `LogInv` counts built and logged requests at every place of the handler.
* `FailuresTold`, `UpstreamShown`: `TellInv` says, place by place, which answers have been dealt
  with, which reported, and that the remembered error is the latest.
* `SpentNotAsked`: the accounts used up are excluded by ID or by bucket (`Admitted`, `Fenced`,
  `Apart`). An account whose bucket moves to another key during the request leaves its exclusion
  behind and may be asked again; the statement excepts the accounts that may be
  re-keyed (`Rekeyed`), and holds for every such set. `CountInv` bounds the
  retries on the same account.

*Platform_proofs*

* `BusTypeCorrect`: the types with `RingInv`, that the slots named by position and count hold the
  last events in order.
* `RingRefinesLog`: `RingImplementsLog`, the ring implements `RecentLog`. Every publication and
  clear of the ring is one of the log and every other step a stutter, by lemmas on the ring's arithmetic.
* `StreamCorrect`: what a subscriber has received, followed by what its channel holds, is in
  order and without repetition, and without gaps if the channel was never full.
* `LeaderUnique`: who leads holds the lock file, and taking it needs that it was nobody's.
* `JobsTypeCorrect`; `PurgeKeepsRetention`: what the purge is going to delete is beyond the retention
  at the time of its cut-off and later, because `Unix` and `Day` are monotone.
* `RowsKept`: no step of `Migrate` adds or drops a row of accounts, users or the log, and a binding
  leads to the account it led to before, by its ID in an old table and by its identity in a new one.
* `MigrationFaithful`: at every step the key under which an account's cooldown lies is the key the
  account has or is about to be given (`KeySync`, `KeyPrune`, `KeyCopy`), keys of different
  accounts are apart, and the last step is reached only with everything in the new tables.
* `MigrationTypeCorrect`, with what each step of `Migrate` may assume of the tables.
* `PartsRefined`, `TypesCorrect`: a step of one part is a stutter of the others, so the composition
  implements the three specifications and every theorem about one of them holds of it.

*EgressCells_proofs*

* `SharingNeedsRace`: an account that is bound and not excused was alone on its cell when it was written.
* `LoginsKeepTokens`: the tokens in a login's hands are no older than the stored ones unless
  tokens were stored since (`InHand`).
* `TargetsProbed`, of `WatchdogSpec`: every target listed has been probed, is under way or is still
  to do.
* `CellsTypesCorrect`: the types, with the shape of each request under way at each of its steps
  (`CellsTyped`). That a stored refresh token was issued by the provider needs `LoginInv`.
* `WatchdogTypesCorrect`, of `WatchdogSpec`: to the cells a step of the watchdog is one of the broker's or
  clears a cooldown (`WatchdogToCells`), which keeps all invariants of the handlers
  (`WatchdogKeepsCells`).

*CompatSurface_proofs*

* `LimitsCorrect`: that no minute has too many admissions is not inductive. The strengthening is
  that the limiter's list is complete (`Listed`): every admission whose minute is not over is in it,
  although each request prunes it with a reading of the clock that may be old, and nobody's
  stamp is ahead of the clock. The admissions of the minute that
  a new one joins are then all in the list whose length the limiter has just compared. `Counted` is a count like `LoadCorrect`.
* `ChatsFaithful`: `ChatInv` says, place by place in the handler, which part of the answer the client
  has. `Told` names each frame up to there by its position, for an answer of any length;
  `ClaudeSaid` and `GeminiSaid` relate it to the line at which the stream is, and `Halted` to what was
  seen when it broke off. The three cases in which success is logged for less than the whole answer
  are disjuncts of the statement. The property is about subsequences (the texts among the frames, the
  turns among the messages), and `Picked` gives them without recursion: its lemmas (`RankGrows`, `RankOnto`,
  `PickedInterval`) say that it keeps number and order, and `TranslationKeeps` that no message with
  a text is dropped.
* `CompatTypesCorrect`.

*Control_proofs*

* `ReadingsSafe`: besides the bucket, the copy of every request leased after a reading has the
  reading (`KeepInv`), and interpreting an answer on top of a copy keeps it (`ObserveKeeps`).
* `CooldownExact`: for each provider, the time computed from a state is the first at which
  something known can be served (`LaterExact`); for Gemini, the first at which there is quota, whether
  or not the project is known.
* `QuotaTypesCorrect`: answers observed and requests in flight together stay within the bound
  (`BoundInv`), because a request is leased only while answers are left.
* `QuotaAndCompatRefined`: the composition implements the specifications of both, as the other parts'
  steps are stutters of theirs.
* `CellsSafeBesideWatchdog`, `TypesCorrect`: cells and watchdog share the cells and so are not refined
  by parts: their invariants are inductive together (`CellsAndWatchdog`), under the handlers' steps
  and under the watchdog's.

The proofs showed three things that the runs had not. A login recognised an overtaken token by its value,
which goes wrong when three logins overlap and a value comes back; it now counts the stores
(`writes`). An account whose stored key names a project is copied under another key by
`migrateAccountsTable`, which no population of the runs had shown; now one has it. And that a
cooldown is honoured depends on subjects not sharing a bucket, which one subject in a run cannot
show and is now a named hypothesis.

### Only model-checked

* Liveness (`AcquireReturns`, `RefreshReturns`, `JobsKeepRunning`): fairness and ENABLED are out of
  the prover's reach.
* The violations, which are counterexamples.

Every invariant and every other action property of a passing run is a theorem.

No module declares a RECURSIVE operator.

## 5. Findings

1. `FollowerJoinsOwner` (`pool_schedule.go:197`): the binding is read before the mutex is
   taken. A request that read "none" and is scheduled after the owner's `Accept` elects a
   second owner and overwrites the binding, where the tests expect it to join the first.
2. `RequireNeverMigrates` (`pool_schedule.go:196`): a user pin suppresses the binding lookup,
   and a pin to another provider's account is then ignored, so a required conversation may be
   given to any account.
3. `BlockedNeedsAdminOrProbe` (`pool_accounts.go:180`): `StoreTokens` after an automatic
   refresh that was under way when the account was blocked makes it active again.
4. `UnblockedOnPurpose` with two processes (`pool_accounts.go:191`): a whole-row write of a
   stale copy undoes another process's block. In the same way it puts a spent refresh token back
   (`restored` in TokenRefresh), after which the next refresh marks the account in error.
5. `ServerErrorIsNoSuccess` (`codex.go:259`, `gemini.go:137`): a 500 of Codex or Gemini is
   told to the pool as a success and resets the circuit breaker.

## 6. Plan

The theorems state every safety property that the runs check. What is left is liveness, which
stays with TLC.

Modelling that would add something: PoolHealth with several members per bucket and two
subjects in a run, and RelayFlow's scheduler environment shown to be implemented by RouteLease.

## 7. Not modelled

* String and JSON work: building of upstream requests, the Claude identity and prompt envelope,
  usage and cost, wording of errors. Of the compat translation and the stream writers only what
  reaches the client or the provider, and in which order, is modelled.
* HTTP, TLS, encryption, configuration, request IDs, the web pages, SQL queries that only read.
* Users and authentication: single-row inserts, updates and look-ups without steps in between.
* The transport cache: a map under one mutex whose entries are interchangeable.
* What a request log row contains; that it is written once per try, kept and purged is modelled.
* AutoPriority: a weight among accounts that are eligible anyway (RouteLease takes any weight).
