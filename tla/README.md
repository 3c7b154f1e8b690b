# Formal model of the Item service

TLA+ modules for the Go service in `src/`: what its concurrent parts do, step by
step, what is checked of them with TLC on small instances, and what is proved
with TLAPS for every instance. Each definition that models code is listed with
its source lines in `PROJECT.json` ("map").

## The system

A client creates, reads and lists *Items* over HTTP. A create may carry an
`Idempotency-Key`; a retry with the same key within the retention window must
answer the Item of the first attempt. The parts:

| Part | Source | Shared state | What makes it hard |
| --- | --- | --- | --- |
| In-memory store | `internal/item/memory` | `items`, `idempotency`, `inflight`, two mutexes | the lock is released around the insert; the clock is read before the lock; cancellation at any point |
| PostgreSQL store | `internal/item/postgres` | two tables, advisory and row locks | replicas interleave statement by statement; lost COMMIT replies; rollbacks that give up; expiring rows |
| Item service, cursors | `internal/item` | signing key, clocks | Items appear between pages, with equal or skewed timestamps; cursors expire |
| Rate limiter | `pkg/ratelimit` | token buckets | late clock readings; a bounded map |
| HTTP adapter and middleware | `internal/item/httpapi`, `internal/controller/http` | limiter, logs, metrics, spans | panics unwind through the middlewares; keys of limiter and replay scope; joined errors |
| Process lifecycle | `cmd/app`, `internal/app`, `pkg/httpserver` | context, notify channel, pool, span queue | a select with two ready cases; handlers that outlive the shutdown timeout |
| Configuration | `config`, and each constructor's own checks | the environment | the same settings are judged in five places |
| Authentication | `pkg/auth` | none | a strict grammar at its edges |
| Metrics | `pkg/metrics` | counters and gauges per series | labels must stay bounded; panics between raise and lower |
| Telemetry, logging | `pkg/telemetry`, `pkg/logger` | the queue of ended spans | shutdown order |
| Bootstrap command | `cmd/bootstrap` | files of a checkout | files are replaced one by one; names contain one another; it is run again |
| Small commands | `cmd/healthcheck`, `cmd/migrate` | none | one call each |

`httpapi` calls `item.Service`, which calls one store; the security middleware
in front of it asks the limiter and attaches the idempotency scope; `app` starts
and stops the whole, from what `config.Load` read. `cmd/bootstrap` stands alone: it
turns a checkout of the template into a new project.

## Modules

| Module | Models | Instance |
| --- | --- | --- |
| `IdempotentCreate` | the promise of `IdempotentCreateStore`: Item and replay record appear together, a record is kept for its window and never replaced | (abstract) |
| `MemoryStore` | `Create` and `CreateIdempotent` of the memory store | `MCMemoryStore` |
| `PostgresStore` | the same operations as SQL statements of concurrent sessions | `MCPostgresStore` |
| `CursorPagination` | `List`, `ListCursor`, `ListAfter` and the codec while Items are created | `MCCursorPagination` |
| `RateLimiter` | `AllowN`, `Cleanup`, `Len` | `MCRateLimiter` |
| `Authentication` | the bearer header, from its values to a subject | (used by `RequestPipeline`) |
| `Metrics` | the labels of series and samples | (used by `RequestPipeline`) |
| `RequestPipeline` | router, middlewares, handler and service, composed with `IdempotentCreate` as the store | `MCRequestPipeline` |
| `Configuration` | `Load`, `Validate`, and what the constructors and the probe accept | (used by `AppLifecycle`) |
| `AppLifecycle` | `main`, `RunContext`, the serving goroutine, handlers, pool and spans | `MCAppLifecycle` |
| `Bootstrap` | the bootstrap command, its file system and its operator | `MCBootstrap` |
| `MemoryStoreProofs`, `PostgresStoreInvariant`, `PostgresStoreProofs`, `CursorPaginationProofs`, `RateLimiterProofs`, `RequestPipelineInvariant`, `RequestPipelineProofs`, `AppLifecycleProofs` | theorems about the module of that name | |

How state and actions correspond to the code:

* **MemoryStore.** A step is the code between two points where another goroutine
  can interfere. `items`, `idempotency` and `inflight` are the maps; the mutex
  `idempotencyMu` is a variable, because the code unlocks it by hand on each
  return path and takes `mu` inside; sections under `mu` are single steps. `now`
  is each call's clock reading, taken before the lock. `ledger` is a history
  variable: which Items were made under which key, and when.
* **PostgresStore.** A step is one SQL statement of one session. The database is
  external and modelled from what the statements ask of it (READ COMMITTED,
  advisory locks, `FOR UPDATE`, `SKIP LOCKED`, unique keys, deadlock detection).
  A failed call may leave its transaction open, and a COMMIT whose reply is lost
  may still be applied, as may the single INSERT of a create without a key.
* **CursorPagination.** A page is one step, since each store answers from one
  snapshot. Creating is two steps, stamping and storing. The HMAC is taken to be
  unforgeable, and the codec is modelled by what decoding checks.
* **RateLimiter.** Reading the clock and the section under the mutex are separate
  steps. Tokens are counted in parts, so fractions are exact; `float64` rounding
  is not modelled. `MaxRetry` is `maxRetryDuration`, at which a wait is cut.
* **RequestPipeline.** `Stack` is the order in which `buildRouter` mounts the
  middlewares. A request enters all of them, passes the security middleware, its
  handler and the service, and returns through them one by one; a panic skips what
  follows `c.Next()` but not what is deferred. An error is the set of sentinels
  it wraps, and `ErrorTable` is `writeServiceError`. Tracing and metrics are
  mounted. The ID generator is the default `uuid.NewRandom`, which may fail, or one
  given with `WithIDGenerator`, which may also return something that is no UUIDv4.
  The limiter is reduced to tokens per key under `RejectNew`, the policy `app.go`
  sets.
  An `Authorization` value is a sequence of symbols (the scheme word, a token
  character, `=`, white space, anything else), and a route is the sequence of its
  segments, so that `ParseBearerHeader` and `NormalizeRoute` are modelled by what
  they do. `inFlight` is the gauge of each series.
* **Configuration.** An environment is a function from the names that are set to
  texts; a text stands for one kind of value the code tells apart ("long",
  "control", "odd", " 9090 "). `load` and `Validate` are predicates, as are the
  checks of logger, telemetry, authentication and limiter, each translated from
  its own source. Rates and durations are whole numbers, ratios per cent.
* **AppLifecycle.** `main` is where `main` and `RunContext` are, including the
  deferred functions; `env` is dropped once the server has started, since nobody
  reads it any more. A sampled span is queued when its handler returns, exported
  in the background, and flushed or given up by the provider's shutdown;
  `net/http`, `pgxpool` and the SDK are external.
* **Bootstrap.** A text is a sequence of atoms. Reading and deciding (`run` up to
  the loop) is one step, since nobody else is assumed to write meanwhile; each
  call of `atomicReplace` that touches the file system is one. `tree` is what
  processes see, `disk` what survives a power loss: a rename is durable once its
  directory was synced, and the content of a file that was not flushed before its
  rename may be lost. `dirSync` tells whether the platform can sync a directory;
  where it cannot, `syncDirectory` fails and the run ends after its first rename,
  since such an error is never `os.ErrInvalid`. Git's own writes are taken to be
  durable. The operator
  restores, commits the first success and runs the command again.

## Runs

| Run | Bounds | Shows |
| --- | --- | --- |
| `memory_window` | 3 goroutines, 1 key, 2 fingerprints, 2 IDs, window 2 of 3 ticks | one Item per key and window, replays answer their own Item, no dangling entry, nothing expired replays |
| `memory_live` | 2 goroutines, 2 keys, 1 entry | the size limit holds, requests return, markers are cleared, and the store implements `IdempotentCreate` |
| `postgres_window` | 3 sessions, 1 key, window 1 tick | one Item per key and window, own Items, no dangling row, one writing transaction per key |
| `postgres_live` | 2 sessions, 2 keys with older rows, cleanup of 1 row | transactions end although cleanups can deadlock, and the store implements `IdempotentCreate` |
| `rate_limiter` | 2 goroutines, 3 keys for 2 slots, both policies, 2 ticks, waits cut at 1 tick | a bucket never hands out more than its burst and refill since it was made, the map is bounded, `RetryAfter` is exact unless it is cut, active buckets stay |
| `cursor_walk` | 3 Items, pages of 1 and 2, a cursor lifetime of 2 ticks | pages are in order without repeats, a walk misses nothing that was there, a walk can go on, cursors live as long as configured |
| `request_pipeline` | 2 requests of 12 kinds with controls off, authentication on, both on; 3 requests for 2 limiter slots; 1 request with any header of up to 3 symbols, or of up to 4 after a scheme | one access event, metrics sample and span each; own Items only; one 201; refusals have no effect; server faults are not the client's; refused credentials cannot use up a principal's tokens or slot; only RFC 6750 tokens that are configured identify anybody |
| `app_lifecycle` | 2 requests; 4860 environments | what `Load` accepts no constructor refuses (two named exceptions), production is safe, resources are released in order, cut-off requests are reported, spans are flushed, the process and the serving goroutine end |
| `bootstrap` | 6 files, one of them binary, 15 command lines, 2 faults, 1 `--force` | a success without `--force` leaves exactly the new identity, files are whole whatever happens and what such a run wrote is durable, a rerun changes nothing, a run that nothing disturbs succeeds where directories can be synced |

Three runs show where a document or a comment and the code disagree; TLC finds the
property violated:

* `postgres_expired`: the lookup does not compare `expires_at`, and the cleanup
  is bounded and skips locked rows, so an expired row can still replay or refuse.
* `app_swallowed`: when the context ends as serving fails, the `select` may take
  the context's case and `RunContext` returns nil.
* `bootstrap_platform`: `syncDirectory` means to tolerate a platform that cannot
  sync a directory, and tests for `os.ErrInvalid`. A refused sync is a `PathError`
  around an errno, so the run fails with one file replaced. The instance is that
  of `bootstrap` without faults and without `--force`.

**Why the bounds suffice.** Three concurrent requests on one key are one that
makes the Item, one that retries and one that races either; two keys are what
cleanups need to deadlock; a clock one tick past the window separates "inside",
"at the end" and "expired". Two slots with three keys fill the limiter. Two
requests are a lost attempt and its retry; three are needed to fill the limiter
against a principal. Two changed settings are what a rule of `Validate` relates
at most (a flag and what it guards), starting from an empty environment and from
a complete one for production. Two faults are an interrupted run and an
interrupted recovery; the command lines of `bootstrap` include a slug that
contains the old one, a slug that is not the module's, a major version, the
template's own owner, and the way back to the template. The instance with two
`--force` passes as well; its 1.8 million states take ten minutes. Symmetry is used only over goroutines, sessions, requests
and values that no definition tells apart, and only with safety properties.

**Fairness.** Weak fairness of a goroutine's next step (the Go scheduler runs
runnable goroutines; sections under the mutexes are finite), of a session's next
statement and of PostgreSQL's deadlock detection, of `RunContext`, the serving
goroutine and a query in progress (statements end), and of a step of the running
bootstrap command. No fairness is assumed for
clients, the clock, cancellations, or handlers, which may hang.
`CHECK_DEADLOCK FALSE` is set where a finite set of requests comes to an end.

**The retention window.** The repository's README says that the window "starts only
after the Item and replay record commit together". `idempotencyInsertQuery` counts
it from the INSERT of the key row, so a slow COMMIT shortens what is left of it;
`AtMostOneItemPerWindow` is stated for the window as the code counts it.

**What the bootstrap model shows besides.** No run is about these; they are
limits of the command that follow from the code.

* With a slug that is not the last element of the module path (module
  `github.com/acme/orders`, slug `orders-api`) a second identical run is not
  idle. `normalizeReplacements` drops the module rule, which has nothing to
  change, and the slug `orders` that the second run infers from `go.mod` is then
  replaced inside the module path. `docs/template-smoke.md` calls the bootstrap
  idempotent, and its smoke test shows it where slug and module agree;
  `AlignedRerunIsIdle` is stated for these command lines.
* After an interruption past `go.mod`, a forced rerun learns the new identity
  from `go.mod`, leaves the old names in the later files and reports success. It
  may also be refused, when the two policy documents name different addresses.
  Restoring the checkout and running again works.
* Forced runs on a half-renamed tree can break `go.mod` and report success. When
  the `LICENSE` names the owner as its holder (`acme`) and a run gives an author
  (`acme team`) but keeps module and owner, the rules for these have nothing to
  change and are dropped, and the author's rule rewrites the owner inside the
  module path. For this reason `SuccessIsComplete` says nothing of runs with
  `--force`.
* A run that has nothing to change syncs nothing. If a forced run back to the
  template failed after its last rename, a following run reports success for a
  tree that a power loss may still change. For this reason `FilesWhole` promises
  durability only for the files that differ from the commit.
* A killed run leaves a `.bootstrap-*` file, which makes the next unforced run
  refuse the worktree as dirty.

## Proofs

Every invariant that a passing run checks of the two stores, the pagination, the
limiter, the pipeline and the lifecycle is proved, and so are three action
properties and both refinements, for every value of the constants that satisfies
the named `ASSUME` of the module that declares them (`StoreAssumption`,
`PostgresAssumption`, `CursorAssumption`, `LimiterAssumption`,
`PipelineAssumption`, `BearerAssumption`; `AppLifecycle` needs none). TLC
evaluates each assumption in the runs of its module. The pattern is always the
same: a strengthening `IInv`, a lemma per action or group of similar actions,
`InductiveInvariant`, and then a theorem per property.

| Module | Proves |
| --- | --- |
| `MemoryStoreProofs` | `TypeCorrect`, `OneItemPerWindow`, `OwnItemAnswered`, `NoDangling`, `Bounded`, `OutsideWindowIsNew` (an action property), `Refinement` |
| `PostgresStoreInvariant`, `PostgresStoreProofs` | `TypeCorrect`, `OneItemPerWindow`, `OwnItemAnswered`, `NoDangling`, `KeySerialized`, `Refinement` |
| `CursorPaginationProofs` | `PagesStayInOrder`, `WalksComplete`, `ContinuesAlways`, `CursorsExpire` (an action property) |
| `RateLimiterProofs` | `TypeCorrect`, `BoundsRate`, `RetryIsExact`, `KeepsActiveBucket` (an action property) |
| `RequestPipelineInvariant`, `RequestPipelineProofs` | `TypeCorrect`, `AccountsOnce`, `AnswersOwnItem`, `CreatesOnce`, `RefusesWithoutEffect`, `BlamesNoServerFault`, `LimitsByOwnUse`, `AuthenticatesByBearer` |
| `AppLifecycleProofs` | `CutOffIsReported`, `ReleasesResources`, `FlushesTraces`, `ConfigurationIsAgreed`, `ProductionIsSafe` |

**MemoryStore.** `AtMostOneItemPerWindow` is not inductive: between the insert
of the Item and the record of its entry only the in-flight marker protects the
key. `IInv` adds who holds the mutex (`MutexHeld`), that a marker has exactly one
owner (`OneOwner`) and excludes an entry (`MarkedOrRecorded`), that clock
readings lie in the past (`ClocksBehind`), how the ledger relates to items,
entries and owners (`LedgerStored`, `InsertedInLedger`, `EntriesInLedger`), and
that every Item still inside its window has an entry or an owner with the marker
(`WindowGuarded`). For the refinement the abstract create happens at the insert:
until the entry is written the marker stands for the replay record.

**PostgresStore.** The theorems hold for any number of sessions and any
assignment of advisory lock IDs, colliding ones included. The argument runs along
the locks. The advisory lock is held from its acquisition to the end of the
transaction (`LocksHeld`); a row has one locker and is deleted only by it, and
only once expired (`RowsLocked`, `DeletedExpired`); so what a lookup found
missing is still missing at the insert (`NothingVisible`), and an uncommitted row
dates from after the windows of all earlier Items of its key (`WrittenRow`). A
row about to be replayed stays locked until COMMIT (`StoredRow`). For the
refinement every statement is a stutter except the ones that begin, commit and
end a call; a COMMIT whose reply is lost performs the abstract create if it was
applied, and otherwise the call fails like any other.

**CursorPagination.** The list is ordered strictly by timestamp and ID
(`ListOrder`), and an Item's rank counts those before it. Ranks below the
cardinality are all taken (`RankOnto`), which is what makes a page the next
`limit` rows, and a short page the last one (`RowsBounded`, `RowsFull`). `IInv`
says of each walk that its cursor separates the list: everything due before the
cursor's Item has been shown and nothing behind it has. An Item created later
falls on one side or the other, and the invariant holds in both cases, equal
timestamps and skewed clocks included.

**RateLimiter.** `RateBound` follows from what each bucket has handed out *and
still holds* (`SoundBucket`), since a refill turns elapsed time into tokens and a
late reading may not count the same time twice. The arithmetic (a rate times an
interval, the ceiling and the cap in `RetryAfter`) is in lemmas of its own.

**RequestPipeline.** `IInv` says of each place in the code what the response, the
panic flag, the observers, the identity and the store's phase of a request there
are (`Positions`, `Identities`, `Phases`), that each gauge is the number of
active requests of its series (`Gauges`), that a bucket lacks no more tokens than
its key has spent (`Limits`), which requests made what is stored (`Made`,
`Answers`), and why a status was given (`Reasons`). With authentication on the
keys are the principals and one for all refused credentials, so `MaxClients`
above the number of principals keeps a slot for each. Nothing in the code demands
that much room (`RATE_LIMIT_MAX_CLIENTS` may be 1), so it is a condition of
`LimitedByOwnUse` itself: with fewer slots a principal may be told 429 because
others hold them all. `PipelineAssumption` does say that the words for refused and
invalid credentials are no subjects.
`FaultNotBlamedOnClient` states its one exception: `Create` and `CreateIdempotent`
join `ErrInvalidInput` to `ErrIDGeneration` when the generated ID is no UUIDv4,
and `writeServiceError` answers 422 to a valid request. `app.go` installs no
generator, so this needs one given with `WithIDGenerator`, as the service's tests do.
`AuthenticatesByBearer` rests on two lemmas about `ParseBearerHeader` for
headers of any length: only the scheme, one space and a token pass
(`HeaderOfToken`), and every such value does, with that token (`TokenOfHeader`).
The store of the pipeline is `IdempotentCreate` at one instant, so inside one
window; that the two stores implement `IdempotentCreate` is what the `Refinement`
theorems say. The composition of the pipeline with either store is not a theorem.

**AppLifecycle.** `IInv` ties the state of pool, provider, handlers and errors to
the place of `main` (`PoolHeld`, `TracingHeld`, `HandlersDone`). The theorems
about the configuration say more than the run: `Environments` is any set, where
the run tries 4860 environments. They rest on lemmas about what `Load`
accepts (`ValidatedIsUsable`, `LoadedLimits`, `LoadedPort`, `LoadedProduction`).

Only model-checked:

* the liveness properties `RequestsReturn`, `TransactionsEnd`, `Stops` and
  `UndisturbedRunSucceeds` (fairness and ENABLED are out of the prover's reach);
* the invariants of `Bootstrap`. `SuccessIsComplete` and `AlignedRerunIsIdle` say
  what `Scan` computes for a whole text, and the first half of `FilesWhole` needs
  that no text it computes is `Torn`: each is an induction over the text, which
  the prover cannot do. The second half of `FilesWhole`, durability, needs no such
  induction; it is not proved on its own.

The prover can neither do induction over data nor use RECURSIVE operators, and no
module with theorems uses the latter.

`TypeOK` of the memory store is in no run: `TypeCorrect` proves it.

## Plan

Lock-ID collisions and more sessions in the `PostgresStore` runs (the theorems
cover them); a retrying client in front of `RequestPipeline` with lost responses
and expiring windows.

## Not modelled

* The syntax of UUIDs, queries, JSON and request IDs, which appears as
  well-formed, malformed or invalid; hashing, taken to be injective; the length
  limit of a metrics label; scopes of a principal, which no code of the service
  reads.
* `float64` rounding in the limiter.
* A full span queue, which drops spans inside the OpenTelemetry SDK.
* No run reaches the cases of `NormalizeRoute` (which is modelled) for `{id}` and for
  segments that look like identifiers: gin passes only the patterns `buildRouter`
  mounts.
* Resource attributes, the OTLP exporter, the metrics registry and the log
  encoders, which are wiring of libraries.
* In `cmd/bootstrap`: matches inside a word, file modes, the checks that keep
  paths inside the checkout, and edits by others while the command runs, which
  are overwritten.
* `cmd/migrate`, which makes one call of golang-migrate; the request of
  `cmd/healthcheck` (its port is in `Configuration`); the smoke script.
