# Verification of the AI-BOS backend

TLA+ models of the Go backend in `src/`, checked with TLC, and theorems, checked with
TLAPS, about every module with a state: all safety and action properties that hold on
the small instances are also proved for every value of the constants. Paths below are
relative to `src/internal/` unless they start with `docs/`, `cmd/` or `migrations/`.

## 1. The system

The backend is a Go process (`cmd/api`) over PostgreSQL and Redis; a second one
(`cmd/worker`) so far only watches the two stores. Handlers run concurrently, one
goroutine per request; they share nothing in memory but the connection pool. All
interaction between requests goes through rows, row locks,
unique indexes, and the Redis counters. Very little of it is inside a transaction:
only product creation, stock adjustment and business creation are. Everything else
is a sequence of single statements, and other requests can come between any two.

| Component | State | Operations | What is hard |
|---|---|---|---|
| Inventory ledger (`catalog`) | `inventory_balances`, `stock_movements`, `products` | product creation with initial stock, stock adjustment with idempotency key | row locks, unique index, lost commit replies, retries, pool exhaustion, INT range |
| Products, customers (`catalog`, `customers`) | `products`, `customers`, `audit_logs` | create, update (read, merge, write back), archive | update against archive, SKU reuse, repeated archival |
| List endpoints | none; the client's cursor | `ListProducts`, `ListInventory`, `ListMovements`, customers `List` | rows that shift between two pages, the page boundary |
| Accounts and sessions (`identity`) | `users`, `refresh_sessions`, `auth_tokens` | register, login, refresh, logout, forgot and reset password | multi-statement calls without a transaction, single-use tokens, suspension |
| Businesses and memberships (`businesses`) | `businesses`, `memberships` | create, update, invite, update and remove member, tenant resolution | authority checked in one statement and used in a later one |
| Rate limiter (`platform/ratelimit`) | a Redis counter per key | `Allow` | INCR and EXPIRE are pipelined, not atomic; fails open |
| HTTP server (`platform/httpserver`, `cmd/api`) | listener, connections, pool and Redis client | start, serve, drain, close, exit | signal, failing listener and hanging handlers in any order; stores closed under handlers |
| Health and readiness (`platform/httpserver`) | none | `/healthz`, `/readyz` | two concurrent checks, an exhausted pool, timeouts |
| Worker (`cmd/worker`) | pool and Redis client | start-up checks, health loop, exit | a signal while a check hangs |
| Configuration (`platform/config`) | none | `LoadFrom` | defaults, limits that depend on each other, errors collected while loading goes on |
| Authentication (`identity`, `platform/authctx`) | none | `Authenticate`, `RequireAuth` | access tokens are stateless: what they assert may be out of date |
| Audit log (`audit`) | `audit_logs` | one insert after the operation, error dropped | written outside the transaction |

How they interact. Register calls `CreateBusinessWithMember` of `businesses`. The
routers of customers, products and inventory are mounted under
`/businesses/{businessId}` behind `ResolveTenant`, and take the business of every
query from it; before that, `Authenticate` takes the user from the access token.
Register and Login ask the limiter first. Every service logs to `audit`. `cmd/api`
loads the configuration, opens PostgreSQL and Redis, hands them to the handlers, and
closes them in reverse order when `Serve` returns; closing the pool waits for the
connections the handlers still hold.

What makes each component correct, and the hazard behind each property, is listed in
`PROJECT.json` under `hazards`, at the line where it bites.

## 2. The modules

| Module | Models | TLC instance |
|---|---|---|
| `Ledger` | the abstract promise of the inventory: post a movement atomically, never below zero, each key once | (refined by `Inventory`) |
| `Inventory` | the stock adjustment, statement by statement | `MCInventory` |
| `InventoryProofs` | theorems about `Inventory`, its refinement of `Ledger`, sums over movements | |
| `Sessions` | the account of one email address and its tokens | `Sessions.cfg` |
| `SessionsProofs` | theorems about `Sessions` | |
| `Tenancy` | authentication, businesses, memberships, authority | `MCTenancy` |
| `TenancyProofs` | theorems about `Tenancy` | |
| `Records` | products and customers as records | (part of `TenantRecords`) |
| `RecordsProofs` | theorems about `Records` | |
| `TenantRecords` | composition: `Records` behind the middleware of `Tenancy` | `MCTenantRecords` |
| `TenantRecordsProofs` | the composition implements both parts; theorems about it | |
| `Pagination` | a client's walk over a list endpoint | `MCPagination` |
| `PaginationProofs` | theorems about `Pagination` and its operators on sets and sequences | |
| `RateLimit` | one limiter key | `RateLimit.cfg` |
| `RateLimitProofs` | theorems about `RateLimit` | |
| `Config` | what `LoadFrom` makes of an environment: operators, no state | (part of `Process`) |
| `Server` | the accept loop, `Run` and `Serve` | (part of `Process`) |
| `Process` | composition: both programs from configuration to exit, with the handlers' use of the stores | `MCProcess` |
| `ProcessProofs` | theorems about `Config` and `Process` | |

In all of them a request is a name with a program counter `pc[r]`; one action is what
the request does up to the next point where another request can see or affect it.
`Abort` ends a request at any statement (error, timeout, client gone). Operators
introduced by a comment as "mutant" are wrong versions of a definition; no
specification uses them. They document which bug each property catches.

### Inventory

`Receive` is the service's check of the quantity. `Begin` takes a pool connection and
looks the key up; `LockRow` is `SELECT ... FOR UPDATE`; `Probe` is the branch for a
missing balance row; `Write` is the check of the new balance, the UPDATE and the
INSERT under the unique index; `Commit` makes the writes visible, and its
acknowledgement may be lost; `Audit` is the statement after the commit. `Crash` kills
the process. PostgreSQL is modelled as READ COMMITTED: writes show at `Commit`,
`Holders(p)` are the holders of a row lock, `Inserting(k)` the uncommitted entries of
the unique index on which a second insert waits. The empty key (`""` in the body) is
a value of its own: the code does not look it up but stores it.

The column `reserved` is 0 in every row the code writes, so `ErrInsufficientStock`
cannot occur apart from a negative balance; neither is modelled. Because a product
and its balance row are committed together, the branch that initialises a missing
balance only runs when a product becomes visible between two statements, and then
fails on the primary key. The service maps a zero quantity to an error before
opening a transaction.

### Sessions

One account; `Requests` are numbered in order of arrival, and a row is named by the
request that inserted it (`Earlier` names a row from before). A client knows a
session only if the call that made it was answered. `ForgotPassword` drops the token
it makes; it is taken to reach its owner outside the API, as the reset endpoint
requires. No API suspends an account: `Suspend` is an operator's change in the
database. The initial states are an empty database and an account with a session
and a reset token.

Refresh and logout requests name a token the client holds; requests with unknown
tokens fail at the first statement and change nothing. `VerifyEmail` consumes a token
of purpose `email_verification` and always fails, since no code creates one. Access
tokens are stateless. This component's audit entries are left out: no property reads
them.

### Tenancy

`Authenticate` is the middleware of that name with `RequireAuth`: a valid token names
its user, and nothing stored is looked at. `ResolveTenant` covers
the middleware of that name and `RequireTenantRole`;
`GetBusinessByID` is the check every repository method repeats; `FetchMember` reads
the member concerned; the write is a statement of its own. A member row is named by
what inserted it, so that a new invitation of a removed user is another row. `held` is
a history variable: the authority a request's caller has had at any moment since the
request came in; `Observe` adds to it in every step. Operations of the other routers are `record`. Listing the user's
businesses reads one table once and is left out.

### Records

Products and customers are handled alike, so one module models both: a customer has no
SKU. Columns are a small set of fields, and a value is the name of the request that
set it, so that a lost update shows. `Found` is the condition every statement repeats
(id, business, not archived); `Load` reads the row, and `Store` writes back all of its
columns, merged with those the request names. `Applied` is a write whose
acknowledgement may be lost. `before` is a history variable: the requests already
answered when this one came in, that is, those it was not concurrent with.

The code promises no protection from lost updates, and `UpdatesKept` says exactly how
far they can go: a column an update was told is stored is reverted only by an update
that was under way at the same time.

### TenantRecords

A record request has two halves. `tpc` says how far the middleware has got (`Tenancy`,
instantiated as `T`); while that waits in "write" for the handler, `pc` says how far
the handler has got (`Records`). `Enter` is where the handler takes the business from
the tenant context. `Managers` are requests of an owner, which change memberships
meanwhile. Businesses are not created here: a request can only name one that exists,
and both do. This is where the consequences of checking a membership once show: a
member suspended after `ResolveTenant` still completes the request, but never touches
another business's rows.

### Pagination

A position stands for `(created_at, id)`. `Endpoint` selects how the cursor is made:
`"items"` for ListProducts, ListMovements and customers List (last row returned),
`"inventory"` for ListInventory (last row scanned). The cursor's text is parsed back
without loss, because PostgreSQL keeps microseconds and the layout nanoseconds.

### RateLimit

`passed[i]` is a history variable: the attempts let through in the current tick and the
`i` before it, for each `i < Window`. The counter saturates at `MaxAttempts + 1`, beyond
which all values are refused alike.

### Config, Server, Process

`Config` translates `LoadFrom`: a value is what the checks tell apart (a URL is "plain"
or "tls", an origin its scheme, a secret published, short or long, a duration its
seconds); `Errors` is the set of settings with an error, `Accepted` says it is empty.
What does not parse counts as zero in the checks that follow, as in the code.

`Server` has one action per branch of `Run` and `Serve`; net/http is modelled by what
they rely on: Shutdown closes the listener and waits for open requests, Close cuts
them, and cutting a request does not stop its handler.

`Process` puts both programs around it: `Load`, `OpenPostgres`, `OpenRedis`, for the
worker its checks and its loop, for the API the server and its handlers, and the
deferred closings. A handler is a request for `/healthz`, for `/readyz` (one check of
each store, in goroutines of their own, results through one channel), or any other one
("query": a statement that needs a connection of the pool). `PoolDrained` is
`pgxpool.Close`, which waits for the connections to come back.

## 3. What TLC checks

| Run | Distinct states | What it shows |
|---|---|---|
| `inventory` | 881 000 | `BalanceIsLedgerSum`, `LedgerStep`: no lost update, balances are the sum of their movements; `OneMovementPerKey`; `AnswerTruthful`: an answer is never wrong about what moved; `AuditedOnlyCommitted`; `ImplementsLedger`, the refinement; `IndInv`, the invariant of the proofs |
| `inventory_live` | 221 000 | `RetryNeverRejected`; `EveryRequestAnswered`: no wait for the pool, a row lock or an index entry is for ever |
| `sessions` | 528 000 | `RotationRetires`, `RetiredTokenFails`, `ResetTokenOnce`, `RegistrationComplete`, `SuspensionHolds`, `IndInv` |
| `tenancy` | 677 000 | `EveryBusinessHasOwner`, `OneMembership`, `AuthorityHeld`, `TenantIsolation`, `NoResurrection`, `IndInv` |
| `tenant_records` | 1 216 000 | of the records: `LiveSkuUnique`, `ArchivedFrozen`, `OneArchive`, `UpdatesKept`; of the composition: `ReadsWithinTenant`, `WritesWithinTenant`, `TenantIndInv` |
| `pagination` | 22 000 | `InOrderOnce`, `NothingSkipped`, `WalkEnds` for the three endpoints that share a cursor rule; `IndInv` |
| `ratelimit` | 390 | `LimitHeld`, `NeverLockedOut`, `IndInv` |
| `process` | 95 000 | `GracefulDrain`: a clean end was asked for and has answered everything, and no end leaves a store open; `ReadinessTruthful`; `ProcessEnds`, `EveryRequestEnds`: nothing hangs although a store never answers, and a failed start ends the process too; `IndInv`, in it `SafeSettings`: a process goes on only with a safe configuration |

`IndInv` (`TenantIndInv` in the composition, where it contains the one of `Records`) is the
inductive invariant of the proofs, which contains the type invariant. Checking it keeps
model, run and proof about the same thing: what section 4 assumes of a state, TLC has
seen in every state of the instance.

Four runs end in a violation: the code does not do what a document, a comment or a
test says.

| Run | Property | What happens |
|---|---|---|
| `key_reuse` | `ReplayMatches` | a key reused for another adjustment is answered with the recorded one; docs/04-api-contract.md promises 409 |
| `double_refresh` | `OneSuccessor` | two concurrent uses of one refresh token both succeed; the integration test says reuse must fail |
| `owner_removed` | `OwnerNotRemoved` | a member promoted between the role check and the DELETE is removed as an owner. `EveryBusinessHasOwner` still holds, since the promoter is an owner |
| `inventory_list_skip` | `NothingSkipped` | `ListInventory` never returns the row after a page |

### Bounds

Three requests are enough for a race of two and a third that observes or repeats.
`inventory_live` has two products that share the key: requests for one product wait for
its row lock, and a request for the other one, which has a lock of its own, waits for
the uncommitted index entry alone, while the third waits for a connection. It leaves out
adjustments without a key, with which the liveness check takes too long; they wait for
the row lock and the pool as the others do. A lock or an index entry that outlives its
transaction (`LeakedHolders`, `LeakedInserting`) breaks `EveryRequestAnswered` here.
`inventory` checks no liveness. A stock of 2
with deductions of 2, additions of 1 and `MaxInt = 2` reaches the negative and the
overflowing balance; a pool of two makes the third request wait. Two businesses and
two users, one of them owner of the other business, are what isolation and
escalation need. Five positions and pages of one to three give walks of several
pages, a full last page and an empty one; the limits include the defaulted and the
too large ones. `Window = 2` lets the key expire between INCR and EXPIRE.

`tenant_records` has three record requests and one manager: an update, a second one
overlapping it and an archival, or a creation with the SKU of an archived product, while
the caller is suspended. `process` has two connections and a pool of one
(`MaxConns`, `PoolMax`): a statement makes the readiness probe wait. `MCEnvs` are 138
environments, 30 of them accepted: those of README.md and `config_test.go`, all that
differ from one of these in one setting, and all combinations of the numbers with a
common limit. Operators of `Config` look at one or two settings at a time, apart from
APP_ENV, which the six starting points vary.

Runs with symmetry (`inventory`, `tenancy`, `tenant_records`) check no liveness. Runs of
requests that are each handled once end when all are answered, and a process ends, so
they do not check deadlock; `EveryRequestAnswered`, `WalkEnds`, `EveryRequestEnds` and
`ProcessEnds` say instead that they end well.

### Fairness

`Inventory!FairSpec`: each request's own steps are weakly fair. A runnable goroutine
runs, and PostgreSQL serves waiters when the holder's transaction ends. Clients,
aborts and crashes owe nothing. `Pagination`: the client asks for the next page.
`RateLimit`: time passes. `NeverLockedOut` assumes that attempts reach Redis infinitely
often, since only an attempt repairs a lost EXPIRE. `Process`: the main goroutine, the
accept loop and what a handler does by itself are weakly fair, the timeouts of checks,
requests and shutdown included; stores are never assumed to answer (`Succeed` has no
fairness). `WorkerDone` is strongly fair, because Go's `select` chooses at random among
the ready cases, so `ctx.Done` is taken sooner or later although the ticker may be ready
each time.

## 4. What is proved

Every safety invariant and every action property of the passing runs is a theorem:
it holds for any number of requests, rows, users, keys, connections and positions, any
limit and any pool. The type invariants are theorems too (`TypeCorrect`).

The assumptions are those the modules name. Names are apart (`KeyAssumption`,
`NamesApart`, `RowsApart`, `ManagersApart`, `ValuesApart`, `OpeningAssumption`,
`PasswordAssumption`); numbers are positive or natural where the code or the schema
makes them so (`NumberAssumption`, `RequestAssumption`, `LimitAssumption`,
`PoolAssumption`, `ConnAssumption`); inputs have their types and rows that exist at the
start respect the schema's unique indexes (`InputAssumption`, `CallAssumption`,
`MadeAssumption`, `MemberAssumption`, `FounderAssumption`, `TenancyAssumption`,
`EnvAssumption`, `EndpointAssumption`). TLC evaluates all of them in the runs.

The pattern is the same everywhere: `Invariant` is the theorem that `IndInv` is
inductive, with one lemma per action; the properties follow from it. What each
`IndInv` adds to its properties is the reason why the code is right:

`InventoryProofs`. A request that holds the lock has read the committed balance
(`ReadIsCurrent`), since only a lock holder commits to the row; what a request is about
to write fits the column (`WriteFits`); a request before its commit has no movement and
no audit entry (`NothingYet`); the answer being prepared is already justified
(`AnswerPrepared`). `LedgerStep` says that a balance changes exactly by the movement
committed with it (`Posting`). `Refinement`: `Commit` and `CreateProduct` with stock
are steps of `Ledger`, everything else stutters. `RetriesAreNotRejected` is temporal: from
the moment named on, a predicate (`Settled`) holds, and is stable.
`BalancesAddUp` needs sums over the growing set of movements. `Total` is the fold of the
community modules, whose recursion is a function on subsets; that it exists
(`TableExists`), that it does not depend on the set it is defined for (`TablesAgree`)
and that the order of adding does not matter (`TotalWithout`) are proved by taking a
smallest exception among the subsets of a finite set (`Smallest`), which uses the
well-foundedness of the subset ordering and needs no induction scheme.

`SessionsProofs`. A request has created nothing before it is done; the call fits the
statement it is at; from its revocation on a refresh has a dead predecessor, and dead
sessions never come to life (`PredecessorDead`); one request at most holds a consumed
token or a new address (`OneHolder`). `RetiredTokenFails` and `SuspensionHolds` are
temporal, with the stable predicates `Refused` and `Barred`.

`TenancyProofs`. `EveryBusinessHasOwner` is not inductive by counting owners: the
role check and the write are two statements, and between them anything may happen. What
holds is stronger: the row a business was founded with is there as long as the business
and stays an owner's (`FounderStays`), because whoever fetched it has read the role
"owner" (`ReadOfMember`), and the code refuses to remove or demote what it read as
an owner. `Admitted` says that a request behind the middleware has had its authority at
some moment; `AuthorityHeld` follows. `TenantIsolation` and `NoResurrection` are read off
the writes, which are all by id and business, and updates and deletions only.

`RecordsProofs`. `UpdatesKept` needs to know what an update in progress is about to
write back: `LoadedIsFresh` says it holds every column set before the update came in,
unless that column is lost to an overlapping one already (`Overwritten`, which once true
stays true). `ArchiveEffect` gives `OneArchive`; `LiveSkuUnique` comes from the index
condition alone.

`TenantRecordsProofs`. `ImplementsRecords` and `ImplementsTenancy`: the composition
implements each half. Thus what is proved of `Records` holds behind the middleware
(`RecordsKeptBehindTenant`, `ArchivedFinalBehindTenant`), although the middleware aborts
requests and decides which calls arrive. `ReadsWithinTenant` and `WritesWithinTenant`
need both halves: `Tenanted` says that the handler works only while the middleware
waits for it, for the business asked for, and that the caller was a member. The theorems
of `TenancyProofs` apply to the composition through `ImplementsTenancy` too, but are not
restated there: the prover cannot use theorems of an instance with substitutions.

`ProcessProofs`. `AcceptedIsSafe` covers every environment, not only the 138 of the
run. `GracefulDrain` needs the stages of `Run` (`ServerStages`; TLC's instance satisfies
a weaker form, but without "Shutdown, Close and the final receive come after a signal"
it is not inductive), that nothing is cut off before the deadline or the end
(`CutInTheEnd`), that the stores are closed after the server (`EndAfterServer`), and
where in `run` each store can be open (`OpenWhen`), however the start went.
`ReadinessTruthful` follows from `ResultsTaken`: a result that the probe has taken from
the channel is what the check of that store found.

`PaginationProofs`. The lemmas say what the queries return: `Descending` enumerates a
finite set once and in order (`RankBijective`, `DescendingOrders`), `Top` is an upper
part of it (`TopIsUpperPart`), and a page that is not full is everything
(`ShortTopIsAll`). What was given lies at the cursor or above it (`GivenAbove`), and
everything that matched all along at the cursor or above it was given (`GivenDownTo`).
`ListsAreWhole` has the hypothesis `Endpoint = "items"`, because for the inventory's list
the property is false (run `inventory_list_skip`); `InOrderOnce` holds for both.

`RateLimitProofs`. `OneKey`: over the ticks that the present key has lived through for
certain (`Age`), nothing but that key has let anything through. `TwoKeys`: over a whole
window there has been one more key at most. The bound of twice the limit follows.

Model-checked only: all liveness (`EveryRequestAnswered`, `WalkEnds`, `NeverLockedOut`,
`ProcessEnds`, `EveryRequestEnds`), which is out of the prover's reach; and the four
violations.

## 5. Known limits of the code that no run states

These are visible in the models but allowed by them, as the code has them: overlapping
updates of products, customers and businesses overwrite each other's columns
(docs/04-api-contract.md:14 asks for If-Match; `UpdatesKept` bounds it); a retry of an
adjustment that looks its key up before the first attempt commits may be refused (stock
already taken, or the unique index) although that one succeeds, and only a further retry is
answered from the record (`RetryNeverRejected` is about keys on record already); a reset that is
answered "ok" may leave sessions live, because the error of the revocation is dropped and
a refresh in progress may insert one later; a failed registration leaves its user; an audit
entry may be missing (docs/02-architecture.md:82 says it is written with the rows); an
owner may suspend its own membership; ACCESS_TOKEN_TTL and REFRESH_TOKEN_TTL are
parsed but need not be positive (`platform/config/config.go:163-164, 290-304`). Not in any
model: the limiter's key holds the client's port (`identity/handler.go:67`), so that each
connection has a limit of its own.

## 6. Not modelled

Token signatures and password hashing (primitives), HTTP middleware without state
(headers, body limit, panic recovery), the request context, logging and metrics, and the
queries that only read rows once. The audit entries of `identity` and `businesses`: nothing
reads them. Documents under `docs/` describe much that is not implemented yet (orders,
invoices, outbox, AI assistant): there is no code to model.

## 7. Plan

1. Core: `Ledger`, `Inventory` with its proofs; `Sessions` with its proofs; `Tenancy`;
   `Records`; `Pagination`; `RateLimit`; `Server`. Done.
2. Extension: `TenantRecords`, the composition of `Tenancy` and `Records`; authentication;
   the bound on lost updates; `Config` and `Process`, the life of both programs with
   readiness and the closing of the stores. Done.
3. Prove more: `Tenancy`, `Records`, the composition with both refinements, `Process`
   with `Config`, `Pagination`, `RateLimit`; of `Inventory` the sum of the ledger and
   the retry. Done: no safety or action property of a passing run is left unproved.
4. Next: read the proofs again for steps that cite more than they use; an abstract
   specification of `Records` (each operation at once, under the names of the API) with
   `Records` shown to implement it; the same for `Sessions` and the life of one session.
