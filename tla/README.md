# scrape in TLA+

This directory specifies and verifies parts of `scrape` (Go): a service and a set
of command line tools that fetch web pages, extract their metadata and text, and
keep the result in an SQL store. Line numbers below are those of the repository.

- `tlc -config X.cfg MC<Module>.tla` checks a small instance,
- `tlapm <Module>Proofs.tla` checks the proofs, which hold for every value of the
  constants,
- `PROJECT.json` maps every definition to the lines it models and lists components
  with how far each is modelled, runs, theorems, hazards, mutants and findings.

## 1. Inventory

| Part | State | Operations | What is hard |
| --- | --- | --- | --- |
| **Database handle** `database/database.go` | `*sql.DB`, context, statement cache, `done` channel, `closed`, mutex, buffered channel of close listeners | `Open`, `Statement`, `Ping`, `AddCloseListener`, `Maintenance`, `StopMaintenance`, `Close` | shared by every goroutine; closes itself in a goroutine of `context.AfterFunc`; reads its fields without the mutex; calls listeners with the mutex held |
| **URL store** `internal/storage` | tables `urls` and `id_map` | `Save`, `Fetch`, `Delete`, `Clear`, the daily maintenance | two statements and no transaction; crash between them; row and mapping read at different times; seconds against a finer clock |
| **Storage backed fetcher** `internal/scrape.go` | WaitGroup `saving`, `closed` | `Fetch`, `Wait`, `Delete`, clone for headless | a save outlives the request that caused it, and must not outlive the handle |
| **Batch** `internal/scrape.go` | two channels, a WaitGroup | `Batch`, `loadBatch`, `fetchUnstored` | three goroutines and a reader who may leave |
| **Server and tools** `cmd/` | contexts, `http.Server` | start, serve, shut down | order of shutdown, timeout of the handlers |
| **Domain settings** `internal/settings`, `api/settings.go` | table `domain_settings`, statements in the handle's cache | `Fetch`, `FetchRange`, `Save`, `Delete` and the endpoints | offset and limit from a query; validation and case of domains |
| **Engines and migrations** `database/migration.go`, `sqlite/`, `mysql/`, `internal/cmd/database.go` | schema version, environment variables for goose | create, up, reset, status; `AfterOpen` | interrupted migrations; which program migrates what |
| **API server** `internal/server/api`, `middleware`, `routes.go` | none | extract, headless, batch, feed, delete, settings | which error becomes which status; chain of middleware |
| **Authorization** `internal/auth`, `cmd/scrape-jwt-*` | keys | make, verify, extract a token from header or cookie | order of the two sources, expiry |
| **Page fetching** `fetch/`, `internal/headless`, `ua` | HTTP clients | `Get`, `Fetch`, extraction | partial results with an error |
| **Feeds** `fetch/feed`, `resource/feed.go` | none | `Fetch`, `FetchContext` | timeouts |
| **Resources** `resource/` | a page | cleaning of URLs, JSON in both directions, skipped fields | shared between handler and save goroutine |
| **Statistics, health** `sqlite/stats.go`, `with_timeout.go`, `healthchecks` | a cached record | `Stats`, heartbeat | cache without synchronisation, which no program reaches |
| **Admin pages** `internal/server/admin` | the signing key, the template | home page with a token, login that turns a token into a cookie | who gets in, and for how long |

How they interact: `main` opens one `DBHandle` with a context, builds the URL
store, the fetcher and the server on it, and serves. Every SQL statement goes
through `DBHandle.Statement`. `NewStorageBackedFetcher` registers `Wait` as close
listener. On a signal the server stops listening, waits for its handlers (up to a
timeout of the library), and `main` cancels the context; a goroutine of
`context.AfterFunc` then runs `Close`, which calls `Wait` with the mutex held.

What makes each part correct:

- *handle*: a statement is prepared once and closed once; listeners are called
  once, before statements and connection go; cancellation closes the handle; no
  caller waits for ever;
- *store*: a mapping leads to a row; a hit is the URL's page; nothing fresh is
  deleted by maintenance;
- *fetcher*: a page that was promised to the store is stored before the store goes;
- *batch*: one answer per URL, no goroutine left behind, whoever reads;
- *settings*: a range is what the query says, a saved domain is found again;
- *migrations*: a program meets the schema it was built for or says so;
- *API*: the documented status for each outcome;
- *authorization*: a request passes only with a valid token, from either source.

## 2. Modules

| Module | Models | Checked by | Proved in |
| --- | --- | --- | --- |
| `HandleLifecycle` | what a handle promises, without goroutines | as property `Promise` of `DBHandle` | |
| `DBHandle` | `database/database.go`, one program counter per goroutine | `MCDBHandle_*.cfg` | `DBHandleProofs` |
| `URLDataStore` | `internal/storage/storage.go`, one step per SQL statement | `MCURLDataStore_*.cfg` | `URLDataStoreProofs` |
| `StorageBackedFetcher` | `Fetch`, saves, `Wait` and shutdown; EXTENDS `DBHandle` | `MCStorageBackedFetcher_*.cfg` | `StorageBackedFetcherProofs` |
| `OrderlyShutdown` | what the server promises about its saves when it goes down | as property `ShutdownPromise` of `StorageBackedFetcher` | |
| `BatchResults` | what the channel of `Batch` promises | as property `Promise` of `Batch` | |
| `Batch` | `Batch`, `loadBatch`, `fetchUnstored`, its saves, the reader | `MCBatch_*.cfg` | `BatchProofs` |
| `Tokens` | `internal/auth`: claims, tokens, the middleware's decision | with the next two | |
| `Sessions` | tokens, cookies, logins and restarts over time | `MCSessions.cfg` | `SessionsProofs` |
| `SchemaVersions` | what migrating promises of the version table | as property `VersionsPromise` of `SchemaLifecycle` | |
| `SchemaLifecycle` | migrations over the runs of many programs | `MCSchemaLifecycle*.cfg` | `SchemaLifecycleProofs` |
| `Requests` | routes, middleware in front, status of an API request | with `APIServer` | |
| `PageAnswers` | extract, headless, batch, feed, delete | with `APIServer` | |
| `DomainSettings` | the settings endpoints and their table | with `APIServer` | |
| `APIServer` | the last three, composed | `MCAPIServer.cfg` | `APIServerProofs` |

Operators marked "Mutant" are variants of the definition below them with a bug
one could make there; they occur in no specification. Each property of a passing
run has one that breaks it.

### DBHandle

Variables are the fields of the struct (`db`, `closed`, `done`, `stmts`,
`listeners`, `accepting` for "the channel is open", `ctx`), the mutex (`lock`, its
holder), one `pc`, `arg` and `ret` per goroutine, the maintenance goroutine
(`ticker`, `tick`), and three histories (`prepares`, `accepted`, `notified`).

`Open` ends with `AfterOpen` of the engine (`OpenReady`): sqlite's starts the ticker
or fails, with the handle built, and `main` exits on the error; mysql has none, so
that there the ticker never ticks.

A label of `pc` is the statement about to be executed; a step reaches to the next
point where another goroutine can see or change something. So `Statement` is
`StatementCall` (unsynchronised look at the map), `StatementLock` (mutex and second
look), `StatementPrepare`, `StatementStore`; `Close` is `CloseCheck`, `CloseLock`
(second look, `StopMaintenance`, `close(s.closeListeners)`), then `CloseNextListener`
and `ListenerReturns` per listener, `CloseStatements`, `CloseDB`, `CloseFinish`.

The unsynchronised read of the map while it is written is undefined in Go: the
model lets it miss, hit or end the goroutine. That the Go runtime may stop the whole
program for it follows from the code at once and no property forbids it. A panic
frees the mutex (deferred `Unlock`) and parks the goroutine for good. In a request
handler `net/http` recovers it; elsewhere the process ends, which is a prefix of a behaviour of the model.

Left out: `Open` of a handle that was closed before (no program does it), a second
maintenance job, `SetMaxOpenConns`, the contents of statements.

### URLDataStore

A URL stands for its key; two URLs of the model never share one. `urls` maps a
canonical URL to a row (canonical URL, fetch time, expiry), `idMap` a requested URL
to a canonical one. `Save` is `SaveCall` (defaults, expiry), `SaveRow`, `SaveMap`;
`Fetch` is `FetchLookup`, `FetchRow`; `Clear` one step per table. Each statement may
fail, which ends the call. `Crash` resets the clients and keeps the tables. The
clock counts half seconds, so that "now" can be later than the stored second
within the same second. `removed` and `aliases` are histories.

`LookupKey` is what `FetchLookup` finds for a URL, so that `Found` can speak of a
lookup that nobody is making.

The fetch time is taken at `SaveCall`, the default of the code; pages arrive there
with a time set a little earlier, which no property depends on.

### StorageBackedFetcher

EXTENDS `DBHandle` with its goroutines: `Setup` (main) and one process per URL,
which is the request's goroutine until the page is handed over and the save's
goroutine after that. The stages `lookup`, `row`, `save`, `saveId` are the four
statements of `Storage.Fetch` and `Save`; at each the process calls `Statement`
(`AskStatement`, then the steps of `DBHandle`) and executes it (`ExecLookup`,
`ExecSave`, `ExecFails`). A statement executes only while the connection is open, the
context live and the statement in the cache, since `Close` closes those it drops.
`WaitReturns` replaces `ListenerReturns` of `DBHandle`: Wait returns when the counter
is zero. `Shutdown` cancels the context after the server stopped listening, with the
handlers done, or not (`serving = "abandoned"`), for `WaitForShutdown` of the library
has a timeout. URLs of a batch (`Item`) run like those of `Fetch` but are not counted;
their order within the batch is left to `Batch`, so that here they interleave
freely. Once the main goroutine has cancelled, the process may also exit at any
time, which is again a prefix of a behaviour.

`OrderlyShutdown` has none of this: a server that is up, draining, abandoning its
handlers or down, and the sets of pages that are being saved and that are over.
`ShutdownPromise` maps the stages of the server and of `Close` to its phases
(`shutdownPhase`) and the stages of the requests to its sets; a save that began while
the server was up may go on while it drains, but none begins then, and the
database does not go away before it is over.

### Batch

A URL is its position in the list. `sent` is everything ever sent on `rchan` and
`taken` how much of it was received, so the channel holds what lies between.
`unstoredChan` has no buffer: `HandOver` is send and receive in one. `LoadURL` chooses
what parsing and storage say: answer (`found`, for an unparsable URL too), pass on
(`missing`), or log and forget (`dropped`). `Receive` lets the reader leave after any
page, as the handler does when it cannot write; `cmd/scrape` reads to the end.

A storage error in `loadBatch` is only logged (`dropped`), so such a URL has no answer
at all; `BatchResults` therefore speaks of settled URLs, not of answered ones. The
saves of a batch are not in the fetcher's WaitGroup (`internal/scrape.go`), which is
why `StorageBackedFetcher` keeps `Item` and `Request` apart.

### Tokens and Sessions

A token is its claims and its key, so forging is left out by construction and
signing the same claims twice gives the same token, as `login` relies on. `MakeToken`
is `scrape-jwt-encode`, whose clock may differ from the server's by `MaxSkew`.
`HomePage` is the handler of the home page, which puts a token for subject `home`
into a public page. `Login` verifies the header, signs its claims again and sets the
cookie with their expiry; a cookie set with a past expiry deletes the one that is
there. `Restart` changes key and publicness, `Tick` is time. Asking changes nothing,
so what the middleware says is the operator `Admitted`: the header's token decides, and
the cookie's if there is none, so that after a login a request needs no header,
though the README of the repository asks for one (section 3). The unit of time is
the leeway (a minute); the state is the server's (`key`, `openHome`), the browser's
(`page`, `jar`) and that of whoever made tokens (`made`); `homeAt` is a history.

### SchemaLifecycle

A program is a process with one of the commands of `scrape`, or the server's `run`;
programs overlap, fail at any statement and are killed at any point (`Stop`). `Open`
is `AfterOpen`: sqlite migrates when there is no file and the command is no
migration, mysql does nothing. `Up*` and `Reset*` are goose's loops, external code
that is modelled by what the migrations under `database/` rely on: an up makes sure
of goose's version table (`tracked`) and applies the successor of the latest entry
until there is none; a reset fails without that table, reads the entries once and
takes them back from the last. `tables` says which of its tables and indexes are
there of each migration.

Sqlite commits a migration with its entry. Mysql commits every DDL statement by
itself: `UpApply` and `ResetDown` are one statement there, `part` counts them, and the
entry follows in a step of its own (`UpRecord`, `ResetRecord`). Migration 1 has
three statements up (`urls`, `id_map`, an index) and two down
(`mysql/migrations/00001_init.sql`). Its `CREATE INDEX` has no `IF NOT EXISTS`, so that an
up after a stop between index and entry fails, and so does every later one.

`interrupted` is the set of migrations that a program was stopped in the middle of,
`clash` says that an up and a reset overlapped; both are histories that the
properties exempt by name, because the code promises less then. On mysql a reset
stopped after its first DROP leaves version 1 recorded, and the next up reports
success without `urls` (`UpBringsUpToDate`, a finding); an up stopped before its entry
leaves tables that a reset does not look for and reports success. Such migrations
and no others: that the rest is complete, or gone, is what `UpMeansCurrent` and
`ResetMeansEmpty` say.

`SchemaVersions` is what somebody sees who only ever asks for the entries: the first
few migrations, one more or one less at a time. `VersionsPromise` maps `Recorded`, the
set of versions with a row, to it: two ups that race may write two rows for one
version, of which a reset then has to delete both (`Unrecord`).

### Requests, PageAnswers, DomainSettings and APIServer

`Requests` has what every API request shares: `config` (key, headless client,
settings), a stage `pc`, the route, the status. `Entry` is `InitMux` with
`withAuthIfEnabled`, `Authorize` the middleware, with every pair of header and cookie.

`PageAnswers`: after the payload (`RejectPayload`, `AcceptURL`, `AcceptURLs`) each URL
is looked up, fetched if it is missing (`FetchPage` of `extract`, `FetchUnstored` of a
batch or a feed, each with its guard for the save), and encoded, in any order and
interleaved with other requests. `Fetch`, `Save` and `Delete` of the store are one step
each here, since `URLDataStore` has their statements and `Batch` the goroutines.

The page that a save goroutine of `extract` works on is the object that the handler
encodes; a batch sends a copy. `marked` says whether a save put its skip map on that
object or on a copy, `shown` whether the answer had all fields. A fetch ends in one
of seven ways (`Outcomes`), as the HTTP client and the extractor tell them apart, and
`ExtractStatus` is the switch of `extract`. A feed that fails gives 422, or 504 when the
error is a deadline: its request has none, but the transport's dial timeout counts
as one (`feed.go:103-109`). `FetchHeadless` is not backed by the store.

`DeletePage` removes the row of the URL as given, and leaves mappings. `gone` are the
URLs deleted while no save of theirs was under way and none has begun since. A save
that began before the DELETE may bring the row back, as the code has it
(`scrape.go:89`); `DeletedUntilFetched` says what does hold, that a URL in `gone` has no
row. The canonical URL of a page is taken to parse: `fetcher.go:113` ignores
that error, and a page without a URL would make the save panic (`storage.go:71`).

`DomainSettings`: `PathDomain` lowers and validates, `PutSettings` marshals the headers
for the row and once more for the answer. Two spellings of a header collide when
they are marshalled and the map's iteration decides, so both marshallings choose
independently. `Capacity` and `Room` are the arithmetic of `FetchRange`: a negative limit
reaches `make`, which panics (`SearchPanics`), and `net/http` drops the connection.

`APIServer` lets requests arrive at any time and saves run on after their request.

## 3. Runs

| Run | Instance | Shows |
| --- | --- | --- |
| `handle_safety` | 2 callers, 2 keys, 2 listeners, room for 1; cancellation at any time, `StopMaintenance` by hand | `TypeOK`, `PreparedOnce`, `NoStatementLeak`, `Promise`, `CallsRunOut`, `SomeCallGoesOn` |
| `handle_live` | 2 callers, 1 key, 1 listener; used as `cmd/` does | `CancelCloses`, `CallsReturn`, `CloseStopsTicker` |
| `store_tables` | 2 clients, 2 URLs, default TTL 1 s, 4 half seconds | `TypeOK`, `MappingHasRow`, `HitIsAlias`, `MaintenanceKeepsFresh`, `FoundUntilRemoved` |
| `fetcher_shutdown` | a request and a URL of a batch, server that may abandon them, failing database | `SavingCountsSaves`, `CloseEndsOrSaveBlocked`, `ShutdownPromise`, `BlockedForGood` |
| `batch_results` | 3 URLs | `SendsNeverBlock`, `NeverStuck`, `Promise`, `StepsRunOut`, `BatchEnds` |
| `sessions` | 2 keys, subjects home and ann, leeway 1, home token 2, clock 0 to 4, 1 token by hand, skew 1 | `HomeSessionsEnd`, `MadeTokensWork` |
| `schema_lifecycle` | 2 processes, 2 migrations, both engines, 3 launches | `VersionsTellTables`, `UpMeansCurrent`, `ResetMeansEmpty`, `VersionsPromise`, `CommandsEnd` |
| `api_requests` | 2 requests on any routes, 2 URLs, 1 domain, a store that is empty or has a mapped page, everything on behind a key or everything off | `APITypeOK`, `NothingWithoutToken`, `AnswersAreWhole`, `OnlyGoodPagesStored`, `DeletedUntilFetched`, `FailuresAreTold`, `GetsLatest`, `RequestStepsRunOut`, `RequestsEnd` |

The runs leave out what another property of theirs, or a proof, says already:
`PendingSavesCovered` is part of `ShutdownPromise` and `NoGaps` of `VersionsPromise`;
the inductive invariants (`HandleInv`, `StoreInv`, ...), the remaining type invariants
and `ReaderSeesAll` held in TLC before they were proved (section 4).

Runs that are expected to end in a violation, each with a finding in `PROJECT.json`:

| Run | Violated | Because |
| --- | --- | --- |
| `fetcher_deadlock` | `CancelCloses` | `Close` waits for a save with the mutex held; the save needs it to prepare its statement |
| `fetcher_cancelled` | `SavesComplete` | the save that `Close` waits for uses the cancelled context |
| `schema_up_to_date` | `ServesCurrent` | sqlite migrates only when there is no file: after a reset, or with a file of an earlier version, a program serves without its tables |
| `schema_interrupted` | `UpBringsUpToDate` | a reset stopped between mysql's DROPs and the deletion of the entry leaves a version without its tables, and the next up finds nothing to do |

Two disagreements with the README of the repository have no run of their own:

- A cookie is enough. Its lines 414 and 423 say that API requests must carry the
  token in their `Authorization` header and get a 401 otherwise. The middleware asks
  the cookie when the header has no token (`internal/auth/middleware.go:65`, installed
  with the cookie at `internal/server/api/server.go:127`), so that whoever has logged in
  with a browser is admitted without a header: `Admitted` of `Tokens` has it so.
- An unsupported content type is a 422. Its line 292 lists 415 for `extract`, whose
  `errors.Is(err, fetch.HttpError{})` does not recognise the fetcher's
  `UnsupportedContentTypeError` (`internal/server/api/server.go:194`): `ExtractStatus` of
  `PageAnswers` has it so.

The models also show, or showed while they were written, what no document of the
repository denies and no run therefore states: `StopMaintenance` followed by `Close`
closes `s.done` twice; a context cancelled during `Open` runs `Close` before the
mutex exists; URLs whose lookup fails in a batch have no answer. Read in the
code and not modelled: `MarshalJSON` of the health record has a pointer receiver and
is called on a value, so the health answer has no database information
(README lines 331-334 of the repository show some); `-ttl` of `scrape-server` is
read and not used (`cmd/scrape-server/main.go:144`); `-csv` does not check the column
(`cmd/scrape/main.go:117`).

**Bounds.** Two callers make every race between two method calls, and with the
cancellation and maintenance goroutines there are four at the mutex. A capacity
below the number of listeners makes the channel overflow. Two URLs make a mapping
to another URL, cycles of mappings included; two clients put any operation between
the two statements of another. Four half seconds let a page of one second's TTL
become old for `Fetch`, and then for maintenance. A request and a URL of a batch
tell a counted save from one that is not; in `fetcher_cancelled` two requests let
one fill the statement cache the other uses. Three URLs let answers of the loader
overtake those of the fetcher, and the reader leave in between. Two keys make a
restart with another key and back; home tokens of two units end, with the leeway,
within the clock's four, and one token by hand can be ahead of or behind the
server. Two migrations are the smallest number with an order; two processes meet
in every stage and the third launch comes after a crash; migration 1 has the
statements it has on mysql. `schema_interrupted` is one program after the other.
Two requests let any route meet any other, and a save of an earlier request meet a delete or a second
fetch of the same URL; the outcomes of a fetch in `api_requests` are one with
content, one that the page may tell and one that it may not. Beyond these bounds the theorems take over for all
safety properties.

`APITypeOK` and the properties of `api_requests` hold with every request made at time
0, and tokens that have ended or not by then; time is the subject of `sessions`.

**Deadlock** is not checked: all these systems stop (a closed handle, a finished
batch, answered requests, programs that ended, a clock at its end).

**Fairness.** Weak fairness per goroutine: a runnable goroutine runs. Strong
fairness for taking the mutex: `sync.Mutex` hands over to a waiter that starved for
a millisecond. Nobody has to make a call, cancel, stop the server, or receive a
tick. In `FairSpec` of `DBHandle` listeners return; `StorageBackedFetcher` does not
assume it, since whether `Wait` returns is the question. In `Batch` storage, web and
the response writer answer or time out (`ReadTimeout`, `WriteTimeout`, the client's
timeout); that storage may hang behind a closing handle is the subject of
`fetcher_deadlock`. In `SchemaLifecycle` a program that runs goes on (`Step`); nobody
has to start or kill one. In `APIServer` a request's own steps are fair (`Serve`),
as the fetch client has a timeout and statements return; fetches of feeds and
headless ones (`RemoteStep`) have no deadline and no fairness, and `RequestsEnd`
says so. `Sessions` has no liveness: nobody has to log in.

## 4. Proofs

For every value of the constants, from their named assumptions:

- `DBHandleProofs`: `TypeOK /\ HandleInv` is inductive. The parts of `HandleInv` are the
  mutex discipline (`LockInv`: the holder is the one in a critical section), what a
  goroutine knows about its argument (`ArgInv`: the key it prepares is not cached,
  as the second look said), the state during `Open` (`OpenInv`), the stages of `Close`
  as its fields show them (`CloseInv`), listeners as a sequence without repetition
  (`ListenerInv`) and the count of statements (`PrepareInv`). `PreparedOnce` needs
  `LockInv`, since two preparers would be two holders; `NoStatementLeak` needs `CloseInv`,
  since a statement stored after `CloseStatements` would leak. There is one lemma per
  action. `KeepsPromise` maps each step to one of `HandleLifecycle` or a stutter.
  `CallsAreFinite`: the range of `Close` over the listeners could only go on for ever
  if it found new ones, which `CloseInv` excludes, the channel being closed. Its
  bound counts two steps per listener and rests on the capacity (`ListenerInv`).
  `CallsDoNotDeadlock`: if everybody waited for a mutex that is held, its holder would
  be in a critical section (`LockInv`), which is a call that goes on. "Goes on"
  includes waiting for a listener, so that neither it nor `SomeCallGoesOn` sees the
  deadlock of `Close` and a save: `CancelCloses` does, in `fetcher_deadlock`, and
  `CloseEndsOrSaveBlocked` says that nothing else holds up the shutdown.
- `URLDataStoreProofs`: `StoreInv` is inductive. `MappingHasRow` alone is not: a client
  between its two statements must know that its row is there or was removed
  (`JobInv`). `TypeCorrect` and `StoreCorrect` state the invariant itself.
  `MaintenanceIsSafe` compares whole seconds with half seconds. `PagesStayFound`
  rests on it too: `SaveMap` moves a URL from one row to another, which
  `MappingHasRow` of the next state says is there or was removed since `SaveRow`.
- `StorageBackedFetcherProofs`: `UsesHandle` shows that every behaviour of the fetcher is
  one of `DBHandle`, so that `Invariance` holds for it too. On top of it, `FetcherInv`:
  the listener is accepted before the server starts (`SetupInv`, from an empty
  channel with room), only cancellation starts `Close` and handlers that are done
  stay done (`CancelInv`), a called `Wait` has returned or is being waited for
  (`WaitInv`). `SavesAreCovered` follows with the stages of `Close`: a closed handle has
  called every listener.
  `ShutdownIsOrderly` maps each step to one of `OrderlyShutdown`: that none begins to
  save while the server drains is `CancelInv` (all handlers are done), that the
  database goes away after the last save is `SavesAreCovered` and the counter
  (`SavesAreCounted`) at the step of `Close` that sets `closed`, after all listeners. `BlockedStays`
  needs that nobody but the holder frees the mutex, that `Wait` returns at zero only,
  and that the blocked save is counted. `HandleStaysSound` carries the properties of
  the handle over to the fetcher through `UsesHandle`.
- `BatchProofs`: `BatchInv` counts positions. Everything before `next` is answered,
  dropped or in flight, each once, so at most `next - 1` answers were sent and the
  buffer of `N` has room for the next (`NoSendBlocks`). `KeepsPromise` maps the steps to
  `BatchResults`. `SomebodyGoesOn` goes through what each goroutine waits for: with room
  in the buffer the loader waits for the fetcher only and the fetcher for the
  loader's end only, and when both are done the counter is zero and the third
  goroutine can close. `BatchStepsRunOut` has a natural number, `StepsLeft`, that every
  step lowers; `StepsAtStart` is its value at the start, `6 * N + 5`.
- `SessionsProofs`: `HomeSessionsEnd` speaks of who is admitted, which says nothing of
  a token that is not used now. The strengthening is `IssuedInv` (each token in page
  and cookie was made by hand or ends `HomeLife` after the home page was last served
  under its key) with `ClaimsInv` (what was accepted once stays acceptable, for clocks
  within the leeway, which `SessionAssumption` asks for). One lemma per action.
- `SchemaLifecycleProofs`: `SchemaInv` is inductive, for any number of programs,
  migrations and launches. `NoGaps` needs to know what the programs are about to do
  (`PlanInv`: an up has the migrations before its next one recorded, a reset has all
  recorded ones on its list, as long as no up met a reset, `ClashInv`). `HandInv` ties
  the count of executed statements to the migration that a program has in hand.
  `UpIsComplete` needs that an entry has its tables unless the migration was
  interrupted or a reset has begun with it (`BackedInv`); `ResetIsComplete` that a
  migration without an entry has no tables unless it was interrupted or an up is at
  it (`NothingLeft`). With the reset's list, which has every entry (`PlanInv`), an empty
  list means that nothing is left. Both therefore hold of mysql's statements one by
  one, and `interrupted` is exactly what a stop between them leaves open.
  `VersionsAreKept` maps the steps to `SchemaVersions`: `NoGaps` makes the recorded
  versions the first few, and `PlanInv` makes the entry that an up writes the next
  one or one that is there already.
- `APIServerProofs`: `APIInv` is inductive. `RequestInv` ties a stage to its route and
  to the token that was seen; `PageInv` says that marks are on copies
  (`MarksAreCopies`) and that only good pages wait to be saved (`SavesAreGood`).
  `DeletesLast` needs one fact more: a URL that is `gone` has no save under way
  (`GoneUnsaved`), as the DELETE saw and every save begun since undoes. `SettingsInv`
  says that every domain a statement uses is lower case (`DomainsAreLower`) and that
  the table has a marshalling of the latest settings (`TableTellsLatest`), from which `SettingsReadLatest` follows.
  The modules that are composed leave each other's variables alone, so that most
  lemmas are about one action and the part of the invariant it can disturb.
  `RequestsRunOut` counts the URLs that a request still has to look up, fetch and
  answer; for these counts to be numbers it needs that its sets are finite and
  empty outside their stage (`ProgressInv`), from `URLAssumption`: there are finitely
  many URLs in a request.

Only model-checked: liveness (`CancelCloses`, `CallsReturn`, `CloseStopsTicker`,
`CloseEndsOrSaveBlocked`, `BatchEnds`, `CommandsEnd`, `RequestsEnd`), which is out of the
prover's reach. Three of them have a safety half that is proved: `BatchEnds` follows
from `SomebodyGoesOn` and `BatchStepsRunOut` if a step that stays possible is taken;
`RequestsEnd` from `RequestsRunOut` likewise, except that nothing proved says that a
request can always take its next step (only `RequestsEnd` in TLC does); `CallsReturn`
from `CallsAreFinite` and `CallsDoNotDeadlock` if listeners return and a waiter gets
the mutex in the end. What remains with TLC is fairness and which actions are
enabled. No module has a recursive operator.

## 5. Not modelled

- `DBHandle`: opening a closed handle again (no program does), a second maintenance
  job.
- `URLDataStore`: URL keys that collide; `CleanURL` is taken to have happened. GET
  forms of the API accept relative URLs, though `payloads.go:17-18` says otherwise;
  the model has one set of URLs.
- Settings: the rows of a range, the grammars of domains and queries.
- Migrations: the environment variables set for goose and restored after it
  (`database/migration.go:52-93`), the parts of a DSN.
- `WebPage`: reading JSON, and which fields a page has beyond "all or not".
- The headless client's tabs, feeds beyond their list of links.
- Statistics: called by nothing that a program reaches.
- Admin: templates and static pages, which are parsed once at the start.
- `Batch` composed with `StorageBackedFetcher`: each is checked by itself, and joined
  only through `Item`, a URL whose save nobody counts.
- Libraries: extraction, the SQL engines, goose, `http.Server`, the JWT parser and
  `WaitForShutdown`, modelled by what the code relies on.
- Flags, logging, output formats and test data have no state worth checking.

Next in line would be an abstract life of a URL (looked up, fetched, shown, saved)
that `Batch`, `StorageBackedFetcher` and `PageAnswers` each implement, which would join
the one-step store and batch of `PageAnswers` to the modules with their detail; then
the environment of a migration and the grammar of search queries as a pure operator.
