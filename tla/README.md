# A TLA+ development of phastos

phastos is a Go framework for HTTP services: an application that registers
controllers and serves them over net/http or fasthttp, with timeouts,
deduplication and pooled responses, an SSE hub, a database layer with a
repository on top and cached prepared statements, a Redis cache with fallbacks,
an import pipeline, and helpers for cron jobs, documents and notifications. The
modules here model the parts in which goroutines, limits, orders of calls and
failures meet. Every definition is translated from the Go source; `PROJECT.json`
maps each one to its lines. Paths below are relative to `src/go/`.

## The parts of the system

| Part | State it keeps | Operations | What is hard about it |
|---|---|---|---|
| SSE hub (`sse/sse.go`) | map of clients, delivery trackers, four channels, a channel per client | `Run`, `Handle`, `Broadcast`, `SendToClient`, `Stop` | five kinds of goroutines; channels that are closed while others use them; IDs that reconnect |
| SSE message buffer (`sse/message_buffer.go`) | messages by ID with their time | `AddMessage`, `GetMessagesSince`, clean-up, `Clear` | capacity, expiry, map order |
| Request handling (`api/app.go`) | per request a worker, a deadline, a flight | `wrapHandler`, `handleResponseError`, `generateUniqueRequestKey` | a worker that outlives its request, shared results, recovered panics |
| Responses (`api/response.go`) | a `sync.Pool` of `*Response` | `NewResponse`, setters, `Send`, `ReleaseResponse` | who owns a pooled object |
| Router, controllers, setup (`api/app.go`, `api/controller.go`) | pending and global middlewares, a router per version, a registry | `Init`, `AddGlobalMiddleware`, `AddController`, `Start`, `wrapHandlerV2` | setup calls come in any order; inputs bound automatically |
| OpenAPI description (`api/openapi.go`) | a document built from the registry | `buildOpenAPISpec` | a second description of the routes beside the router |
| fasthttp application (`api/fasthttp_app.go`) | two tables of routes, slices of middlewares, a pool of `FastRequest` | registration, `Handler`, `ServeHTTP`, direct handlers | slices that share arrays, matching by segments, recycled contexts |
| Starting and stopping (`api/server.go`, `api/fasthttp_server.go`, `server/graceful.go`) | a listener, open connections, a signal channel | serve, wait, shut down, `App.Start`'s defers | the process ends when the last call returns |
| Statement caches (`database/sql.go`) | LRU list and map, `sync.Map` and counter | `getReadStmtx`, `getWriteStmt`, `evictReadStmt` | a statement closed while it is used; counter and map updated apart |
| Queries and writes (`database/sql.go`, `database/action`, `helper/struct*.go`) | statement text and parameters, pooled `TableRequest`s, query texts | `Read`, `Write`, `Insert`, `Update`, `Delete`, `Upsert`, bulk, lists | text and parameters made apart, several statements, a lagging follower |
| Transactions (`database/transaction.go`) | a `*sqlx.Tx` | `Begin`, `Finish` | roll back on any error, a commit that fails |
| Redis cache (`cache/redis.go`) | connection pool, flights, keys in Redis | `Get`, `HGet`, `Set`, `HSet`, `HSetBulk`, `Del`, `HDel` | invalidation racing a fallback, retries, expiry |
| Redis streams (`cache/redis.go`) | a subscription with its failure counter | `PublishStream`, `SubscribeStream`, `XReadGroup`, `XAck` | redelivery, failures in a row |
| Importer (`importer`) | channels, workers, a transaction per row | `ProcessData`, readers of CSV, XLSX, XLS | partial failure, a pipeline that must drain |
| Bulk generator (`generator/bulk.go`) | a channel of jobs, results by index | `GenerateAll`, `GenerateZip` | workers that write into one slice, one of several failing |
| Cron (`cron/cron.go`) | map of entries by pattern | register, remove, run with a timeout | registration while jobs run, jobs that outlive their run |
| Middlewares (`middlewares`) | a bucket per client | rate limit, JWT, logging, static files | buckets that are made on first use |
| Documents, mail, storage, notifications, monitoring, contexts, binding, null types, mocks | configuration | I/O and conversions | nothing that a model checker reaches |

How they meet: an application calls `Init`, adds controllers and middlewares and
calls `App.Start`, which starts the cron engine and the hub's `Run`, defers their
`Stop`, and serves until a signal. `Handle` is a route (`api/app.go:444`). A
request passes the middlewares of its route and is served by `wrapHandler`,
whose worker runs the controller's handler; the handler uses the repository
layer and the cache. The layer builds a statement and passes it to `SQL.Read`
or `SQL.Write`, which find the prepared statement in a cache; a cache miss in
Redis calls a fallback of the application, which usually is such a `Read`. A
writer changes the database and then invalidates the cache. The importer calls a
function of the application once per row, each in a transaction of its own.

What makes each part correct: the hub never uses a closed channel, delivers in
order, and every connection ends; the buffer keeps the newest messages; a
request reaches the handler its path means, through exactly the middlewares that
were meant, and is answered once, with what its own handler made; a process that
is stopped ends, and not under an open request; a statement has the parameters
of its own call, in their places; nothing is seen before its transaction is
committed; a cached statement is open and belongs to its query; a cache loses
its oldest entry and nothing else; a cached value is that of its own key, and
outdated only by races one can name; a row of an import is processed once and
reported truthfully; a bulk has all its results, and a schedule that runs can be
removed.

## The modules and the runs

`MC*` modules give the constants their values; the configuration of each run
names them. Three runs put independent components side by side: a variable
`live` picks one of them in the initial state and the others stutter, so a run
of `stores`, `routes` or `jobs` is the union of the state spaces, not their
product. Nothing is composed there that interacts in the code.

| Run | Module | What it checks |
|---|---|---|
| `hub` | `SSEHub` | broadcasts in order, accounted for, replayable; what is sent is there |
| `hub_live` | `SSEHub` | open channels, no panic before `Stop`, and connections end |
| `hub_reconnect` | `SSEHub` | violated: see Findings |
| `stores` | `MCStores` over `Stores`: `BoundedSyncMap`, `LRUStmtCache`, `StmtCache`, `MessageBuffer`, `CacheStore` | what the bounded stores keep, lose and answer |
| `stmt_failing` | `MCStmtCache` | violated: see Findings |
| `request` | `MCRequestHandler` | ownership of Responses, own answers, ends |
| `routes` | `MCRoutes` over `Routes`: `App`, `FastApp` | the way of a request through either application |
| `writes` | `MCWrites`: `Writes`, `QueryBuilder` | statements, transactions, upserts |
| `writes_recycled` | `MCWrites` | violated: see Findings |
| `jobs` | `Jobs`: `Import`, `Lifecycle`, `Cron`, `Streams`, `Bulk` | imports, stops, schedules, subscribers, bulks |
| `fasthttp_stop` | `Lifecycle` | violated: see Findings |
| `cron_timeout` | `Cron` | violated: see Findings |

Deadlock is not checked: every one of these systems may stop (all connections
over, all calls made, the process ended) or is bounded by a number of calls.

### MessageBuffer

One action per method, as each runs under one mutex. `messages` maps an ID to
its `CreatedAt`; `clock` is the last reading of `time.Now()`, which an action
reads once and which may have advanced. `Store` is `AddMessage` with its
eviction. The scan of `evictOldest` ranges over a map, so among equally old
messages it takes any, and it deletes nothing when it ends on the empty ID.
`GetMessagesSince` ranges over the map in any order; `replay` records what it
answered.

In `stores`: three IDs, room for two messages, a time to live of one tick and
four ticks. That is enough for an insertion into a full buffer with ties of the
clock, for a re-sent ID that makes an old message young, and for expiry before
and after an eviction. Checked: an unexpired message is lost only to younger
ones (`LosesOldestFirst`); a replay holds what is buffered and never the message
it starts from, and one from scratch is complete (`ReplayIsOfTheBuffer`).

### SSEHub

The goroutines are `Run` (variable `run`), one `Handle` per connection (`pc`),
one sender per message (`call`) and `Stop` (`stop`). `register` and
`unregister` are unbuffered, so a send is a rendezvous with `Run`:
`RunTakesRegister(c)` moves both. `hub.broadcast` and the clients' channels are
bounded sequences. A send on a closed channel panics, a receive from one yields
`Nil`. A panic of `Run` or `Stop` ends the process (`run = "crashed"`); one in
`Handle` is recovered by net/http and ends the connection, after its deferred
send to `unregister`. Steps are as small as the locks allow: the client map and
the trackers change in separate steps of `Run`, a fan-out visits clients one by
one and holds the read lock, and `SendToClient` uses the client it looked up
after the lock is released. The module instantiates `MessageBuffer` for the
buffer both senders fill before they send.

| Run | Instance | What it shows |
|---|---|---|
| `hub` | two connections with their own IDs, two messages, channels with room for one, `broadcast` for two, a buffer of one | broadcasts arrive in order and once, a fan-out accounts for every client, what was delivered is replayable, what `SendToClient` reports as sent is there |
| `hub_live` | two connections with one ID (a reconnection), one message, fairness | reachable clients have open channels, nothing panics before `Stop` closes channels; and `ConnectionsEnd`: while one is leaving, or after `Stop`, a moment comes when none is |
| `hub_reconnect` | two connections with one ID | violated |

A channel with room for one is full after one message, and two connections are
what the interesting orders need: one registers, leaves or is overtaken while
the other is served.

Fairness (`FairSpec`): `Run`, the rest of a `Stop` that was called, a panicking
handler and a handler that sees the hub stopped are weakly fair, because the Go
scheduler runs whatever can run. The two rendezvous are strongly fair: a
goroutine blocked in a send competes with the other cases of `Run`'s select, and
a Go select picks among the ready cases at random. Nothing is assumed of the
senders or of a handler that has a message to receive, and nothing says that a
peer disconnects, that a message is sent or that `Stop` is called.

### RequestHandler

Each request has a serving goroutine (`serving`) and, unless the app is in sync
mode, a worker (`worker`) that calls the handler and offers the `*Response` on
an unbuffered channel. The serving goroutine waits for it, for the deadline or
for the client to go away; then it sets the trace ID, runs the steps of
`handleResponseError`, sends and releases the Response. `content` holds the
fields of each pooled `*Response` that the properties tell apart, `pooled` how
often the pool holds it. With singleflight a worker whose key
(`generateUniqueRequestKey`) equals that of a call under way follows it and
gets the same `*Response`. The key ranges over a map of parameters, so one
request may have several keys. The goroutine that reports an internal error
(`notifier`) dereferences `InternalError` without a recover, so a nil there ends
the process.

Run `request`: two requests of one or two clients, two pool objects, the three
modes, handlers that return, fail or panic (a handler that returns nil leads to
the same steps as one that panics). A Response has one owner and a client gets
the answer its own handler made, as long as no call was shared; the process
survives; every request ends; followers are served. Two requests are enough for
one to reuse the Response of the other and for a leader with a follower.
`ResponseHasOneOwner`, `AnswerIsOwn` and `ProcessSurvives` are stated for
behaviours in which no call was shared (`shared`): for the others the code does
not have them, see Deviations.

Fairness: goroutines that can run do run and the timer of
`context.WithTimeout` fires. A handler need not return: `EveryRequestEnds`
holds without it. `FollowerIsServed` assumes, in its own statement, that
handlers return.

### App

The net/http application from `NewApp` to `Start`, and one request after it.
`AddGlobalMiddleware`, `InitApp` and `AddController` may come in any order that
the code allows; `root`, `routers`, `table` and `registry` are what they leave
behind: the middlewares of the root router and of each version's, the routes by
operation, and the list that the description is made from. As in `FastApp`, the
calls of `registerRoutes` under way are a stack (`frames`) and take a route per
step: `EnterGroup`, `SkipGroup`, `RegisterLeaf` with its merged chain, metadata and
types of path parameters (`Leaf`), `Leave`. `FlushPendingMiddlewares` is what the
first of them triggers, `InitRoutes` the default routes, and `Panic` the second
mount of `/debug`. `log` is a history: which global middlewares were added, and
how many there were at `Init` and at the first route of each version. `Serve`
takes a request through the outer wrappers, the chain of its route (`Passes`,
`Stops`) and, for a `HandlerV2`, the checks of path, query and body in their order,
down to the handler or to the first that answers. chi's tree is external: `Prefer`
says which of two fitting routes it takes.

`Routes` puts `App` and `FastApp` side by side. Both have a constant `Scope`, which
names the lists of routes that a controller or a group declares, each with the
middlewares declared for it and around it. The controllers are trees of any depth,
and `Scope` is what says of them, without recursion, which middlewares a route is
meant to have: `WebAssumption` and `FastAssumption` ask that it holds the routes of
every controller and, with a scope, those of its groups. `MCRoutes` computes the
scopes of its controllers. `WebAssumption` further says of what kinds the values of
the constants are, and that no version is named like a default route, which
`GetVersionedPath` cannot make.

### FastApp

The native fasthttp application. `AddController` walks its groups with an
explicit stack (`frames`), one route per step, because the chains of sibling
routes are made by `append` to slices of their parent: `heap` holds the backing
arrays, and `Appended` writes in place when the capacity allows. `ComposeHandler`
fixes the global chain. Then requests are served concurrently: `Arrive` (request
ID, logging, panic handler), `Pass` or `Reject` for each middleware, `Dispatch`,
`Obtain` of a pooled `FastRequest`, `Return` of the handler with `Answer` and the
release. `Dispatch` looks in the static table first, under a `Key` of limited
size, and then tries the parametric routes in the order of registration. The scan
of `matchParamPath` is given by where it can end: at a literal that `Differs` or at
a segment that `Overruns` the pattern, the first of which decides between no
match and a panic (`Panics`). `Hits` are the routes that end the search, and
`SetUserValues` leaves what the patterns tried on the way have captured.

`FastAssumption` also says that only the last segment of a path may be empty.
fasthttp normalises the paths of requests, so for these it is a fact; a prefix or
route registered with a doubled slash, of which the repository has no example, is
left out.

Run `routes`, for `App`: every order of `Init`, two global middlewares and two
controllers of two versions, with a group, an empty group, an operation that is
repeated, also under another name of its parameter, and annotated paths, all options, and one request of 29, with valid, invalid
and malformed inputs. `MiddlewaresApplyOnce`: a handler is called after the
middlewares that were meant for it, each once and in order, computed from the
history of the setup calls alone. `InputsAreChecked`: a documented `HandlerV2`
is called only with inputs that parse and validate. `DescribedAsServed`: the
description names the handler that serves an operation, and the statuses that
are answered before it. For `FastApp`: two controllers with nested groups in
either order, slices with and without room to spare, two concurrent requests of
eleven, and handlers that answer, return nil or panic. `ServedByItsRoute`,
`ChainIsOwn`, `HandlerSeesOwnContext`, and `AnsweredAsByApp`: both applications
answer a Response alike. One request is enough in `App`, as requests share
nothing there that `RequestHandler` does not cover; two share the pool and the
routes in `FastApp`.

### QueryBuilder, Writes

`QueryBuilder` holds the pure part: how the fields of a struct become columns
and values (`ReadField`, `UpdateValues`, `BulkInsert`), how conditions, keyword,
dates, sorting and paging become clauses and parameters (`CheckInitiateWhere`,
`CheckKeyword`, `CheckCreatedDateParam`, `AddOn`), and the statements of
`SQL.Read` and `SQL.Write`. A statement is a sequence of clauses, each with the
names of the values that belong into its placeholders; a parameter is the name of
what it is the value of, so that the value of a condition, where it has one, is
named by the condition's column (`WritesAssumption`). A statement is thus right when its placeholders are its
parameters, in order, and no SQL text is needed to say so. The other operations
that return text are abstracted to that.

`Writes` is the repository layer over it. A caller takes `TableRequest`s from the
shared pool (`Take`, `PutAll`, `Reset`), looks query texts up in the process-wide
caches, reads from the follower, or writes on the master or in its transaction
(`pending`); `Count` and `Decide` are the first statement of `Upsert`;
`Replicate` lets the follower catch up. A table is the number of live rows that
match.

Run `writes`: two callers, three calls of every operation, two tables, Postgres,
soft deletion, a database that may fail. `RegularCallsFit`: the statement of a
call the builder is made for is built and fits, whoever used its
`TableRequest` before. `StatementIsOwn`: it is about its call's table, columns
and conditions. `UpsertErrsOnlyByRace`, `NothingBeforeCommit`. Three calls let a
recycled request meet a caller that interleaves with another. `Regular` names
the calls that are excluded; Deviations says what the code does with the others.

### LRUStmtCache, BoundedSyncMap, StmtCache

`LRUStmtCache` is the list and the map of `lruStmtCache`; its mutex makes each
method one action. `BoundedSyncMap` takes one step per atomic operation: the
`LoadOrStore` of the `sync.Map`, the addition to the counter, the choice of a
victim, its removal. `StmtCache` is `SQL.Read` and `getReadStmtx` around the LRU
cache (an INSTANCE): look up, prepare, store, close one's own statement when
another was first, execute, and on an error remove and close what is stored.
`getWriteStmt` and `evictWriteStmt` have the same steps.

In `stores`: three keys in a cache of two and six operations
(`EvictsLeastRecent`: list and map agree, in the order of last use); three
goroutines, three keys, room for one and four operations (`CountIsAccounted`: the
counter is off by exactly the steps under way); four calls of two queries with
room for one, one on the master (`CachedIsOpen`, `EveryStatementIsOwned`,
`ClosedOnlyAfterFailure`). Room for one or two makes every insertion of another
key an eviction; six operations fill the cache, reorder it, delete and refill it.
`stmt_failing`: three calls of one query.

### CacheStore

A call is one of the operations on a target, which is a plain key or a field of
a hash; a value is a version of the data behind the target. A writer changes the
data first. `Connect` is a round of `wrapWithRetries`: a connection of the
bounded pool or one more attempt. `JoinFlight`, `Load`, `CheckTTL`,
`StoreLoaded`, `ExpireLoaded` and `Land` are the steps of `fallbackAction`;
the connection is kept meanwhile. Redis is external and modelled by what `SET
EX`, `HSET`, `HDEL`, `DEL` and `EXPIRE` do.

In `stores`: three calls of any kind on a plain key and a hash with two fields,
two connections, two attempts, failures and expiry. An answer is for its own
target (`AnswerIsForTarget`), and an outdated version stays only after a race
that can be named (`StaleOnlyByRace`). A reader, a writer and a second reader are
what a stale fill with a shared flight needs; with two connections the third
call has to retry.

### Import, ImportContract

`Import` is `processData` or `ProcessPivotData` with the reader of a CSV file or
a workbook. The reader (`reader`, `next`) and the workers (`worker`, and for each
its `row`, `trx` and `err`) hand over rows and results on unbuffered channels, so
`Receive(w)` moves reader and worker, `Send(w)` worker and caller. A worker
validates a row, begins a transaction, calls the application's function and
finishes the transaction; the model keeps in `fate` what became of the row.
`CloseResults` is the goroutine that waits for the workers. A row is one line of
a file or, for a pivot, one entry of it.

`ImportContract` says what a caller is promised: a row that was taken is settled
once, and the result, if there is one, names every settled row and no other, as
failed exactly when its changes were undone. `KeepsContract` is the refinement:
`Receive` takes a row, `Validate` or `Finish` settles it, `Return` returns, and
the other steps stutter.

In `jobs`: two workers, three rows, both formats, pivot or not, functions that
succeed, reject with or without data, or panic, failures of `Begin` and `Commit`:
the contract is kept, nothing is left behind a returned import, and every import
ends, panics or crashes. Three rows give each worker a turn and one of them a
second, so that a row is read while two results wait. Fairness: goroutines that
can run do run, and the application's function returns. Weak fairness is enough:
whoever loses a rendezvous loses it to another worker that goes on.

### Lifecycle, Cron, Streams, Bulk

`Lifecycle`: one goroutine accepts, one waits for a signal and runs `Shutdown`
against a deadline (`draining`, `late`), and the one of `App.Start` waits for
that, stops tracing, the hub and the cron engine in the reverse order of its
defers, and returns, which ends the process and cuts what is open. In `jobs`,
two connections over net/http: no connection is cut before the deadline
(`StopsGracefully`), and a process that got its signal ends (`StopEnds`), under
weak fairness of the stopping goroutines and of the deadline's timer, and none of
handlers, clients or signals. `fasthttp_stop` asks the first of the other server.

`Cron`: the entries of robfig/cron (external), the table of the engine, and for
each run the goroutine that waits and the one of the handler. In `jobs`, two
patterns, four registrations, one run: what the engine runs is what the table
can remove, but for patterns registered twice (`SchedulesAreListed`).
`cron_timeout` has two runs of one entry.

`Streams`: the loop of `SubscribeStream`, a reply at a time, over an external
stream. Four messages and two tolerated failures let a failure follow a success
within one reply and across two, and the counter reach its limit
(`TriedAndDoneOnce`).

`Bulk`: `GenerateAll` and `GenerateZip`; three generators and two workers, one of
which takes a second job (`ResultsAreComplete`).

## What is proved

Every theorem holds for any values of the constants that satisfy the named
ASSUMEs of the modules, which TLC evaluates in the runs: types, capacities above
zero where the code makes channels or caches with room, finite sets where
something is counted, and that `Nil` is none of the values it stands beside.
`SequenceLemmas` has what several proofs need of sequences: which elements a
channel or a list holds after a send, a receive or a removal, and that it stays
sorted by a relation. Each invariant below is the strengthening with which the
property becomes inductive.

`SSEHubProofs`, for any connections, IDs, messages and capacities:

- `RegisteredStaysOpen` and `NoCrashBeforeStop` follow from `ChannelInv`.
  `RegisteredOpen` alone is not inductive: closing the channel of the connection
  that unregisters keeps it only because that connection is not registered under
  another ID, and the map entry it drops belongs to its ID. `ChannelInv` adds that
  an entry sits under its own ID, that a connection that has not registered is
  neither in the map nor closed, that the connection `Run` is registering or
  unregistering is in the right state, that a fan-out visits registered clients
  only, and that before `Stop` clears the map only handlers that ended have a
  closed channel.
- `NothingPanicsBeforeStop` adds `QuietInv`: no nil message is in any channel
  before `Stop` closes `hub.broadcast`.
- `FanoutSkipsNobody`: the client a fan-out visits gets the message or counts as
  missed, and its later `Receive`s only move what it has got.
- `SentStays`, by `SentInv`: a call that looked its addressee up found a
  connection past its registration, so what it sent stays as long as that one is
  served.
- `OrderIsKept`, by `OrderInv`: `hub.broadcast` is the end of what it accepted,
  each message once; a connection has got only what `Run` has taken, and during a
  fan-out one still to be visited has not got the last one taken. So what `Run`
  sends next comes after all that a connection has, and what was written and what
  waits in the channel are sorted as one.
- `DeliveredStays`, by `BufferInv`: a call that is past the buffer finds its
  message there, or the buffer full.

`RequestHandlerProofs`, for any requests, Responses, clients, modes and outcomes:
`OneOwner`, `AnswersAreOwn` and `ReportingIsSafe`. They are proved together, as
`OwnerInv`: as long as no call was shared, a Response is in the pool, with one
worker or with one server, and not twice in any; a server holds one only from
the rendezvous to its release; and its fields are what the handler of that
request put in. Who owns a Response is what keeps its content, and the content
is what `handleResponseError` dereferences. `ReportingIsSafe` has the
hypothesis that no handler calls `SetHTTPError` alone (`"bare" \notin Outcomes`),
without which the process does end, see Deviations.

`StoresProofs`, each of the store's own specification:

- `EvictsInOrder`, by `LRUInv`: the list is sorted by the history of last use, and
  the map has its keys. That a list without its victim, or with an entry moved to
  the front, is still sorted are lemmas.
- `StatementsAreShared` proves `StmtInv`, of which `FoundIsOpen`,
  `NoStatementLeaks` and `RoomIsMadeSafely` are consequences. `EntriesInv` (an entry
  is open and for its key) depends on `OwnInv` (the statement a call is about to
  store or close is nobody else's and out of the cache), and both on `UseInv` (the
  statement in use was not prepared by a call that may still close it). A
  statement is closed under a user only after an execution of its query failed.
- `CacheKeepsUp` and `StaleIsAccounted`, by `CacheInv`: an outdated version in Redis,
  or one that a flight is about to store, is one a writer is about to remove,
  failed to remove or removed under a wrong key, or a race that `raced` names.
- `AnswersAreForTargets` has the hypothesis that flight keys tell targets apart.
  The code's key is prefix, key and field joined by colons, so an application
  with keys that contain one may break it; Deviations has the example.
- `OldestGoFirst` and `ReplaysTheBuffer`, action properties, by `BufferInv`: no
  buffered message is newer than the clock.
- `StoresRunTheStores`: a behaviour of the run is one of every store, so that the
  theorems hold of what TLC checks.

`StoresProofs` begins with `MapAccounts` (`CountIsAccounted` and
`ExcessIsAccounted`, of `BoundedSyncMap`), for any finite sets of goroutines and keys and any
capacity. The counter's deviation is the number of goroutines between a map
operation and its counter operation; the invariant carries the finiteness of the
sets whose sizes it counts, and the lemma `Moves` says that a goroutine that
goes from one place to another is the only one to leave or to join.

`WritesProofs`, for any callers, tables, pooled requests and sequences of calls:

- `OnlyCommitsShow` proves `NothingBeforeCommit`, by `CallerInv`, the types of the
  callers and of what transactions did (`pending`).
- `UpsertsAreRight` needs `DecisionStays`: from the count to the write, the decision
  of an `Upsert` is that of the rows it was told, and whatever changes those rows
  sets `raced`.
- `StatementsAreOwn` proves `StatementIsOwn` from `SharedInv`. A cached text is right
  for every call that finds it (`QueriesInv`); no two callers hold one
  `TableRequest`; and what a caller is about to build a statement from asks for
  the conditions of its call (`AsksFor`), which a recycled request does because
  `Reset` empties it. The first half of the module's lemmas says what the
  builders of `QueryBuilder` make of a request: each clause that names a condition
  is one of the request's, whatever keyword, dates, page, lock or `RETURNING`
  stand around it. Conditions are ranged over in the order of a map, so the lemmas
  speak of any enumeration of a finite set.
- `RegularCallsAreBuilt` proves `RegularCallsFit`: for any structs, conditions, rows
  and pages, on every engine. The library has no rule of induction that these
  provers can instantiate, so what `FlattenSeq` makes of a sequence is proved of
  every length by a least counterexample (`LeastNat`, from the well-foundedness of
  the naturals): `FlattenAppend`, `FlattenConcat`, `FlattenType`. A statement is then
  read as an automaton: what stands before a clause decides whether it may follow,
  `Runs(p, s, q, h)` says that the clauses `s` lead from the place `p` to the place `q`
  and have the placeholders `h`, and each builder has its lemma (`ReadRuns`,
  `BulkRuns`, `ActionRuns`, `AddOnFollows`). A request is apt (`MatchedIsApt`) when
  its text of conditions and its parameters agree, whoever used it before: that is
  where `Reset` matters. `FitInv` carries this from the start of a call through the
  count of an `Upsert` to the statement that is sent.

`JobsProofs` proves, of `Import`, that the pipeline implements `ImportContract`
(`ContractKept`) and that it leaves nothing behind (`LeavesNothingBehind`), for
any number of rows and workers. Both follow from `PipelineInv`, an invariant in
named parts: where a worker is determines what it has in hand and the fate of
that row (`HandsMatchFates`), no two workers have one row (`OneHandEach`), rows
ahead of the reader are unread (`RowsInOrder`), every row that was taken is in
some hand or on the list that fits its fate (`ListsMatchFates`), and the
channels close one after the other (`ClosedInOrder`). The first three need each
other: that a worker settles its row disturbs nothing of another only because
their rows differ, and a row that is received differs from all in hand because
it was unread. The lemma `HandStep` treats the steps of a worker between its
receipt and its result as one, and the refinement then maps each action to a
step of the contract.

and, each of the component's own specification, which `JobsSpec` implements
(`JobsRunTheComponents`):

- `StopIsGraceful`, for the process over net/http (`Process`; the statement is false
  of the other server, see `fasthttp_stop`). `StopInv` adds the order of a stop:
  `Shutdown` begins after the watcher, closes the listener before it waits and
  returns when no connection is open or the deadline has passed
  (`ShutdownInOrder`), and neither the verdict, nor the watcher, nor the goroutine
  of `Start` is ahead of it (`NobodyIsAhead`). Without the closed listener the
  emptiness that `Shutdown` saw would not last until the process ends.
- `SchedulesCanBeRemoved`, by `TableInv`: every entry of the engine is listed under
  its pattern or was hidden by a second registration, and the total is their
  number.
- `NoMessageIsPassedOver`, by `SubscriberInv`: what `lastID` has passed was tried, and
  so was what the reply at hand held up to the message the subscriber is at.
- `BulkIsComplete`, by `BulkInv`: a generator without a result is unsent, in the
  channel or with a worker (`WorkInv`), and the archive grows in the order of the
  generators (`ArchiveInv`).

`FastAppProofs`, of the fasthttp application, for any controllers, requests,
handlers, middlewares and sizes of the key:

- `ContextsAreOwn`, by `PoolInv`: the pool holds a `FastRequest` at most once, and
  none that a handler holds, whose ctx is that of its request. A direct handler
  that panics loses the object, which no later `Obtain` can find.
- `AnswersAreThoseOfApp`, by `AnswerInv`: the answer is that of the outcome.
- `ChainsAreOwn`, in two halves. `SetupInv` is about registration: each call of
  `registerFastRoutes` under way has the middlewares and the rest of the routes of
  a scope, and of two calls whose slices share an array the outer one's is not the
  longer (`FramesInv`). So an `append` in place, which only the innermost call does,
  writes beyond the elements of every other (lemma `AppendInPlace`), and a route
  keeps its copy of the chain. `TableInv` adds that an entry of the static table
  is under its own key, and that tables and global middlewares are fixed once the
  handler is composed. `ChainInv` is about serving: what a request has passed and
  what it has still to pass make the global chain and, after `Dispatch`, its
  route's.
- `RoutesAreRight`, by `ServedInv`, on top of lemmas about the matcher:
  `MatchesIffFits` (the scan accepts a path when the pattern fits it, segment by
  segment, with or without a trailing slash), `PanicsFits` (it panics only on a path
  that goes on after a beginning that fits) and `ValuesAreOwn` (the values left are
  those of the route that is served, whatever routes tried before have set).

`RoutesProofs`, of the net/http application, for any options, controllers with
groups of any depth, middlewares and requests:

- `WebIsSound` is the invariant the others need, `WebInv`. A call of
  `registerRoutes` under way has the middlewares and the rest of the routes of a
  scope (`WebFramesInv`). A route of the table is under its own operation, and is a
  default route, or a leaf of a scope whose version has a router and which the last
  entry of its operation in the registry describes (`WebTableInv`): table and
  registry change together, and a default route that is registered again cannot
  replace a leaf, as no version is named like one. The router of a version holds
  what was added between `Init` and its first route, the list of the application
  what was added since `Init` (`WebLogInv`). What `Start` described is still what
  the registry says when a request is served (`WebPhaseInv`).
- `MiddlewaresAreMeant` proves `MiddlewaresApplyOnce`: what lies before a handler is
  the chain that the history means for it (lemma `ChainIs`), and a request that no
  middleware answers has passed all of it (`PassedIs`).
- `InputsAreRight` proves `InputsAreChecked`. Types are given to parameters by
  position; that the n-th parameter of the whole path is the n-th of the route's
  own is counting, over sets of places that are moved by the length of what stands
  before (lemmas from `MovedIs` on).
- `DescriptionIsRight` proves `DescribedAsServed`. `buildOpenAPISpec` keeps the last
  entry of an operation, and so does the table.
- `RoutesRunTheApps`: the specification that the run checks implements those of
  both applications, so the theorems of `FastAppProofs` and these hold of it.

Every safety property of a passing run is thus stated by a theorem.
Model-checked only is all liveness (`ConnectionsEnd`, `EveryRequestEnds`,
`FollowerIsServed`, `EveryImportEnds`, `StopEnds`), which is out of the proof
system's reach.

One attempt corrected the model: `Paging` was a `CASE` whose alternatives
overlapped. TLC takes the first that holds, the semantics of TLA+ takes any, and
nothing about its value could be proved; it is now a choice in the order of the
code.

## Findings

Each is the counterexample of a run whose name it carries.

- `hub_reconnect` (`sse/sse.go:128`): `unregister` deletes the entry of an ID
  whoever holds it. When a peer reconnects under its `X-Client-ID` before the old
  connection ends, the live connection drops out of the map.
- `stmt_failing` (`database/sql.go:512`): a failed execution, or one that finds
  no row, closes a statement that others are about to execute.
- `writes_recycled` (`database/pool.go:37`): `reset` keeps an empty slice of
  conditions that is not nil, and a call without conditions that gets such a
  `TableRequest` panics, though it works with a new one.
- `fasthttp_stop` (`api/fasthttp_server.go:43`): a stop closes the listener and
  returns, and the process ends under open requests.
- `cron_timeout` (`cron/cron.go:139`): a job that exceeds its time-out goes on
  beside the next run of its entry, and blocks for ever when it returns.

## Deviations

The modules follow the code where it departs from a comment or a document of the
repository. These departures have no run of their own; each can be seen by
stating the sentence as an invariant of the module.

The hub:

- A replay from an ID ranges over a map in random order and misses messages
  (`sse/message_buffer.go:74`; its comment, line 66, says "retrieves all messages
  after a specific message ID").
- The oldest message is not evicted when its ID is empty
  (`sse/message_buffer.go:102`). The hub never buffers such a message.
- A handler may read nil from a channel `Stop` closed and panic
  (`sse/sse.go:413`); `SendToClient` may panic on a channel closed after its
  lookup (`sse/sse.go:253`).

Requests:

- The singleflight key leaves the body out, so concurrent requests with different
  bodies share one call (`api/app.go:880`; `benchmark/api/README.md:323`
  "deduplicates concurrent identical requests").
- Workers that share a call share its `*Response`, which the first server
  releases: another may send a Response that is recycled (`api/app.go:609`),
  under a foreign trace ID (604), and `handleResponseError` may find a nil error
  (843).
- `SetHTTPError` alone leaves `InternalError` nil and the reporting goroutine
  ends the process (`api/app.go:843`; `docs/api.md:503`).
- The parameters in the singleflight key are in map order, so identical requests
  with two of them may not share (`api/app.go:877`).
- The worker of a request that timed out stays blocked in its send
  (`api/app.go:559`).

Routes:

- `AddGlobalMiddleware` says "applied to all endpoints" (`api/app.go:253`), but the
  default routes, and versions whose router exists already, do not get a
  middleware that is added after `Init`.
- An `AddGlobalMiddleware` after the first controller leads to a second mount of
  `/debug`, for which chi panics when pprof is on (`api/app.go:1024`).
- The types of a route's own path are matched by position with the parameters of
  the whole path, those of its controller and groups included
  (`api/app.go:665`); the widths of integer types are not checked.
- A `HandlerV2` without a `RouteDoc` gets its inputs unchecked
  (`api/app.go:617`), and a body is always taken for JSON.
- The security scheme of any registered middleware is documented for every route
  that has a doc; a route with only a type for its query lacks the status 400
  (`api/openapi.go:444`).
- `matchParamPath` reads beyond the end of a pattern, and panics, when a path
  goes on after the end of a parametric route registered before
  (`api/fasthttp_app.go:357`); one that fails in the middle leaves its values
  in the context.
- A path longer than 128 bytes, with its method, is looked up as its beginning
  (`api/fasthttp_app.go:302`).
- With logging on, the request ID that was generated is overwritten by the empty
  one of the client (`api/fasthttp_app.go:760`).
- A direct handler that panics does not release its `FastRequest`.
- `fastSendResponse` answers a plain error of `SetError` with an empty 200
  (`api/fasthttp_app.go:589`; `docs/api.md:571`), and an empty Response with 204
  where net/http sends 200 and `null`.

Database:

- The statement cache is keyed by the query alone: a read with `UseMaster` may
  run on the follower and the other way round (`database/sql.go:487`;
  `docs/database.md:224`).
- `boundedSyncMap` may stay above its capacity when two evictions pick one
  victim (`database/sql.go:324`; comment line 265).
- Rows of a `BulkInsert` with different but equally many columns pass the checks
  and put values into the wrong columns; rows with no columns panic, like an
  `Insert` of such a row or one with `ON DUPLICATE KEY UPDATE`, which repeats `,?`
  a negative number of times (`database/sql.go:660`).
- `BulkUpdate` has one `SELECT` too many and a `SET` without a value, and with
  two conditions its parameters follow the order of a map.
- `Upsert` corrects a condition without `?` only for its count; the example of
  `docs/database.md:574` fails when the row exists. Its count runs on the
  follower and outside of the transaction (`database/action/write.go:263`).
- `Write` appends to the caller's `CUDRequest.Values`.
- On Postgres, an `Update` of no row returns `sql.ErrNoRows`.
- `Delete` without conditions, on a new `TableRequest`, hits all rows.
- `Count` clears the caller's page, and its first count keeps `LIMIT`.
- The caches of query texts are keyed without the database
  (`database/action/read.go:16`).
- `Response.reset` of a `SelectResponse` zeroes metadata that others share.

Cache:

- A hash may be left without expiry when it expires between the check of its
  TTL and `HSET` (`cache/redis.go:322`; `docs/cache.md:153`).
- A reader that missed before a flight landed calls the fallback once more
  (`cache/redis.go:285`; `docs/cache.md:190`).
- `Get("k:f")` and `HGet("k","f")` have the same flight key
  (`cache/redis.go:278`).
- A retried `HSet` puts the prefix before its key once more and writes a key no
  reader asks for (`cache/redis.go:489`; `docs/cache.md:34`).

Imports:

- An import has one transaction per row, not per batch (`importer/import.go:587`;
  `docs/utilities.md:326`).
- When `Begin` fails, the function runs without a transaction and the nil one is
  finished, so the process ends (`importer/import.go:594`,
  `database/transaction.go:37`).
- A commit that fails is logged only: the row is lost and counts as a success
  (`database/transaction.go:39`).
- An error whose data is no map makes the caller panic outside of pivots, which
  leaves reader and workers blocked (`importer/import.go:524`).
- A row that cannot be read ends a CSV file without an error
  (`importer/csv.go:37`), and is left out of a workbook.
- With `WithWorker(0)`, which the model excludes, the results close at once, the
  reader waits for ever and the import reports no data
  (`importer/import.go:604`).

Background:

- `PublishStream` sends `XADD` without an ID and its values as one argument, which
  Redis rejects, and under a key without the prefix that the readers use.
- `SubscribeStream` notices the end of its context only between replies and stops
  after eleven failures in a row (`cache/redis.go:426`; `docs/cache.md` "Stops on
  context cancellation or after 10 consecutive failures"). A message that failed
  is lost when a later one succeeds (`cache/redis.go:469`).
- `wrapWithRetries` retries only when the pool is exhausted.
- A pattern that is registered twice keeps an entry nobody can remove
  (`cron/cron.go:86`). A nil Response, or a panic of a handler, ends the process
  (`cron/cron.go:161`). `Stop` waits for no job. The notification of a time-out
  is sent under the context that has expired. `New` without a time zone passes a
  nil option.
- The hub is stopped after `Shutdown` (`api/app.go:1146`), so an open event
  stream keeps `Shutdown` waiting until its deadline; when both are there, the
  select may log "succeed" (`api/server.go:55`).
- An error of the archive is assigned to a copy of the result and lost
  (`generator/bulk.go:113`; comment line 93), and the archive may hold a part of a
  file.

## The plan

Done: the hub and its buffer, request handling, the statement caches, the cache
store, the import pipeline, both applications from setup to answer, the query
builder and the repository layer, and what runs beside the requests: stopping,
schedules, subscribers, bulks. Their safety properties are proved.

Next:

1. Abstract specifications: a publish/subscribe service for the hub, a map from
   queries to statements for `StmtCache`, with their refinement.
2. `ReadPivotData`, which reads a sheet into a map, as a function with its
   reference.

## Not modelled

Generators of documents and images, mail, storage, notifications, monitoring,
contexts, binding, null types and test doubles are I/O or stateless conversions;
`PROJECT.json` gives the reason for each. Of modelled parts, these are left out:
the schemas in the OpenAPI description, derived by reflection; `PublishStream`,
which never works, and the consumer groups, whose state is Redis's; the
buckets of the rate limiters, whose refusal is a choice; `HGetAll`, which changes
nothing. The trees of chi, Redis, the databases, robfig/cron, net/http and
fasthttp are external, and modelled by what the code relies on. Data races in
the memory-model sense are left out except where two goroutines use one
`*Response`.
