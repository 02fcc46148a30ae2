# A TLA+ verification of ida-pilot

ida-pilot is an MCP server in Go that gives an agent access to IDA Pro. For
every binary it opens, the server starts a Python worker process that holds the
IDA database; tool calls are forwarded to the worker over a Unix socket or a
loopback port. The modules in this directory model the parts of the server
that keep state across calls and that several goroutines change at once:
sessions and their workers, the records that survive a restart, the progress
stage that gates the tools, the analysis guard, the idle watchdog, the caches
of each session, the worker with its database, and the tools themselves: what
each of them asks of a worker, what it does when that fails, and what it leaves
behind.

All paths below are relative to the repository's root. PROJECT.json holds the
machine-readable side: the line ranges each definition translates, the runs,
the mutants, the hazards and the theorems.

## 1. Inventory

| Part | State | Operations | Shared with |
|---|---|---|---|
| Session registry, `internal/session/registry.go` | `sessions` (id to session), `binaryIndex` (path to session), `maxSessions`; one RW mutex | `Create`, `Restore`, `Get`, `FindByBinaryPath`, `List`, `Delete`, `Expired` | every handler, the watchdog, the restart |
| Session object, same file | `LastActivity` (mutex), `inFlight` (atomic counter), `analysisActive` (atomic flag) | `Touch`, `IsExpired`, `AcquireInFlight`, `ReleaseInFlight`, `HasInFlight`, `TryBeginAnalysis`, `EndAnalysis` | tool calls, detached goroutines, the watchdog |
| Session store, `internal/session/store.go` | one JSON file per session; one mutex | `Save` (temporary file, then rename), `Load`, `Delete` | open, close, watchdog, restart |
| Session lifecycle, `internal/server/session.go`, `cmd/ida-pilot/main.go` | none of its own: drives registry, manager, store, tiers, progress and caches | `openBinary`, `backgroundOpen`, `closeBinary`, `Watchdog` / `cleanupExpiredSessions`, `RestoreSessions` | all of the above |
| Worker manager and launcher, `internal/worker/` | `sessions` (id to client and process) | `Start`, `GetClient`, `Stop`, `monitorWorker`, launch and kill | lifecycle, every tool call |
| Progress and readiness, `internal/server/progress.go`, `util.go` | the progress snapshot of every session | `recordProgress`, `readinessError`, `resolveClient*`, `waitForReady`, `withHeartbeat` | the background open, `run_auto_analysis`, `watch_auto_analysis`, waiting calls |
| Tool tiers, `internal/server/server.go` | `currentTier` and the sets of tools registered with the MCP server; one mutex | `promoteToTier`, `demoteToTier0`, `PromoteIfSessions` | open, close, watchdog, analysis tools |
| IDA worker, `python/worker/server.py`, `connect_server.py`, `ida_wrapper.py` | the job queue of the single IDA thread, the open database | `submit`, `run_forever`, `open_database`, `plan_and_wait`, `close_database`, session info off the IDA thread | one server process |
| Session caches, `internal/server/cache.go`, `composite.go`, `read.go` | per session: function, string, import, export and segment lists, a bounded LRU of pseudocode, cross-references, notes; one RW mutex | `loadCached`, `getDecomp` / `setDecomp`, `getXRefs` / `setXRefs`, `invalidate*`, `pruneNotedFunctions`, `deleteSessionCache` | read and write tools, background open, `run_auto_analysis`, close |
| Output cache, `internal/server/output_cache.go` | large outputs by id, FIFO and TTL limits | `store`, `page`, eviction | composite and read tools |
| Write tools and imports, `write.go`, `il2cpp.go`, `flutter.go` | the worker's database | rename, comment, type, import | session caches |
| Composite, read, search, cross and type tools, parallel fan-out | none | pipelines over worker calls, side by side or one after the other | worker, caches, notes, tiers |
| Dispatch and request schemas, `dispatch.go`, `params.go` | none that outlives a call | choosing a handler, refusing arguments | — |
| Configuration, `server.go`, `cmd/ida-pilot/main.go` | the settings, fixed at the start | `LoadConfig`, `ApplyEnvOverrides`, flags, validation | everything |
| Formatting, path guard, HTTP | none | conversion and filtering | — |

How they interact. A tool call resolves its session in the registry, touches
it, asks the manager for the client, takes an in-flight lease that ends with
the request, and passes the readiness gate. `open_binary` answers before the
binary is loaded: it creates the session, starts the worker, saves the record,
promotes the tools and leaves the load to `backgroundOpen`, which talks to the
rest only through the progress stage and the analysis guard. The watchdog and
`close_binary` take the same things down, one after the other, without a common
lock. A restart has nothing but the store.

### What is hard

* **Several small critical sections per handler.** Every component has its own
  lock and no handler holds two; what a handler knows from one step may be
  stale in the next (find and create, list and demote, check and stop).
* **Two tear-downs and one build-up of the same session**: close, expiry, and
  an opening that has not finished.
* **Restarts in the middle**: between registry and store, and inside a save.
* **Many writers of one progress stage**: heartbeats, the background open,
  `run_auto_analysis`, `watch_auto_analysis`, and waiting calls.
* **Leases against a clock**: an idle timeout that must start at the end of
  the last operation, not at its beginning.
* **A worker that is busy for ever**: a close must end all the same, and what it
  gives up must be no more than it has to.
* **Calls that fail in part**: a tool makes up to five calls to the worker side
  by side, and each has its own rule for a failure.
* **Pages**: of lists, of stored replies, of the strings; cut by four different
  pieces of code, with limits and offsets a client chooses.
* **Cached answers against concurrent writes**: a fetch, a write in the worker
  and the invalidation after it are separate steps of different calls, and the
  invalidation is targeted by a name and a function list read earlier.

PROJECT.json lists these as hazards, each at its line, with the properties that
would notice it going wrong.

## 2. The modules

| Module | Models | Size of a step |
|---|---|---|
| `Registry` | `registry.go`: `Create`, `Restore`, `Delete`, `FindByBinaryPath`, the limit; `RegistrySpec` is the abstract specification | one operation, under the registry's lock |
| `WorkerPool` | what the worker manager promises; an abstract specification | a worker enters, ends, is forgotten |
| `Worker` | `manager.go`, `launcher_direct.go` and the worker's own side, for one session: launch, requests, stop, kill, the IDA thread, saves and what they save | one request, one job, one step of `Stop` |
| `Lifecycle` (extends `Registry`, instantiates `WorkerPool`) | open, close, analysis calls, watchdog, worker exits, server exit and restart, tiers, manager, store as a map | one operation on one shared component |
| `Readiness` | one session: background open, `run_auto_analysis`, heartbeats, waiting calls, list tools, `watch_auto_analysis`, close, the worker's queue | one write or read of the stage or guard, one worker call |
| `InFlight` | one session: leases, activity time, watchdog's decision | one access to a session field |
| `SessionStore` | `store.go` at the level of files | creating, completing, renaming or removing one file |
| `SessionCaches` | one session's function list, pseudocode LRU and cross-references; the reads that fill them, every write tool, imports, analysis | one request to the worker, or one operation under the cache's mutex |
| `Paging` | the four ways to cut a page, with Go's integers | pure operators |
| `OutputCache` (extends `Paging`) | `output_cache.go`: the store of long replies; a client that pages | one operation under the store's mutex, one page |
| `ToolTiers` | the sets of tools each tier registers and removes | one promotion or demotion |
| `ToolHandlers` | the handlers of all tools, as scripts: sequences of steps | pure definitions |
| `ToolSchemas` (extends `ToolHandlers`) | which requests reach which script: `params.go`, `toolEnums`, the dispatchers | pure definitions |
| `ToolCalls` (extends the four above) | what the steps of the scripts do, with other calls, sessions that come and go, workers that die | one step of one handler |
| `Configuration` | the layers of settings, and `main` up to the point where it has them | one layer |
| `MCLifecycle`, `MCWorker`, `MCReadiness`, `MCSessionStore`, `MCSessionCaches`, `MCToolCalls` | TLC instances: symmetry sets, bounds | |
| `RegistryProofs`, `LifecycleProofs`, `WorkerProofs`, `ReadinessProofs`, `InFlightProofs`, `SessionStoreProofs`, `SessionCachesProofs`, `ToolCallsProofs` | theorems | |

Operators named "faulty variant" in their comments are not part of any
specification: each is the mutated form of the definition that follows it, and
the mutation shows that the property it belongs to depends on the code.

### Lifecycle: state and actions

`sessions` and `binaryIndex` are the registry. `clients` is `Manager.sessions`;
`alive` the processes that run. They differ between a worker's exit and the
clean-up by `monitorWorker`. `records` is the store, `tier` the tool tier,
`bg` the sessions whose `backgroundOpen` holds its lease. `call[c]` is the
handler running in slot `c` with its program counter and local variables; `dog`
is the watchdog with its snapshot of expired sessions and the one it works on.

* `openBinary` is `OpenFind`, `OpenReuse`, `OpenCreate` / `OpenRefused`,
  `OpenStart` / `OpenStartFails`, `OpenClient`, `OpenUndo`, `OpenPersist`,
  `OpenPromote`. A save that fails is logged and ignored in the code, and so
  here (`"save"` in `Faults`).
* `closeBinary` is `CloseStop`, `CloseDelete`, `CloseForget`, `CloseList`,
  `CloseDemote`: a failing stop does not end the clean-up.
* The watchdog is `DogTick`, `DogSkip`, `DogPick`, `DogStop`, `DogDelete`,
  `DogForget`, `DogList`, `DogDemote`. Which sessions are expired is a free
  choice here; the decision itself is the subject of `InFlight`.
* `ServerExit`, `Boot`, `RestoreStale`, `RestoreSkip`, `RestoreSession`,
  `RestoreFails`, `Listen` are an exit at any point, `RestoreSessions` and
  `PromoteIfSessions`. `RestoreSessions` runs before the server listens, so
  that one session's restore is one step; the record's removal may fail
  (`"remove"`).

A session can be closed, and can expire, before its own `open_binary` has
returned: `resolveSession` picks it without being told its id, or lists the id
(`util.go:79-92`), and a second open of its path is given it while the worker is
starting (`session.go:151-170`). `ClientClose` and `DogTick` have no guard
against it, as the code has none.

Three history variables, which no guard reads, let the properties name what goes
wrong. `unstopped` are the ids whose teardown did not stop a worker: the kill
failed, or `Start` had yet to file its client. `unremoved` are those whose
teardown left a record: its removal failed, or the open had yet to write it.
`raced` says that the last promotion found no session, the last demotion one, or
a failed open ended the last session. In `Registry`, `shared` are the paths that
two sessions have had at once and that one of them still has.

### Worker: state and actions

`start`, `client` and `reaped` are the manager's side of one session, `proc` is
the process, `stop[s]` the `Stop` call `s`, `req[r]` the request `r` of a tool.
`queue` holds the jobs of the IDA thread, named by the call that sent them; a
job that nobody waits for any more stays in it. `db`, `mem` and `disk` are the
open database and its file, each as the set of writes it contains.

* `Manager.Start` is `LaunchStart`, `LaunchReady` or `LaunchTimeout`,
  `FileClient`; `monitorWorker` follows the end of the process.
* `Manager.Stop` is `Stop` (the client, the `CloseSession` request),
  `CloseGivenUp`, `stopWorker`, `StopWaited`, `StopForgets`. A failing kill ends
  it early and leaves the client, and exec's watcher kills once more
  (`ContextKill`).
* The IDA thread is `OpenForJob` / `OpenRepairs` / `OpenFails`, `DoRead`,
  `DoWrite`, `SaveBegins` with `DoSave` or `CloseSaved`, and `CloseNothing`. A
  process that ends in the middle of a save may leave a torn file.

`closed`, `late`, `unkilled` and `excused` are history variables: they name the
events the properties exempt.

### WorkerPool: the two refinements

`WorkerPool` knows the ids with a client and the ids with a running process.
`Worker` implements it with one id (`ImplementsPool`: the client is filed, the
process is seen once it is filed). `Lifecycle`, which has many sessions and no
inside of a worker, uses workers only in its ways (`ImplementsPool` there). So
what `Lifecycle` takes for granted of a worker is what `Worker` shows of the
manager and the launcher.

### Readiness: state and actions

`stage` is the recorded progress stage; `active` is `analysisActive`; `pc`,
`ok` and `beating` are the goroutines, the result of their last worker call and
their heartbeats. `queue`, `db`, `dead` are the worker: jobs are executed one at
a time, in order, and every job opens the database if it is not open.

`withHeartbeat` records the stage, starts the heartbeat and makes the call;
`Join` is the `close(stop)` and the wait for the heartbeat goroutine.
`OpenClaim` is `TryBeginAnalysis` in `backgroundOpen`; `RunAutoAnalysis` and
`AlreadyRunning` are the two outcomes of the same test in `run_auto_analysis`.
`WaitCheck`, `WaitRead` and `WaitEmit` keep apart the two reads of the stage in
`waitForReady` and the write its reporter makes. `WatchInfo` and `WatchEmit` are
`watch_auto_analysis`; its session-info calls bypass the IDA thread.
`ListStart` and the steps after it are a list tool, whose `progressReporter`
records a stage of its own. The steps of `life` are those of `close_binary` that
touch this state: the worker stops, cache and progress are dropped.

`disturbed` is set by a step that records a stage over that of somebody else,
`overtaken` by a close that begins while others are at work. They are the two
excuses of the properties, and every step that sets them is one the code has.

`Gate` is `resolveClient`: a client and no readiness error.

### InFlight: state and actions

Times are kept as ages that stop growing just above the timeout, the only value
they are compared with, so the clock needs no bound. `ended` is a history
variable: the age of the last end of a worker operation. The clock stands still
while the watchdog is between its reads and while a call is between its touch
and its lease: these are a few instructions, the timeout is minutes. The
session starts as `open_binary` leaves it, with `backgroundOpen` about to take
its lease. A restored session starts with an old activity time; there the
watchdog's first tick, a minute after the boot, leaves `backgroundOpen` time for
its lease, and the module does not cover it.

### SessionStore: state and actions

Of a file only this is kept: absent, a part of a record, or a whole record.
`"exit"` lets the server exit inside a save, `"write"` lets the write or the
rename fail; either leaves the temporary file as it is. `live` are the sessions
the server has, those a `Load` returned and those opened since; they are the ones
it can delete. `Load` reads every file of the directory, the temporary ones
included, and fails as a whole when one does not decode. `saved`, `deleted` and
`used` are history variables.

### SessionCaches: state and actions

`sym`, `defined` and `xrev` are the part of the worker's database that cached
data depend on: of every address its name, a revision of its type and one of its
inside (local variables and comments, of a function), the functions that exist,
and a revision of the cross-references. Two names and two revisions are enough,
since a cached value is only compared with the current one. `functions`, `texts` with `order`, and `xrefs` are
`sessionCache`; `loading` is the load that holds the mutex.

* A read of pseudocode is `ReadText` (the look-up, which reorders the LRU),
  `FetchText`, `StoreText`; of cross-references `ReadXRefs`, `FetchTo`,
  `FetchFrom`, `StoreXRefs`. A load of the function list, by `get_functions`, a
  search or the warm-up, is `LoadLock`, `LoadFetch`, `LoadStore` or `LoadFails`:
  `loadCached` calls its loader under the write lock.
* A tool call (`setName`, `pyEval`, ...) starts a write `wr[w]`; it goes through
  `AskName` (`fetchName`), `Write` or `WriteFails`, `GetCache`, for a rename
  `CheckFunction` (`isCachedFunction`), and then the invalidations its `todo`
  names, in the order of the handlers (`Due`). `set_comment` counts in its
  decompiler scope only: by the code's own comment other scopes do not show in
  pseudocode. Calls with `read_only=true` of `py_eval` are not writes.
* `deleteSessionCache` lets every reader, load and writer that holds the old
  cache object go on with it unseen, so that their steps end there.
* The excuses of the properties: `over` marks what a read fetched before a write
  took effect and stored afterwards; `skewed` says that, since the caches were
  last dropped, metadata were imported or the reply to a write was lost;
  `unsought`, in a cached text, are the symbols for whose change no handler looked
  through that text: a function that `annotate_function` renamed, or `set_name`
  when the function was in the cached list, in the text of another function; and
  a symbol that had, when it was changed, another name than the one the handler
  had asked for, or whose name could not be had.

Scripts, imports and analysis passes change everything they may change.
A pseudocode (`Text`) shows the name and the type of its function and of all
`Labels`, and its function's inside; that of a function in `Callers` shows the
name and the type of every function. In the runs all functions are callers.

### The tools: scripts, schemas, calls

`ToolHandlers` gives every handler as a sequence of steps, in the order of the
code: an argument is tested (`Check`), the session is resolved in one of four
ways (`Resolve`), calls go to the worker (`Ask`: those of one step run side by
side, and each says whether its failure ends the handler, is told in the reply,
or leaves a silent hole), and the steps that touch the server: the cache pointer,
notes, tiers, the store of replies, the registry. `ToolSchemas` says which
requests get past the schema, and which script they start.

In `ToolCalls`, `call[c]` is the call in slot `c`: the steps it has left, the
sessions it found, whether it holds a pointer to their cache, the calls it waits
for, those that failed, those its reply names, and whether it has changed
anything. Of a session the module has what calls can tell apart: registered,
stage, background jobs, worker, the note on one address. `Asks`, `Answers` and
`runLabeled` are the fan-out of `parallel.go`; `Starts`, `Stops`, `Deletes`,
`Uncaches`, `Lists`, `Demotes`, `JobEnds` the life of sessions, as the other
modules have it in detail. A load that was answered warms the cache (`Warms`,
`WarmsCache`): `warmSessionCache` asks for the client and then for the cache, of a
session that may be closed by then. `outlived` is history: the sessions that were
closed while somebody could still make their cache. `orphans` are calls to the worker that outlive their handler.

`OutputCache` keeps a stored reply as its length and the time it came; `puts` is
the history of what was stored. `reader` is a client that follows the offsets
through a stored reply, a list, the globals, or, as the server does itself, the
strings in chunks; it may ask for any page size. A page is a pair of slice
indices; one that Go would panic on ends in the state `panic`.
`watch_auto_analysis` is in `Readiness` only.

### Configuration

A layer is a function on the settings it mentions. `StartStep` applies file,
environment and command line in the order of `main` (`start` is how far it is),
and validates; one setting at a time is looked at, with every value a layer can
give it. `MCSessionStore` puts this before the store, as `main` does
(`StartedSpec`); the store does not look at the values, so `Up` forgets them.

### Modelling assumptions

* Session ids are eight hexadecimal digits of a random UUID, and are assumed
  not to repeat.
* In `Lifecycle`, `Manager.Stop` is one step: between its save request, its kill
  and the removal of the client, the state is one that a worker exit also
  produces. `Worker` has all the steps.
* In `ToolCalls` an analysis of a session that is being analysed changes
  nothing, and the worker's answers depend on nothing: any call may fail at any
  time.
* `OpenUndo` leaves the workers alone: it is reached when `Start` failed or when
  the client is gone, so that the stop it makes finds no client.
* The worker's process is not seen before its client is filed; a `Stop` that
  comes earlier marks its session `unstopped`, whether the launch then succeeds
  or not.
* The workers end with the server, as on Linux (parent-death signal) and on
  Windows (job object).
* Progress snapshots and caches, which close and watchdog also clear, are not
  part of `Lifecycle`; `Readiness` and `ToolCalls` have their removal.

## 3. The runs

TLC's deadlock check is off in every run: a server with nobody calling it may
rest, ids and restarts are bounded, and a removed session has nothing to do.
Progress is stated as temporal properties instead.

| Run | Checks | Instance |
|---|---|---|
| `lifecycle_registry` | `IndexSound`, `SessionFound`, `WithinLimit`, `SessionsPersisted`, `ImplementsPool` | 3 ids, 2 paths, 2 calls at once, limit 2, worker exits, 1 server exit |
| `lifecycle_concurrent` | `RecordsOwned`, `WorkersOwned`, `CloseRemoves`, `TierSettles`, `CloseIsFinal` | 2 ids, 1 path, 2 calls at once, every I/O fault, watchdog, 1 server exit |
| `workers` | `UpReachable`, `NothingLost`, `ImplementsPool`, `CloseUnblocks` (liveness) | 2 requests of any kind, 2 stops, every fault |
| `readiness` | `OnePass`, `GuardHeld`, `GateSoundUndisturbed`, `StageAdvances`, `Rests`, `LeftoversExcused` | opener, 1 early `run_auto_analysis`, 1 waiting call, 1 list tool, 1 watch, 1 close, every fault |
| `inflight_leases` | `LeasesCounted`, `IdleBeforeStop`, `Reclaimed` (liveness) | 2 calls, 1 detached goroutine, the opener, timeout 2 |
| `store_faulty` | `DiskAgrees`, `LayersDecide` | 3 ids, both faults; 9 settings, every layer with or without one of 4 numbers or 3 texts |
| `caches_fresh` | `FunctionsFresh`, `TextsFresh`, `XRefsFresh`, `LRUSound` | 2 functions that call each other, 1 label, LRU of 1, 1 read, 1 load and 2 writes at once, names not to be had, lost replies |
| `tool_calls` | `SchemaGuards`, `RefusedUntouched`, `FailuresTold`, `NoOrphans`, `NotesKept`, `CachesClosed`, `TierTools`, `EntriesKept`, `PagesInBounds`, `PagesReassemble` | all tools with every choice, 2 sessions, 2 callers, a store of 2 replies, pages of 1 to 3 |
| `lifecycle_duplicate` | `OneSessionPerBinary`: violated | 2 calls |
| `readiness_watch` | `GateSound`: violated | one load and one watch |
| `readiness_waiter` | `WaiterServed`: violated, under fairness | one load and one waiting call |
| `store_interrupted` | `Recovers`: violated | an exit inside a save |

What the passing runs show.

* **`lifecycle_registry`**: whatever two handlers, dying workers and a restart do
  to each other, the path index never names a session that is gone
  (`open_binary` would hand it out), and it finds the session of every open
  binary but one that two sessions have shared; the limit holds; a session
  whose open has returned can be restored; and the handlers use the workers as
  `WorkerPool` allows.
* **`lifecycle_concurrent`**: sessions are closed and expire at any moment, in the
  middle of their own opening too, beside another close, dying workers, failing
  saves, kills and removals and a restart. A record outlives its session only when its
  removal failed or when it was written after the removal; a worker only when it
  was not killed or when its start was overtaken by the stop; and a close leaves
  nothing but these. What is gone stays gone, over restarts too. The tools at rest
  are those of the sessions, unless the last step to set the tier passed another
  in one of three ways (`raced`); the restart sets it by the sessions restored.
* **`workers`**: no process is out of reach of a stop unless a kill fails; a
  write that was acknowledged before the `CloseSession` is in the file of a
  worker that was stopped, unless the close timed out, a save failed, the
  process ended by itself or its file was corrupt; a stop ends and frees the
  callers that wait for the worker, although a job may never end; and manager,
  launcher and process implement `WorkerPool`.
* **`readiness`**: one analysis pass at a time, with the guard held exactly
  during it on every error path; the stage goes back only when a new pass
  starts, and it comes to rest at ready or failed; a close leaves nothing in the
  server's maps unless somebody was at work when it began; and the gate opens
  only on an open, analysed database, unless one of four known disturbers
  recorded a stage (a watch, a waiting call with an old stage, a list tool, a
  `run_auto_analysis` during the load).
* **`inflight_leases`**: no lease is lost or returned twice; the watchdog
  decides to stop a worker only a full timeout after the last operation ended;
  an unused session is removed.
* **`store_faulty`**: whatever save is broken off, the record files are whole
  and are those of the saved sessions. Before that, `LayersDecide`: the settings
  `main` arrives at are those the README promises of the layers, usable or not.
* **`caches_fresh`**: when no write is between its effect and the end of its
  invalidations, a cached function list is the database's; and a cached
  pseudocode that was not overtaken by a write between its fetch and its storing
  shows every symbol as the decompiler would, those of other functions included,
  whatever pairs of renames, retypes, comments, scripts and analysis passes ran at
  once, and whether or not their replies came and names were to be had, but for
  the symbols for whose change nobody looked through it (`unsought`). Both
  directions of cached cross-references are of the database's present revision,
  unless a write overtook them in the same way. The LRU's map and list agree and
  stay within the capacity.
* **`tool_calls`**: no request that passes a schema falls into a handler's
  fallback (but `cross_search.mode`); a refused request has changed nothing,
  however late the handler tests its argument; a reply names exactly the parts
  that failed, apart from the holes `BestEffort` lists; only `get_references`
  leaves a call to the worker behind; a note stays until a pass or a close drops
  its cache; a closed session has no cache, unless a call that had found it was
  still running, or a load whose client outlived the close warmed it again; the
  tools on offer are those of the tier; a
  stored reply can be read until it expires or is pushed out; and a client that
  follows the offsets, with any page sizes, gets everything once, in order, and
  is told when it has.

### Why the bounds are enough

Two sessions of one path and one of another, at a limit of two, are the fewest
that make the index ambiguous, fill the registry and let a restart meet a full
one; a third id lets a session be opened after one was closed: so
`lifecycle_registry`. What a teardown leaves behind concerns one session and those
who work on its id; in `lifecycle_concurrent` two calls and the watchdog are three
handlers on it, every pair of handlers meets, and a second session is what a stale
list of sessions needs; one of the two is missed by its teardown between two
starts of the server (`FewMissed`), with its worker, its record or both. In `Worker` two stops meet on one worker (close and
watchdog, or a close repeated after a failed kill), and two requests are one
before and one behind the `CloseSession`, or both before it. In `Readiness` the
opener and `run_auto_analysis` compete for the guard, and every other writer of
the stage is there once, so that each pair of them meets. In `InFlight` a timeout of two
separates "just now", "a while ago" and "too long", and two calls with a
goroutine overlap in every way. In `SessionCaches` two writes interleave with
each other, with a read and with a load at every step; two functions at a
capacity of one make every second store evict, and one of them may be created
by `make_function`. Texts and cross-references share nothing but the moments at
which both are dropped, so that a read is of one of them while none of the other
is cached (`OneKind`).

`tool_calls` has its bounds in `MCToolCalls`, because the product of every tool
with everything that can happen to a session is too large. One caller opens,
closes and analyses, the other makes all other calls. All of these meet a session
that is loading, ready or failed and whose worker may die (`Plain`); the calls
that leave something in the server (`Lasting`) also meet one that is closed or
analysed under them (`Disturbed`); the two tools that take two sessions meet two.
Replies are stored, paged and pruned with one settled session (`Settled`), since
the store does not depend on sessions; what a page returns does not depend on
anything but its numbers. `RepliesFirst` delivers a reply before anything else
happens, which hides no state the properties speak of. With an int of at most
9 and pages of up to 3, every boundary of the page arithmetic occurs, the wrap
of an addition included; the longest list, of 4, has more than one page of every
size a client asks for but the unlimited one. A store of two is full with the
second reply and evicts with the third.

The theorems of section 5 remove these bounds
from the properties they cover.

`IdsLeft` keeps a call from starting an open that could not draw an id; it is a
bound of the model, as are `MaxCrashes` and the finite sets of calls.

## 4. Fairness

Weak fairness is assumed for the steps of goroutines that have started: Go
schedules runnable goroutines, no handler waits for another one, and worker
calls return or fail (the connection breaks when the process ends).

* `Worker` (`CloseUnblocks`): the steps of `Stop` with their time limits, and
  connections that break. Nothing is assumed of the IDA thread, whose job may
  run for ever, nor of clients.
* `InFlight` (`Reclaimed`): also the clock and the watchdog, which is a ticker.
* `Readiness` (`WaiterServed`): the goroutines of the load and the waiting call,
  and the worker's IDA thread; the counterexample does not need them to stop.

Nothing is assumed of clients, of worker and server exits, of cancellations, nor
of heartbeat ticks. `Lifecycle`, `SessionStore`, `SessionCaches` and `ToolCalls`
state no fairness: their properties are safety properties.

## 5. The proofs

Every theorem holds for all values of the constants that satisfy the modules'
named assumptions: any number of sessions, paths, calls, restarts, requests, any
limit, any timeout, any length of a page.

* **`RegistryIndexSound`, `RegistryFindsSession`, `RegistryWithinLimit`**.
  `IndexSound` with the types is inductive, and so is `SessionFound`, whose
  `shared` says when a deletion takes the index entry of somebody else.
  `WithinLimit` needs `Live` finite, which the limit itself
  supplies: an insertion that passes `~Full` adds one element to a set smaller
  than the limit.
* **`LifecycleTypes`**. The inductive invariant `BaseInv` adds to `TypeOK` what
  the handlers' program counters say about their locals (`CallInv`, `DogInv`:
  a step that uses an id or a path has one), that ids in use were drawn
  (`UsedInv`) and what a restart has still to visit (`BootInv`).
* **`LifecycleIndexAndLimit`, `LifecycleSessionFound`**. From `BaseInv`, the
  lemma `LifecycleImplementsRegistry` says that every step of the server is a step
  of `RegistrySpec` or leaves the registry alone: that restores and opens are of
  ids not registered is where `BaseInv` is needed. Its corollaries transfer the
  registry's theorems to the running server, with all handlers, faults and
  restarts.
* **`LifecyclePersists`**. If saves do not fail, a registered session whose open
  has returned has its record in the store with its path, with closes inside
  an open, failing kills and removals, watchdog and restarts.
  `SessionsPersisted` is not inductive: a handler that is about to remove a
  record could remove that of a registered session. `RecordInv` says that
  whoever is past the registry deletion works on an id that is not registered
  and, since ids are drawn once, never will be again; and that an opening
  session and its call agree on id and path.
* **`ReadinessOnePass`, `ReadinessGuardHeld`**. `GuardInv` is the conjunction of
  the two with the types of what they mention: neither is inductive alone,
  since the claim of the guard is safe only if the guard is held whenever
  somebody is in a pass.
* **`InFlightLeasesCounted`, `InFlightIdleBeforeStop`**. The counter is the
  cardinality of the set of holders. `IdleInv` says that while the watchdog has
  seen no lease and has still to look at the time, every operation that ended
  recently enough has been followed by a touch: this is where the order inside
  `ReleaseInFlight` (touch, then decrement) and the order of the watchdog's two
  reads (counter, then time) are used.
* **`StoreDiskAgrees`** needs that the store's lock admits one save and that a
  file being renamed is whole. **`StoreRecoversCleanly`**: when no save is
  interrupted, a restart loads exactly the saved sessions, none deleted; the
  two violated statements about the store are thus due to interruptions only.
* **`LayersOrdered`** holds for every set of numbers and texts that the layers
  can give to a setting (`Ints`, `Strings`), any setting at a time. `StartInv`
  says which layers the settings stem from at each step of `main`; `Decided` gives
  the winner for one setting, from which `StrongestDecides` derives what a
  stronger layer hides and `SettingsUsable` what a server can start with.
* **`LifecycleUsesPool`, `LifecycleCloseIsFinal`**. From `BaseInv` again: every
  step uses the workers as `WorkerPool` allows; and whatever would bring a
  session back either draws a fresh id, or has a record to start from, or is the
  opening call itself.
* **`NoLeaks`, `ClosingSaves`, `TypeCorrect`, `Implements`** (`WorkerProofs`).
  The inductive invariant is the types with `StopInv` (a stop that is past its
  kill finds the process dead), `UpReachable`, `CloseInv` (without an excuse, a
  filed worker is killed only after a `CloseSession` has been executed) and
  `DataInv` (what was acknowledged is in the open database, and in the file once
  it has been closed). `NothingLost` is not inductive: while the worker runs,
  the writes are in its memory. From the invariant, each step is one of
  `WorkerPool` or leaves it alone.
* **`CachesFunctionsFresh`**. `FunctionsFresh` holds for any number of functions,
  reads, loads and writes, with lost replies. `ListInv` says that what is
  cached, and also what a load is about to store, is the database's list, or
  that some write still owes the invalidation (`CacheGood`, `GotGood`) or the
  caches are excused; that a load under way holds the mutex (`LockHeld`), so that
  no invalidation comes between its fetch and its store; and that a rename on
  its way to the check has the invalidation still to do (`Checking`).
* **`ToolsOfTheTier`**. `TierTools` with the tier's range is inductive, since
  what a demotion removes is what the two promotions add.
* **`NothingSkipped`, `PagesCut`**. `ReaderInv` says of a client that reads how
  far it is, that there is nothing missing before that, and, of one that the
  handler panicked on, which request that was. The cases of the page operators
  are lemmas about integers that wrap.
* **`StoreBounded`, `RepliesKept`**. `StoreInv`: the queue is the tail of the
  history of what was stored, each of its entries is stored under the time the
  history has, and what is no longer in it was pushed out by the limit's number of
  later ones or has expired. It makes the queue free of repetitions, which is why
  map and queue agree.

* **`LifecycleOwnsWorkers`, `LifecycleOwnsRecords`, `LifecycleCloseRemoves`** have
  no assumption: sessions are closed at any step of their opening, and kills,
  removals and saves may fail. Invariants follow a worker and a record from
  the call that makes it to the one that removes it, and a close from step to step,
  whoever else closes the same session: an id being opened is in the hands of one
  call, and a worker or a record without a session has somebody who is about to
  take it down, or is marked by the one who missed it.
* **`LifecycleTierSettles`** has no assumption either: any number of calls, the
  watchdog, failing opens. The invariant says that, unless the last step to set the
  tier was a race, a tier above 0 has a session or a handler that has still to count
  the sessions, and a session without a tier an open that has still to promote.
* **`ReadinessTypes`, `ReadinessGateSound`, `ReadinessStageAdvances`,
  `ReadinessRests`, `ReadinessLeftovers`** have no assumption. `BasicInv` says
  where the goroutines can be (`ActorInv`) and that each job in the worker's queue
  belongs to exactly one of them that waits for it (`QueueInv`). `StageInv` is the
  heart: on an undisturbed session the stage is that of whoever is at work, and a
  terminal one when nobody is (`StageFits`). It needs `GuardInv`, since two passes
  would overwrite each other's stages. `DbInv` ties the open database to the
  stage, `LeftInv` the cache and the progress to the close.
* **`CachesXRefsFresh`**. As for the function list, but both directions are kept
  together and read without a lock: `ReadInv` says what a read under way may
  store, and `XRefsInv` that this is of one revision or that some write still owes
  the invalidation.
* **`CachesTextsFresh`** has no assumption: any functions may call each other,
  names may be missing, replies lost. `EntryInv` gives the cached texts and their
  histories their types. `TextsInv` says of every symbol a text shows that it is
  as the decompiler would show it, that nobody looked for it (`unsought`), or that
  some write has the invalidation still to do, under the name it looks for.
* **`CachesLRUSound`** holds for every capacity, without an assumption. What is
  left of the list after a removal is defined by counting (`Removed`): the k-th
  element is the one at the index with k remaining indices up to it.
  `RemovedPlaces` shows that this is a bijection, by the cardinality of finite
  sets and not by induction, and `RemovedList` that the elements left are
  those not removed, each still once, and fewer if one was; TLC checks on
  short lists that `Removed` is the filter it stands for (`RemovedFilters`). That
  an entry differs from none is an assumption on the constant that stands for
  none (`NilAssumption`).
* **`SchemaGuarded`, `RefusalsTouchNothing`, `RepliesTellFailures`**, three facts
  about every call at every moment, in two halves. `ScriptsSound` is about the 26
  tools' scripts, with every choice the schemas admit: a step that needs a
  session comes after one that finds it (`Rooted`), none that tests an argument
  comes after one that changes something (`Ordered`), and each step fits its tool
  (`Fits`). `NextMoves` is about the steps: each leaves a call alone, begins or
  ends it, or moves it along its script in one of six ways (`Moves`), and at most
  marks the caches of the others as dropped (`Steady`). `CallInv`, which needs
  both, says that what is left of a script is sound, that a call that has changed
  something has no test left, and that the failures so far are told so far
  (`Honest`).
* **`OrphansAreXRefs`, `NotesStay`** follow from `CallInv`: only the race of
  `getXRefs` leaves calls behind; and a call that holds a cache has found the
  session it writes to.
* **`ClosedUncached`** has no assumption: any number of callers open, close and
  use sessions. `SessionInv` adds to `CallInv` that a call has found only opened
  sessions and that `open_binary` and `close_binary` are at one of the suffixes of
  their scripts (`Rests`). `ClosedInv`: a closed session is about to have its
  cache dropped by a `close_binary`, or its cache is gone and neither a call nor a
  load that warms it is left that could make it again.

Only model-checked: the liveness properties (`CloseUnblocks`, `Reclaimed`), which
are outside the prover's reach. Every invariant that a passing run checks is a
theorem; `SessionsPersisted` under the assumption that saves succeed.
Nothing here rests on a recursive definition, on induction over data or on
`ENABLED`.

The types of `Lifecycle`, `Readiness` and `Worker` are theorems; the `TypeOK` of the
other modules hold on the instances of their runs, and the proofs carry the parts
of them that they need.

## 6. Where code and comments disagree

Four disagreements have a run with a counterexample:

* `readiness_watch`: `watch_auto_analysis` records a stage that the readiness
  gate does not know, so tools pass the gate while the binary loads
  (`session.go:763`, against `util.go:130-131`).
* `readiness_waiter`: `waitForReady` writes back the stage it read; when the
  load finishes in between, ready is overwritten and stays so
  (`util.go:183`, against `util.go:147-148`).
* `lifecycle_duplicate`: two concurrent opens of one path make two sessions
  (`session.go:151,172`, against "one per binary", `README.md:52`).
* `store_interrupted`: an exit inside a save leaves a file that makes every
  later `Load` fail (`store.go:84`, against `store.go:21`).

Others were met on the way. They can be reproduced with the modules by the
change of a constant, or by adding what is named, where they do not say
otherwise:

* A close inside its session's open removes the record before the open has written
  it (`session.go:194`); the record of the closed session stays, and the next start
  restores it, although `session.go:451-453` says that it must not.
  `lifecycle_concurrent` without a fault violates `NoRecordLeft`.
* A close inside its session's open leaks a worker: while `Start` waits for the
  worker, up to the launch time-out (`manager.go:56-89`, `launcher_direct.go:95`),
  `Stop` finds no client and reports success, the session is deleted, and `Start`
  then files a client that no session leads to. The open answers as if nothing had
  happened, and a later open of the path starts a second worker on the same
  database. The watchdog sees sessions only, so that the worker runs until the
  server exits. `WorkersOwned` and `CloseRemoves` without `unstopped` are violated
  in `lifecycle_concurrent`.
* `TierSettles` names the races of the tool tier. A close lists the sessions, an
  open makes one and promotes, and the close demotes (`session.go:462`): a binary is
  open and its tools are gone until the next open or analysis, although "Binary
  opened" is their trigger (`README.md:115`); `lifecycle_concurrent` without a fault
  violates `OpenUnlocksTools`. The others: an analysis call promotes to tier 2 after the last session was closed
  (`composite.go:189`, against `README.md:118`); an open that found the session of
  another one promotes although the other's worker has failed to start
  meanwhile and its session is gone (`session.go:163`); and the undo of a failed
  open, which never demotes (`session.go:178-192`), ends the last session after a
  close has counted it. In each the tools stay although no session is left.
* Two sessions of one path also come about without two opens at once: a record that
  a restart skipped at the limit, or whose removal failed, is restored by a later
  start beside a session opened since. When one of them is closed, the
  index entry of the path goes, whichever it named (`registry.go:189`), and a
  further open starts one more worker although the binary is open: what `shared`
  excuses in `SessionFound`.
* The cache of a closed session can be made again by the load that was running
  (`session.go:300`): `warmSessionCache` gets the client before the close stops
  the worker, and the cache after it was dropped (`cache.go:459-464`). Without
  `outlived` `CachesClosed` is violated. The cache is then never dropped, since the
  id does not come back.
* `readiness` violates `GateSound` without the excuses of
  `GateSoundUndisturbed`: `backgroundOpen` loses the guard to `run_auto_analysis` and records ready
  while that pass is running (`session.go:314`, against `util.go:130-131`); and
  a list tool called while its session is analysed, or after it has failed, puts
  its own stage over the recorded one (`read.go:65`).
* The watchdog decides on what it has read and then stops the worker
  (`session.go:121-132`): a call that takes its lease in between loses its
  worker, although `util.go:200-201` promises that a call in flight is spared.
* A session whose open failed is found by the next `open_binary` of its path and
  is returned as it is, still failed (`session.go:151-170`), although the
  message at `util.go:118` says to open the binary again.
* A whole temporary file left by an exit before the rename is not removed by
  `Delete` (`store.go:56`), nor is one left by a failing rename: with
  `Faults = {"exit"}` or `{"write"}`, `DeletedStaysDeleted` is violated.
* With `"remove"` in `Faults`, a closed session is restored by the next start,
  beside a new session of the same path.
* A text or an entry fetched before a write and stored after its invalidation
  stays in the cache (`composite.go:203-211`, `read.go:298-345`): without the
  `over` excuse `TextsFresh` and `XRefsFresh` are violated. The function list
  is safe, because its lock is held across the fetch.
* A write that the worker executed although its request failed or was given up
  is not followed by an invalidation (`write.go:99-101`): without the `skewed`
  excuse all three freshness properties are violated.
* A function is renamed, and the cached text of its caller keeps the old name
  (`composite.go:454`; the same in `write.go:118-120`). "Callers' decomp is still
  valid" (`composite.go:451-453`) is true of Hex-Rays and not of the cached text;
  `write.go:265-267` drops the callers for a prototype. `caches_fresh` without faults
  violates `CallersValid`.
* Without the old name no text is dropped (`write.go:121`), and under an old one,
  when another write changed it between the request for it and the write
  (`write.go:94-98`), the wrong texts are: both are `unsought`, without which
  `caches_fresh` violates `TextsFresh`.
* `analyze_function` accepts any address inside a function and caches the text
  under that address; `invalidateDecomp` is given the function's start. The
  module has start addresses only (not reproducible with it).
* `close_binary` is described as "Close session and save database"
  (`README.md:167`). Without `excused` or `late`, `NothingLost` is violated:
  behind a long job the save is given up after five seconds
  (`manager.go:121`); a request that waits behind the `CloseSession` opens the
  database again (`connect_server.py:346`).
* `save_database` does not look at the success flag of the reply
  (`session.go:524`) and reports a save that failed: `DoSave` answers "ok" in
  both cases.
* `get_cached_output` promises "use 0 for all remaining" (`params.go:334`,
  `output_cache.go:24`) and takes 0 for the default of 8000
  (`output_cache.go:285`). The client is not misled about where it is:
  `PagesReassemble` holds with limit 0.
* `query` of the globals panics on a negative offset (`types.go:33`) and has no
  upper limit for a page, although "max 10000" is documented
  (`params.go:140`); `offset + limit` overflows in `get_cached_output`
  (`output_cache.go:289`). Without its two excuses `PagesInBounds` is violated.
* Stored replies are cut by bytes (`output_cache.go:137,294`), though offsets and
  limits are called characters: a character of several bytes may be cut in two
  (not modelled).
* `cross_search.mode` is a closed set and is not among `toolEnums`, whose comment
  says that values outside the set do not reach a handler
  (`output_cache.go:201-206`): without its exception `SchemaGuards` is violated.
  `session_ids` is described as "omit to use all active sessions"
  (`params.go:294`), and the schema requires it (as `Required` says; an empty
  list has the effect); its limit is "max 1000" (`params.go:298`) and up to 10000 in
  the code.
* `set_analysis_note` "Persists server-side" (`server.go:324`), and a
  `run_auto_analysis` that succeeds drops the notes with the cache
  (`session.go:425`); a note written through a pointer obtained before goes to
  the dropped cache. `NotesKept` starts a new account there.
* `get_session_progress` says "ready exactly when analysis tools would be
  accepted" (`session.go:602-605`); it does not ask whether there is a worker.
* `server.go:225` counts 28 tools, "3 boot + 20 read + 5 write"; with `py_eval`
  there are 28, without it 27, as `ToolTiers` lists them.
* A flag of 0 counts as not given, although the flags are said to override the
  configuration (`main.go:26-29`) and 0 to mean "unlimited" (`main.go:174`); the
  environment can set a timeout of 0, which ends every idle session at once,
  while 0 in the file means the default (`server.go:144`, `ApplyEnvOverrides`).

## 7. Not modelled

* **The contents of the other cached lists** (strings, imports, exports,
  segments): no write tool drops them, so that there is nothing to compare them
  with; their loads and pages are in `ToolCalls` and `Paging`.
* **Workers on other systems**: a Windows job object that is attached after the
  start, and may fail to be, and macOS and BSD, where a crash of the server
  leaves its workers running (`launcher_reap_other.go` says so). In the modules
  the workers end with the server, as on Linux.
* **The end of `main`**: `Shutdown` lets `ListenAndServe` return at once
  (`main.go:137`), so that the process may end before its signal handler has
  stopped the workers. In `Lifecycle` that is an exit at any point; for the
  databases it is the end of a process by itself, which `NothingLost` excuses.
* **Formatting of replies**: text layout, without a decision.
* **Path guard and HTTP transport**: tests on strings, and the library's
  transport. For a handler a path is an argument that passes a check or does not.
* **IDA wrapper operations**: queries IDA's own library answers. What the server
  keeps of them is in `SessionCaches`, the open database in `Worker`.
* **Generated protocol code**: over half of the implementation's lines
  (`service.pb.go`, `service.connect.go`), generated from the `.proto` file.

## 8. Plan

Done: `Registry`, `Lifecycle`, `Readiness`, `InFlight`, `SessionStore`,
`SessionCaches`; then `WorkerPool` and `Worker`, the tool layer (`Paging`,
`OutputCache`, `ToolTiers`, `ToolHandlers`, `ToolSchemas`, `ToolCalls`) and
`Configuration`. Next are proofs:

1. The types of the remaining modules, `ToolCalls` first.
2. That the steps of sessions in `ToolCalls` are those of `Lifecycle`, so that the
   tier's theorem holds of the tools too.
