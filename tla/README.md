# A TLA+ model of browser-automation

This directory keeps a formal model of the Go service in this repository next
to its code: TLA+ modules translated from the source, TLC configurations that
check them on small instances, and proofs that TLAPS checks for every instance.

Paths below are relative to the repository root; line numbers are in
`PROJECT.json`, which maps every definition to the code it stands for.

## 1. The system

browser-automation is a gRPC service that launches Camoufox browsers and runs
scripted commands in them. A *session* is a browser with a profile, a status and
an expiry; a *task* is a list of commands for a session. Every RPC carries a
`request_id` that makes creation idempotent.

| Part | Source | State it keeps | Operations |
|---|---|---|---|
| gRPC adapter | `internal/adapters/grpc/server.go` | none | one method per RPC, errors turned into a response field |
| Automation service | `internal/app/automation_service.go` | none between calls | StartBrowserSession, GetBrowserSession (with expiry), StopBrowserSession, StartBrowserTask, ExecuteBrowserCommands, GetBrowserTask, ListBrowserTasks |
| Store | `internal/app/memory.go`, `internal/adapters/repository/postgres` | session and task rows, unique `request_id` | create, get, get by request id, update (whole row), list tasks by page |
| Camoufox runtime | `internal/adapters/runtime/camoufox/runtime.go` | a map from session id to server and worker process, under a mutex | StartSession, StopSession, ExecuteTask, EnqueueTask (does nothing) |
| Worker channel | the same file and `scripts/worker.py` | two pipes, a mutex, a one-shot exit report | executeTask, readLine, stop, stopCommand; the worker's loop over stdin |
| Worker commands | `scripts/worker.py` | the page, a log of network requests | one branch per command, retries around navigation |
| Start-up and shutdown | `cmd/browser-automation-service/main.go` | configuration, pool of connections, gRPC server | configuration, migrations, serve, graceful stop with a grace period |
| Launch options | `internal/adapters/runtime/camoufox/config.go`, `options.go` | none | limits and defaults; options of browser and page from a profile |
| Public contract | `proto/.../contracts`, `gen/go/.../contracts` | none | messages of commands and profiles, registered handlers |

How they interact: each RPC is a goroutine of its own and calls the store and
the runtime synchronously. The service holds no lock across an RPC; the store
serialises single statements, the runtime's mutex protects its map only, the
worker's mutex one write-and-read exchange. Browsers are process groups of
their own, which a dying service does not take along.

What is hard here, and what the properties are for:

* RPCs on one session interleave between any two accesses to the store and the
  runtime, and each writes back the whole row it read at its start;
* a request may be repeated while the first is in flight, after a failure or
  after a restart;
* a store write may fail with its effect unknown; a request's context may end
  in the middle, and the code that records failures runs under that context;
* the service may die with rows and processes left behind;
* answers of the worker come over one pipe without numbers; calls time out and
  leave their answers behind; the worker may hang, die or be stopped while a
  call waits;
* the process is told to stop, or loses its listener, with handlers at work that
  still need the database it closes;
* a command and a profile are read by hand-written code in two languages, over
  JSON that leaves fields out, and numbers are converted before they are checked.

`PROJECT.json` lists these hazards one by one, at the line where each bites,
with the properties that cover it.

## 2. The modules

| Module | Models | Extends / uses |
|---|---|---|
| `SessionStatus` | statuses and `SessionStatusIsFinal` | |
| `SessionService` | all RPCs on sessions, over a store and a runtime | `SessionStatus` |
| `RequestLedger` | what an operation with a `request_id` promises (abstract) | |
| `BrowserLifecycle` | what becomes of a browser, whoever keeps it (abstract) | |
| `SessionServiceRefinement` | the mappings of `SessionService` to `RequestLedger` and to `BrowserLifecycle` | all three |
| `SessionServiceProofs` | the inductive invariant and the theorems | the above, TLAPS |
| `TaskService` | the RPCs that create and run tasks, and their mapping to `RequestLedger` | `RequestLedger` |
| `CamoufoxRuntime` | the two processes of a session, and the map under its mutex, and their mapping to `BrowserLifecycle` | `BrowserLifecycle` |
| `CamoufoxRuntimeProofs` | its inductive invariant and theorems | `CamoufoxRuntime`, TLAPS |
| `WorkerChannel` | the exchange of lines with the worker process, and stopping it | |
| `WorkerChannelProofs` | its inductive invariant and theorems | `WorkerChannel`, TLAPS |
| `CommandLoop` | the worker's loop over a task's commands, its retries and gestures, and the record of its answer | `BrowserMessages` |
| `CommandLoopProofs` | its inductive invariant and theorems | `CommandLoop`, TLAPS |
| `BrowserMessages` | commands, profiles, results and errors as record sets, from the generated Go | |
| `CommandContract` | the checks of a command in the service and in the worker, the JSON in between, and what the worker reads | `BrowserMessages` |
| `LaunchOptions` | environment and profile to the options of a browser | `BrowserMessages` |
| `SessionContract` | the two together: what reaches a browser of what was configured and sent | `LaunchOptions`, `CommandContract` |
| `SessionContractProofs` | theorems about launches and about commands | `SessionContract`, TLAPS |
| `ServiceProcess` | the process around the task calls: start, serve, drain, stop, die | `TaskService` |
| `ServiceProcessProofs` | theorems about the task calls, then about the process around them | `ServiceProcess`, TLAPS |
| `NetworkLog` | the worker's log of page requests and the wait that polls it | |
| `PageWaits` | the search for the first visible element of a group of selectors, in a page that changes | `NetworkLog` |
| `PageWaitsProofs` | theorems about the log and about the search | `PageWaits`, TLAPS |
| `TaskPages` | ListBrowserTasks of both stores, walked by a client | |
| `TaskPagesProofs` | ranks and pages, and what a walk misses or repeats | `TaskPages`, TLAPS |
| `MCSessionService`, `MCTaskService`, `MCTaskPages`, `MCSessionContract` | symmetry sets and small inputs for TLC | the module they are named after |

How state and actions correspond to the code, module by module:

**SessionService.** A call is a goroutine; `pc` is the access to the store or
the runtime it makes next, so each action is one access with everything the
handler computes before the next one. `row` is the store, `entry` the key set of
`Runtime.sessions`, `alive` the processes. StartBrowserSession is `StartAgain`
(the request is known), or `StartLookup`, `Create`/`CreateFails`, `Launch`,
`Connect`, `RecordRunning`, with `StartFails` and `RecordFailed` on the error
path. StopBrowserSession is `StopBrowserSession`, `RecordStopping`, `TakeEntry`,
`Kill`, `RecordEnd`; an expiry (`GetLapsedSession`) is the same without
`RecordStopping`. Every store write may report an error with the write applied
or not (`UpdateFails`, the second disjunct of `Create`). `answered`, `launched`,
`overlapped` and `orphans` are history, read by properties only (`answered` also
says which session ids a client can know).

**TaskService.** The same for StartBrowserTask (`queue`) and
ExecuteBrowserCommands (`execute`), with cancelled contexts: under one the
repository's statement is not executed. The session is the environment: its row
and its map entry can go at any moment.

**CamoufoxRuntime.** One level below: `Launch` and `Connect` of SessionService
in the steps of `startServer`, `startWorker` and the registration under `r.mu`,
with two processes that may exit at any time, and stops that a process may
outlive (`survivors`).

**BrowserLifecycle.** The promise that joins the two levels: a browser is begun
once, registered or discarded by its start, and taken and ended by one call; the
browsers of a service that dies are lost. `SessionService` implements it with
one browser for each session, whose launch is `Begin` and `Register`;
`CamoufoxRuntime` with the pairs of processes of one session, whose launch is a
step for each process and each select. So what the service relies on in the
first is what the runtime delivers in the second.

**WorkerChannel.** One level below `ExecuteTask` and `Kill`: the two pipes as
sequences, `worker.mu` as `holder`, the one-shot `done` channel, the timeouts of
`readLine`, and the escalation of `stop` and `stopCommand`. A write waits for
`Room`; a request that is longer than the pipe (`Long`) is written as the worker
reads it, with nobody else's line in between (`Written`). Lines of stdout that
nobody has read may be lost when `cmd.Wait` closes the pipe (`Reap`). A line
longer than the scanner takes ends it (`WorkerAnswersTooLong`): reads find the
channel closed from then on, and the worker hangs in its write.

**ServiceProcess.** `main` is where `run` is, `server` what GracefulStop, Stop
and the handlers make of the gRPC server, `pool` the connections. The handlers
are the calls of `TaskService`, unchanged; the process adds when one may begin
(`NewCall`), that its context ends when the grace does (`GraceEnds`) or the pool
closes under it (`ClosePool`), and that it is gone with the process (`Exit`,
`Killed`). The database lives on, and the process may be started again.

**CommandLoop.** What happens between the read of a request line and the answer:
a result per command, the except branches as `fails`, and
`with_navigation_retry` as counters of attempts (`outer`, and `inner` for the
nested calls in `collect_page_state`); `read_state` makes one access for each of
title, text and html that the command asks for (`part`), and each access is
counted (`reads`). A hold, or a drag from or to a point, is two steps, with the
button `pressed` in between; a click, and a drag from element to element, is one
call of Playwright that may fail with the button down. `Record` is what
decodeWorkerResponse and the service make of the answer, with the second table
of error codes.

**BrowserMessages, CommandContract.** Data only: `BrowserCommand` is every
message with at most `MaxFields` fields set, each field abstracted to what
service and worker tell apart: absent, blank and named selectors, points at and
off the origin, the sign of numbers, names of enumerations. `validCommand` is
validateCommands, `toWire` protojson, `attempts` the checks of worker.py, `get`
the reading of one field, and `heard` what the branch that is taken uses of it:
nothing, when it never comes to the field or has no use for it (`passes_over`).

**LaunchOptions, SessionContract.** `loadConfig`, `newRuntime` and `startServer`
are the three places where a value is converted, checked or refused; a number of
the environment keeps the width of the variable it is put in (`Wrap`). A map
from names to proxies has the names trimmed, in an order that Go does not fix
(`Trimmed`).

**NetworkLog.** One action per event handler; `on_request_finished` has two
parts, since the call of `response()` in its middle lets other events in. Events
arrive only while the worker is inside Playwright (`Delivering`).

**PageWaits.** `element` is what each selector finds in each frame, and the page
changes it and its frames between any two questions of the worker (`is_visible`,
`count`). A scan lists the frames once (`targets`) and looks at its locators in
order (`First`); a locator in a frame that has gone fails and is passed over,
and so may be one whose document is replaced while it is asked about
(`Navigates`, `raises`). `least` is history: what was there all through the
scan.

**TaskPages.** Rows are known by status and `created_at`, keys and labels by the
`Input` a task is created with; a page is a range of ranks. `MemoryPage` and
`RepositoryPage` are the two implementations: each with its own filter
(`taskMatches`, `where`), its own order, by nanoseconds and by what a
timestamptz keeps of them (`Instant`), and its own way to cut the list. The walk
is one over either (`store`).

## 3. What is checked

| Run | Instance | Shows |
|---|---|---|
| `session_calls` | 3 calls, 2 sessions, 1 request, 1 fault, 1 crash | `BrowserOwned`; a settled row agrees with its browser (`FinalSessionReleased`, `RunningHasBrowser`); rows settle, a final status that no call is at work on stays, and the service implements `RequestLedger` and `BrowserLifecycle` |
| `task_safety` | 3 calls, 2 tasks, 2 requests, 1 fault, 1 crash | commands run at most once per request id, a reported SUCCEEDED is stored, a finished task stays, and RUNNING without a call means that a call was cut off |
| `process` | 2 calls, 2 tasks, 1 request, 3 starts, 1 fault, 1 kill | a server that has drained leaves no task RUNNING but those cut off before; on a signal the pool is closed under cancelled calls only; a process that is told to stop stops |
| `channel` | 3 tasks, one of them with a request longer than the pipe, a pipe of 2 lines | an answer given to the wrong call is always a late one, none is given twice, a stop that succeeds leaves no process, and everybody returns unless there is no room in the pipe for ever |
| `runtime` | 2 starts, 2 stops | no process without somebody who holds it; a start that succeeded is in the map; the runtime implements `BrowserLifecycle`; every start returns, and every stop gets as far as its stop line, though starts stop their processes with the map locked |
| `pages` | 3 tasks, times in and beyond one microsecond, 5 filters, 2 page sizes, either store | where no two times fall in one microsecond the stores give the same pages; with either store a walk misses or repeats a task only in exchange for one that left or came; it ends |
| `contract` | commands with up to 4 fields set; environments and profiles | what the service accepts, the worker does not refuse for its form, and uses as it was sent or leaves aside for something that was sent too, except as listed in section 6; limits are positive whatever the environment says; a browser with a proxy has that proxy or is not launched |
| `loop` | all tasks of up to 2 commands | nothing runs after a fatal failure, the task's error is that of its last result, success has a result per command, accesses to the page are bounded, the button is up unless a click, a hold or a drag failed on its way |
| `log` | 3 requests, 2 object addresses, a log of 2; 2 selectors in a page with a frame, 3 changes of it | entries are never mixed up, a finished one has its status, a wait that is given up has missed nothing that its log held by the deadline; of a group the first element that stayed visible is returned, and the search fails only if nothing stayed attached; both waits end |
| `session_finality`, `task_synchronous`, `channel_own_answer` | smallest | what the repository says and the code does not do (section 6) |

**Bounds.** Every bound is a constant or is named in a guard. One fault and one
crash suffice for each property to meet "after a failed write" and "after a
restart"; the code keeps no count of either, so a second one starts from a state
of the same kind. Three calls are needed for two stops to overlap a start, two
sessions for two starts of one request to race; that two requests are not
confused is checked for tasks (`task_safety`) and proved for sessions
(`SameSession`, `OneLaunch`). The proofs of section 4 remove the bounds from
every safety property. `process` has two calls, so that one can be at work
while another is repeated or begins, and three starts, so that a process can
find what two before it left. In `contract`, 6 bits for a duration with 8 units
to the second, and 3 bits for an int32, make small numbers wrap to a negative,
to zero and to a positive one; four fields are what the largest check in either
language looks at. Three tasks
in the channel let a late answer pass to a call and that call's answer to the
next; with a pipe of two lines it can be full and it can have room, and one
request longer than the pipe fills it by itself. Three
requests over two addresses let an address be used again while old
entries are in the log, and a log of two drops entries that are in use. The
search may begin with any page; three changes let an element come, hide and go
between the questions about it. Page
sizes of zero and beyond the limit give pages of one and of two tasks, and three
tasks give full, part full and empty pages. With three units of time and two to
the microsecond, tasks may have equal times, times that only the memory store
tells apart, and times that both do; the filters are none, a status that ends, a
key with a label, and bounds in the middle of a microsecond with a status and
with the value of a label. With `MaxCommands = 2` there
is a command after each failure that may go on and none after one that may not;
no property of the loop relates more than a command and those before it, and the
proofs hold for any number.

**Deadlock.** It is checked for the two services, whose clients can always make
another request. In the other runs every call is made once and then the system
rests, so their configurations say `CHECK_DEADLOCK FALSE`; the liveness
properties say that they do not rest too early.

**Fairness.** `SessionService`: weak fairness of each call's next step. A
goroutine is scheduled; a start waits for its processes under `StartupTimeout`,
and each statement has the statement timeout, which is taken to be positive, as
it is by default (`repository.go:341` sets none for zero or less). `Kill` is not
fair: a stop writes a line first, and that write has no timeout
(`runtime.go:315`), so `RowsSettle` excepts a row whose browser a call is still
stopping. Nothing is assumed of clients, and no failing write is assumed to
succeed. With liveness there is a session id for every request id, since the
code's ids never run out. `ServiceProcess`: `run` goes on by itself and its
timer fires; nothing is assumed of handlers, which a page may keep, nor of the
drain that waits for them. `WorkerChannel`: calls, stop and `cmd.Wait` are fair,
the worker is not; only a process sent SIGKILL exits, and a write waits for room
as long as it takes. `CamoufoxRuntime`: starts are fair, and so are stops but
for the write of their line; processes are not; `sync.Mutex` gives itself to a
waiter in the end. `NetworkLog` and `PageWaits`: the worker runs, the sleep ends
and the clock goes on; that Playwright answers `is_visible` and `count`, or
fails, is an assumption, since `count` has no timeout (`worker.py:947`) and a
page may be busy for ever. `TaskPages`: the client asks for the next page as
long as it is given a token.

Every property has a mutant, a plausible bug in the code it is about, kept next
to the definition it replaces and named in `PROJECT.json`; TLC finds each
property violated by its mutant.

## 4. What is proved

Every safety property that a passing run checks, the two refinements included,
is a theorem of its specification, for every value of the constants that
satisfies the named assumptions. These say that the bounds are naturals, that
integers have at least one bit and the defaults fit their width, that what
stands for nothing (`None`, the labels of the channel's lines) is not a call, a
session, a task, an error code or an element, that no call is both a start and a
stop, that a pipe has room for a line and a page for a task, that a microsecond
has units, that a finished task is neither queued nor running, and that a store
holds finitely many tasks.

Few of the properties are inductive alone. Each proof module begins with the
parts of its invariant; a lemma for each action (or for the actions that do the
same to the invariant) shows that the parts are kept, `InvNext` combines them,
and the theorems follow from `InvHolds`. What the invariants add, and why:

**Sessions** (`SessionServiceProofs`): `TypeCorrect`, `SameSession`,
`OneLaunch`, `Owned`, `OneKiller`, `FinalReleased`, `RunningHas`,
`QuietFinalStays`, `ServiceImplementsLedger`, `ServiceImplementsLifecycle`.
`SameSession` and `OneLaunch` are what a client would ask for of the ledger,
`OneKiller` what an operator would ask for of the lifecycle; no run repeats
them. The invariant adds

* `UniqueRequests`: no two rows carry one request id (the unique index);
* `CallOwns`: what a call knows of the row it works on, at each `pc`;
* `OneStart`: a session is started by one call, before anything is launched;
* `RowsTold`: an answer names a row that carries its request id;
* `Holding`: the map, the calls that start a browser and the calls that kill one
  exclude each other.

Rows are made only by `Create`, which picks an unused session id, so the call
that launches a session is the only one, and it is past `connect` before the
entry exists; `TakeEntry` removes the entry in the same step in which its call
becomes the killer. That a settled row agrees with its browser needs `Settled`
on top of it: nobody finalizes a session, or is about to, while its browser is
in the map or on its way there (`NotYetTaken`); what is about to be recorded as
RUNNING is in the map (`Registered`); and a RUNNING session is in the map or was
taken by a call that will write its row (`RunningHeld`). Sessions taken from the
map while their start was in flight are excepted (`overlapped`): for those the
properties are false. The refinements map each step to a step of the ledger, or
of the lifecycle, or to a stutter. That the ledger's own steps keep bindings one
to one, whoever takes them, is `LedgerIdempotent`; with the refinement it gives
`SessionsIdempotent` here and `TasksIdempotent` for tasks.

**Tasks and process** (`ServiceProcessProofs`): `ToldIsStored`,
`RunningExecutes`, `FinishedForever` and `TaskServiceImplementsLedger` of
`TaskService`, from `CallOwns`, `OneCall` (no two calls have one task) and
`RowsTold`: after `Create`, a row is written by the call that owns it alone,
which ends a RUNNING task once. `ServiceProcess` keeps this invariant, since
each of its steps is a step of the calls, ends their contexts, makes them vanish
or leaves them alone (`CallSteps`). `Phases` says which state the server is in
wherever `run` is, and `CallsLeft` that there is no call at a server that is off
or drained, and only cancelled ones at one that was stopped; `DrainedCompletes`,
`PoolOutlives` and `ProcessImplementsLedger` follow.

**Runtime** (`CamoufoxRuntimeProofs`): `NoStray` and `Registered`. The invariant
adds what a start has not launched or has stopped already (`Launched`), that the
pair in the map belongs to a start that returned and is held by no stop
(`Mapped`), what a stop holds (`Held`), and that the slower of two starts has
the map locked with the other's entry in it (`Locked`), without which
`Registered` would fail when the slower one returns success.
`RuntimeImplementsLifecycle` maps its steps to those of `BrowserLifecycle`, a
lemma for each kind of step: a start holds its pair from the launch of the
server to the registration or the end of the server, a worker ends before its
server does, and a process that ends by itself is an `Exit`, or nothing while
the other one runs. What the lifecycle's steps add up to is `LifecycleOneOwner`:
begun once, a browser never comes back to a hand it has left, so its start, the
map and a stop exclude each other (`Owners`); `PairsOneOwner` says so of the
runtime.

**Worker channel** (`WorkerChannelProofs`): `OneReader`, `ForeignIsLate`,
`StopLeavesNothing`. A call that writes or reads holds the mutex (`Locked`). A
task's line, its execution and its answer are in one place: in stdin, at the
worker, in stdout, or given to a call, and there once (`StdinOnce`,
`StdoutOnce`, `Apart`, `NoAnswerTwice`); and nowhere before its call has written
it (`LinesSent`). So an answer that a call reads is its own or that of a call
that held the mutex before and has returned (`Stale`).

**Command loop** (`CommandLoopProofs`): `FirstFatalEnds`, `SuccessComplete`,
`RetriesEnd`, `ButtonReleased`. The last result decides whether the loop goes on
(`LastDecides`), and what is recorded agrees with it through both tables of
error codes (`Recorded`, `TablesAgree`). The bound on retries needs what a page
state has cost at each point of its nested attempts (`PageStateCost`), the reads
of title, text and html included. Of the button it is enough to know that a
gesture holds it only while a hold is executed (`Button`).

**Log and waits** (`PageWaitsProofs`): `OwnEntries`, `StatusKnown`,
`GivenUpLast`, `FirstVisible`. For the log: requests under way have addresses of
their own (`Live`), a request has one entry at most and none newer has its
address (`Own`), so the newest entry under an address is that of the request
which has it now, if it is in the log at all (`FoundIsOwn`). That a finished
entry has its status rests on Playwright's order, the response before the end of
the request. `GivenUpLast` takes all of it: what the browser has reported of a
request by the deadline stands in the request's own entry, under its own
address, when the log is read for the last time. For the search: what was looked
at and passed was not visible throughout (`Passed`, `Decided`); that there is a
first element among those that stayed is the well-ordering of selectors and
frames (`FirstIsFirst`).

**Pages** (`TaskPagesProofs`): `SamePages`, `MissedForDepartures`,
`RepeatedForArrivals`. Dividing by the length of a microsecond keeps the order
of times that are in different ones, and so the filters take in the same tasks
and both stores sort them alike (`SameOrder`). Ranks number a list without gaps
(`OneTaskPerRank`, `EveryRank`), so a page has as many rows as there are ranks
for it (`RowsCount`), and the one row more that the repository asks for tells
what the memory store counts (`MoreRows`, `PageOfRanks`, `PagesAgree`). A walk
is one over either store, and only needs that its order is total (`TotalOrder`);
it is followed by two sets: what it has passed without listing (`Missing`) and
what it has listed and will list again (`Again`). A task that leaves moves the
others up by at most one rank and so adds one to `Missing` at most; one that
comes adds one to `Again` at most; and a page moves out of `Again` what
`repeats` counts.

**Contract** (`SessionContractProofs`): `LimitsPositive`, `ProxyKept`,
`AcceptedAttempted`, `HeardAsSent`, for any widths of the integers, any numbers
in the environment and any number of fields in a command. For the launch, a
conversion gives an integer whatever it wraps (`WrapIsInteger`, which needs that
2^n is not zero: `PowersPositive`), and `LaunchInv` says what each stage of the
start has checked. For the commands, `PayloadsTyped` says what the fields of
each of the 38 operations hold, a lemma for each kind of field what the worker
hears of it (`SelectorHeard`, `GroupHeard`, `PointHeard`, `TextHeard`,
`PathHeard`, `FieldHeard`), and `ValidAttempts` goes through the worker's checks
one by one and finds each implied by one of the service's. What the worker
passes over, the client has displaced, case by case (`PassedOverDisplaced`).

Model-checked only: the liveness properties, which are out of the prover's
reach, and the three runs that show a divergence. The other way round, the type
invariants are proved and no run repeats them, nor the consequences of a
refinement that a run checks.

## 5. What is not modelled

* `tail_buffer.go` (text of error messages), `scripts.go` (writes the embedded
  scripts to files), `server.py` (hands its options on), and the labels of
  `options.go` other than headless, which the same helpers copy.
* Addresses, paths and argument lists of the environment: strings that are
  copied. A migration is one step that may fail (`applyMigrations`).
* The session calls under `ServiceProcess`: `SessionService` has its own crash,
  and shutdown does nothing for sessions, whose rows and browsers stay.
* `EnqueueTask` does nothing in either runtime, so a QUEUED task stays QUEUED.
* The page: what Playwright does in a command. Also groups with
  `require_all`, the fallbacks of fill and select_option, and the files of
  screenshots.
* The worker's stdout pipe is not bounded: a worker that waits for a reader is
  one that makes no step, which the model allows.
* The internal admin contract has no implementation and is never registered;
  reflection, descriptors and client stubs of the generated code.

## 6. Where code and documents part

Shown by runs:

* **A final session comes back** (`session_finality`). Start, Stop and expiry
  write a row they read earlier, so `STOPPED` can be overwritten by `RUNNING`.
* **A cancelled execution leaves its task RUNNING** (`task_synchronous`). The
  failure is recorded under the context that was cancelled.
* **A task is given another's results** (`channel_own_answer`). After a timeout
  the late answer is read by the next call; `task_id` is not compared.

Met while modelling and excluded by name from the properties that pass:

* a write for which a hung worker's pipe has no room never times out
  (`runtime.go:243`, `315`), although `README.md:69` speaks of a default timeout
  for a task, and what follows waits for `worker.mu`: the first disjunct of
  `ExchangesReturn`, `BeingKilled` in `RowsSettle`;
* the stores differ on times within one microsecond (`memory.go:189`,
  `repository.go:189`): `Apart` in `StoresAgree`;
* a point at the origin is `{}` on the wire and refused as missing
  (`worker.py:1010`), a group of blank selectors hides a selector
  (`worker.py:781`), and `upload_file` is always refused (`worker.py:571`,
  although `README.md:20` lists file upload): the three disjuncts of
  `AcceptedIsAttempted`;
* `include_cookies` and `include_origins` have no effect: protojson never writes
  `false` and the worker's default is true (`worker.py:475`); `evaluate` and
  `blur` never look at their timeout (`worker.py:334`): the last disjuncts of
  `ReadAsSent`;
* fields that another field of the same command displaces, such as `full_page`
  beside a selector (`worker.py:555`), the timeout of a `press` without one
  (`worker.py:326`), or `click_count`, `force` and `delay` of a click that is held
  (`worker.py:274`): `Displaced` in `ReadAsSent`, which lists them all;
* a hold or a drag that fails on its way leaves the button pressed
  (`worker.py:669`, `1058`), and so may a click that Playwright does not finish:
  the second case of `ReleasedUnlessCut`;
* when Serve fails, the pool is closed while handlers run whose contexts are
  live (`main.go:140`): `server = "on"` in `PoolOutlivesCalls`.

Met and without a property here:

* `stop` reports "did not exit after kill" (`runtime.go:456`) of a process whose
  exit a `readLine` consumed (`runtime.go:305`), and the session is FAILED; of a
  process that does outlive SIGKILL it reports the same, and forgets it all the
  same (`orphans`, `survivors`, which the properties except); an expiry
  does not look at the report;
* numbers wrap before they are checked, so a large negative duration may be
  accepted as a short positive one; `ShutdownGrace` and the timeouts of the
  database are not checked at all, and zero or less is no grace (`main.go:136`);
* three grammars for a boolean: `strconv.ParseBool` for labels in Go,
  `bool_label` ("yes", "on") in the worker (`worker.py:644`), and `envBool`;
  the label `camoufox.humanize` at "1" is `true`, not one second;
* `device_scale_factor` is dropped without a viewport that has both sizes;
* a path keeps its other points when those at the origin are dropped
  (`worker.py:353`), with longer waits between them;
* an explicit timeout of `0s` is unlimited in Playwright, and select_option gives
  each of its attempts the whole timeout;
* a line of more than 16 MiB, a page's html, costs the session its channel
  (`runtime.go:425`);
* the attached element that a search falls back on may be one of an earlier scan
  and gone by now (`worker.py:947`, `955`); the command after it fails then;
* select_option tries labels and indexes only when every attempt with the values
  failed (`worker.py:712`);
* select_option of several values succeeds with one of them when the attempt
  with all of them failed (`worker.py:716`);
* `require_response` is satisfied by a request that failed without a response
  (`worker.py:1207`);
* sessions expire only when asked for, and nothing ever runs a QUEUED task.

## 7. What comes next

In this order:

1. put `executeTask` on the lifecycle: show that a task is sent to a browser
only while its session is in the map, and what it meets when a stop takes it; 2.
put `WorkerChannel` under an abstract exchange of requests and answers, with the
late answers of section 6 as its one exception; 3. model the groups with
`require_all` and the fallbacks of fill and select_option, which the search of
`PageWaits` leaves out.
