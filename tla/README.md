# Verification of Juice: controller, agent and juicify

Juice lends the GPUs of machines that run an *agent* to clients on other
machines. A *controller* keeps the agents and the requested sessions in a
database, places each session on an agent, and a client, *juicify*, then runs an
application that connects to that agent directly. This directory models what is
decided by ordering, concurrency and failure in those programs, checks it with
TLC, and proves the main results with TLAPS for every number of agents,
sessions and goroutines.

## 1. The system

| Component | Source | State | Operations | Hard because of |
|---|---|---|---|---|
| Backend | `cmd/controller/backend` | none of its own, the lists of one pass | one pass a second: mark agents missing, remove them, list queued sessions, list agents for each, match, assign | it works on lists it read earlier; an error of a pass ends the process |
| Storage (gorm) | `cmd/controller/storage/gorm` | `agents`, `sessions`, `connections`, pools, permissions | one statement or transaction for each call | what is locked and what is not; `Updates(struct)` skips zero values |
| Frontend | `cmd/controller/frontend` | the queue of webhook messages, a channel and a slice | HTTP endpoints of clients and agents, two goroutines that deliver the messages | several replicas at once; handlers of several statements; a condition variable and a shutdown |
| Pools and permissions | gorm driver, `frontend/endpoints.go` | `pools`, `permissions` | create a pool, give and take permissions, two listings | five statements without a transaction; soft deletes and no unique key |
| Storage (memdb) | `cmd/controller/storage/memdb` | the tables in memory, a writer lock | the same calls | what a transaction that aborts or panics leaves behind; rows that share a slice |
| Storage (postgres) | `cmd/controller/storage/postgres` | the same tables | the same calls | iterators that page over rows that change |
| Controller metrics | `cmd/controller/prometheus`, `AggregateData` of the drivers | gauges with labels | update once a second, scrape | series of labels that are gone; percentiles of a few samples |
| Agent | `cmd/agent/app` | the map of sessions, their connections, two channels of 32 updates | update loop once a second, HTTP handlers, a goroutine for each session and two for each renderer | the loop fills and empties the same channels; locks held over blocking calls; shutdown |
| GPU set | `pkg/gpu` | the available VRAM of each GPU | Find, Select, Release | map order; unsigned arithmetic; no mutex |
| Task manager | `pkg/task`, `pkg/appmain` | a context, a wait group, a channel of errors | Go, Cancel, Wait | closing the channel tasks report on |
| juicify | `cmd/juicify` | the session it waits for, the channel of its queue timeout | request, poll, time out, run, check, cancel | the time-out racing the answer; giving the session back on every path |
| HTTP client | `pkg/restapi` | none | one call: https, then http | an answer in pieces; a call that is served and fails |
| rgpu | `rgpu/` | a broker and a render daemon in Python, Direct3D proxies in C++ | a separate prototype | a wire protocol of its own |

How they interact: clients and agents call a frontend over HTTP, frontends and
the backend share only the database, an agent learns of its sessions by reading
its own row once a second and answers with an update, and a client connects to
the agent's HTTP server, which hands the socket to a renderer process.

What makes each correct:

- backend and storage: a session runs on at most one agent and is started there
  once; a placement honours the request; VRAM is not promised twice; a cancel is
  neither lost nor undone; agents are removed only when silent; a session that
  can be placed is placed; the backend survives what others do. In short, what
  `SessionLife` says;
- memdb: VRAM is conserved and the two views of a session agree, whatever
  aborts; the writer lock is given back;
- frontend: a POST is tried for every report, in order, though one that fails is not
  repeated; whoever is told that
  his pool exists can use it; the two listings of permissions agree on who
  may do what;
- metrics: what a scrape sees is of one snapshot; a percentile is the nearest rank;
- agent: GPUs are given back only when nothing runs on them; nothing is reported
  of a session after it was reported closed; its loop goes on; cancelled
  sessions and the process itself end;
- juicify: it does not wait for ever, notices the end of its session, ends
  when told to, and leaves no session behind;
- GPU set: the outcome does not depend on map order, nothing is charged that is
  not there; task manager: no goroutine and no error is lost.

The list of hazards, each at its line, is in `PROJECT.json`.

## 2. The modules

| Module | Models | Uses |
|---|---|---|
| `SessionLife` | abstract: what the system promises about sessions | |
| `GpuMatching`, `GpuMatchingProofs` | what `Find` selects, as constant operators; `TotalVram`; what its loops compute for every input; sums over finite sets | |
| `GpuFind` | `GpuSet.Find` an iteration at a time, in every map order | `GpuMatching` |
| `Percentiles` | `calculatePercentiles` of memdb and of postgres, an iteration at a time | |
| `AlgorithmProofs` | theorems about `GpuFind` and `Percentiles` | `GpuMatchingProofs` |
| `GormStorage` | the tables of the gorm driver and its calls | `GpuMatching` |
| `Controller` | backend, frontends and agents over the tables | `GormStorage`, implements `SessionLife` |
| `ControllerProofs` | theorems about `Controller` | `Controller`, `GpuMatchingProofs`, TLAPS |
| `MemdbStorage` | the memdb driver with the backend and the agents that use it | implements `SessionLife` |
| `MemdbProofs` | theorems about `MemdbStorage` and `Exporter` | `Exporter`, `GpuMatchingProofs` |
| `Exporter` | the Prometheus exporter over the memdb driver | `MemdbStorage` |
| `Catalog` | pools, permissions and the endpoints that change and list them | |
| `TaskManager`, `TaskManagerProofs` | `pkg/task` and theorems about it | |
| `RestApi` | what one call of the HTTP client can come to | |
| `Juicify`, `JuicifyProofs` | juicify, its goroutines and its session | `TaskManager`, `RestApi` |
| `Webhook` | the delivery of the frontend's messages | `TaskManager` |
| `FrontendProofs` | theorems about `Webhook` and `Catalog` | `TaskManagerProofs` |
| `Agent`, `AgentProofs` | one agent process in detail | |
| `MCController`, `MCGpuFind`, `MCAgent`, `MCMemdb`, `MCFrontend` | instances for TLC | |

**Composition.** `Controller` composes tables, backend, frontends and the agents as
the controller sees them; `Agent` is one of those in detail. `Juicify` and `Webhook`
conjoin their steps with the actions of `TaskManager`: starting a goroutine is
`TaskStarts`, returning `TaskSucceeds` or `TaskFails`, an interrupt `Cancel`, the end
of the process `Wait`. `Exporter` extends `MemdbStorage` with the gauges.

**The abstract specification.** `SessionLife` has two variables: how far a session
is (unknown, waiting, placed, running, over, or dropped before it was placed) and
the agent it was placed on. `Controller` implements it with `life` read off the row
and off what the agents have made of the session, `home` the agent of the row;
`MemdbStorage` with a mapping of its own. So the two drivers, which
share no line, keep the same promise.

**Tables.** `aState`, `vramAvailable`, `updatedAt`, `deleted` are columns of
`agents`, `sState`, `sAgent`, `sGpus` of `sessions`. Identifiers are fresh UUIDs,
so a row is created once and a process that registers again is another agent.
`vramAvailable` is a `uint64` (`% Word`). `Updated` is the rule of gorm's
`Updates(struct)`: a zero is not written. A query with `Limit(20)` and no order
answers with any subset of that size (`Answers`, `QueryLimit`).

**The backend** stops at every storage call (`bpc`), because between two of them
the frontends go on. `pending` and `cands` are the rest of the two iterators,
which the driver has read completely, `berr` is `err # nil` with the assignments
to `err` of `Backend.update` in the order they have there: a later agent that is
merely incompatible clears it. `BackendPassDone` is the return of `update`; with
an error `Run` returns, the task group is cancelled and the process exits, after
which the deployment starts it again (`BackendRestart`). Every storage call
of the pass may fail, with or without its effect (an error at the commit leaves that
open): in one of the first three calls `update` returns the error (`BackendGivesUp`);
in `CancelSession`, in the query for agents and in `AssignSession` the error is kept in
`err` and the pass goes on (`BackendPassesOver`, `BackendFailsToAssign`), so that a
later agent may clear it. `BackendCrash` is a kill, or the cancelled context, for which
`update` returns no error. `failed` is history: a call of this pass has failed.

**The agent as the controller sees it** (`Controller`). `phase` is the place of
its loop, `run` what has become of each session in the process, `outbox` what its
channels would report. The `UpdateAgent` transaction is split at the rows it
reads, since it reads them without locks; it writes what it read.

The database is taken to be PostgreSQL at READ COMMITTED, the default of the
driver: writes show at the commit, and an `UPDATE` waits for the writer before
it. Therefore all writes of a transaction are one step, at its commit. `UpdateAgent`
writes the session rows first and its agent's row last, and holds the row locks
from each write to the commit; no other transaction reads one of these rows
before and another after it under locks in the opposite order, except
`AssignSession`, which locks the agent first. That pair can deadlock in the
database, which then aborts one of them: for `UpdateAgent` this is
`UpdateAborts`; for `AssignSession` it is an error that stays in `err`, which is
`BackendFailsToAssign`.

**The agent in detail** (`Agent`). `loop` follows the "Controller Update"
goroutine: tick and `GetAgent`, one step for each listed session (register:
insert and start its goroutine; announce: send on `sessionUpdates`; cancel), the
drain of both channels, `UpdateAgent`. `closer` follows `Session.Run`: wait for a
context, set `closed`, wait for the session's task group, release the GPUs and
leave `agent.sessions`, report. `handler` follows `Session.Connect`, which keeps
the lock of `closed` (`lock`) from its test to the end of `Connection.Connect`
(a handler that finds the session closed leaves nothing behind, so that is no
step); `renderer` the two goroutines of a connection. A renderer may have ended
before `HandlerLists` enters it in the map. A send on a full channel blocks (`Room`); the
loop that waits for room which only it can make, or for a lock whose holder does, is
`LoopJammed`, and a goroutine that waits for a loop that is jammed or gone is `HeldUp`. The rows of the sessions are
reduced to `row`: the controller assigns each once and may cancel at any time.

**Task manager.** `Go` is called by the owner before `Wait`, or by a task that
runs. All callers keep to this but one: the update loop of the agent may call
`agent.taskManager.Go` (`agent.go:180`) when `Wait` has returned. `Agent` has
that as `loop = "panicked"`: what the other goroutines do until the panic has
ended the process is still modelled.

**juicify.** `at` is the place of `app.Run` (`requestSession`, `waitForSession`, the
application, the deferred `cancelSession`), `timer` and `checker` the Queue Timeout
and Check session goroutines, `channel` the one `waitForSession` makes and closes
when it returns. A send on it when it is closed is a panic and ends the process
(`crashed`). The channel and the timer are made before the loop sees that the session
has ended already. `server` is whom the calls go to: the controller, until the session is
returned with the address of its agent. `row` is what that server says of the
session; it moves as `Controller` lets it, including by other clients. A call has
one of the outcomes of `RestApi`: served or not, answered or not. They are not
independent: the body of an answer is read once, so a call can be served and
fail, and a call can not succeed unserved. The body is a number of
bytes of which the first read brings some.

**Webhook.** `copier` and `caller` are the places of the two goroutines. A goroutine
holds the mutex in `testing` and `gap`; `gap` is between the test of the context and
`Wait`. `sync.Cond.Signal` wakes whoever is `asleep`. `Calling` returns from the inner
loop without unlocking (`left`). A POST that fails is not repeated, so `posted` counts
the ones that were tried. Handlers outlive the server's `Shutdown`, which is given a
context that is already done.

**Pools and permissions.** `createPoolEp` creates the row, takes the user from the
claims, which can panic, and adds three permissions one at a time; each can fail,
and a restart can come between any two. `permissions` counts the rows for each pool,
user and type, those deleted softly apart. `AddPermission` has no unique key, and the
listing of a pool repeats a permission for each row while the one of a user does not; a
name it does not know is stored all the same and fails a listing later.

**memdb.** One writer at a time, so each transaction is one action. Every version
of an agent's row shares its slice of sessions: `mirror` is that slice, and
`UpdateAgent` writes it before it knows that the transaction commits. A panic in a
transaction is recovered by the HTTP server and keeps the writer lock (`writer =
"stuck"`); one in the backend ends the process. `Require` panics for every id that is
not in its table: one that was deleted, one that a client made up, or one of an agent that
registered before the controller was started again and its tables were empty.
`strangers` (ids that were named so), `wipers` (agents that closed without sessions, which
deletes every session) and `aborted` are history.

**Exporter.** A gauge vector is a function from labels to values. `update` resets
three of them and sets all; a label that is no longer in the snapshot stays in those it
does not reset. The percentiles by GPU name are among them: the series of a model that has left is exported for ever. Their values are
in `Percentiles`: five loops share `keysIndex` and `index`, and the drivers differ in
the key they start with. The code rounds the rank down (finding 4).

## 3. The runs

| Run | Instance | What it shows |
|---|---|---|
| `races` | 2 tainted agents, 2 sessions with pools, labels and 2 GPUs, the backend killed once | `StartedOnce`, `VramWithinTotal`: no session is started twice, on one agent or on two, and the VRAM column neither wraps nor exceeds the total though `UpdateAgent` writes back an unlocked read. `PlacementHonoursRequest`. `CancelledBeforePlacementIsFinal`: a cancel before placement holds unless the pass had the session in its list already. `CancelAfterActiveSticks`: the only report that overwrites a cancel is the first |
| `silence` | 1 agent with 2 GPUs, 1 session, clock to 4, delays 2 and 1, 1 fault | `RemovedOnlyAfterBothDelays`; `CancelIsAnswered`; `ImplementsSessionLife` |
| `restarts` | 1 agent with GPUs of 2 and 1; 3 sessions: one for both GPUs, one for a single GPU of 3, which the agent is offered for and cannot hold, one without GPUs; 2 faults | `StopsForACause`: only a failed storage call or a request of one of the two bad kinds ends `Run`; `NoStarvation`: the request that cannot be held stops the process in pass after pass in which it comes last, the good one is placed all the same |
| `vram` (violation) | 2 requests for a whole GPU | both are placed on it (finding 1) |
| `find_first` (violation) | the inputs of `Find` of `memdb` | one requirement takes two GPUs (finding 3) |
| `nearest_rank` (violation) | the samples of `memdb` | the tenth percentile of one GPU is zero (finding 4) |
| `task_manager` | 3 tasks | `NeverPanics`, `NothingLost`, `FailureEndsGroup` |
| `agent` | 1 session, 2 clients, channels of 1 | `GpusReleasedLast`: a client that connects while the session closes is waited for or refused; `NothingAfterClosed`; `RegisteredOnce`: a round reports what it started; `CanceledSessionEnds`, `CancelIsAnswered`, `StoppingEnds`, `LoopComesRound`: each but for a send to a channel that is full and that nobody will empty, which it names |
| `juicify` | with a queue timeout | `LeavesNothingBehind`, `WaitingEnds`, `StopEnds`, `EndIsNoticed` |
| `juicify_timeout` (violation) | with a queue timeout | it ends a juicify that has its GPU (finding 2) |
| `memdb` | 2 agents with 3 and 1 of VRAM and different GPUs, 2 sessions that need 2 and 1. From initial states of their own: up to 3 GPUs and 2 requirements, VRAM required 0 to 2, available 0 or 2; samples of up to 12 GPUs with 0, 1 or 3 GB free | `VramConserved`: unlike the gorm driver it gives VRAM back, once; `MirrorAgrees` but for aborted updates; `StuckOverMissingRows`: the lock is left behind only over an id that is not in its table, and a session goes missing under its agent only when an agent without sessions closes; `ImplementsSessionLife`; `SeriesAddUp` for the exporter. `OrderDoesNotMatter`: the outcome of `Find` and what is charged to each GPU are the same in every order of the map, and those of the operators the other modules use; `ChargesOnlyWhatIsThere`; `ExactWhereRanksAreWhole`: in both drivers, whatever the loops share |
| `frontend` | 1 agent, 2 sessions of 2 reports, a channel of 1; or 1 pool, 2 users, 1 request at a time, 4 rows | `NothingLostOrReordered`, `ReportsArePosted`: no wake-up is lost; `StopEnds` but for two moments, which it names; `CreatorHoldsAll` for the creators who were answered, `ListingsAgree` up to repetition |

**Bounds.** The races need one placement and one cancel or report in its way, so
two sessions suffice; a second agent matters for matching and for
`StartedOnce`. `MaxTime` bounds the clock, `MaxFaults` the kills and the failed storage
calls of the backend, `FaultKinds` says which of the two occur (in `races`, the
largest run, only kills; in `silence` and `restarts` both), `Word` (16) the
width of the VRAM column, with agents of 3 or 4 so that a wrap would show.
`MissingAfter` and `RemoveAfter` are in ticks and differ in `silence` so that neither
can stand for the other; `races` and `restarts` have no clock (`MaxTime` 0). Two faults
in `restarts` are one more than it takes to lose a pass, and the request that cannot be
held stops the process as often as it comes last: stops of that kind are not bounded.
In `Agent` a connection's renderer is started once (`StartedOnceOnly`). `QueueDepth` is 32
in the code and 1 here, so that senders block and the channels do fill: one
session with two clients has four updates to send. The loop really can block on its own
channel then, and a stopping agent, whose loop no longer empties the channels, can hang;
with 32 places it takes more sessions, not another order. These are two of the
hazards, and the only exceptions of the liveness properties of `agent`.
`Depth` is the channel of the webhook, 32 in the code and 1 here so that handlers
block; `MaxReports` bounds the reports of a session, two being enough for one to
overtake another. `MaxRows` bounds the permissions of `Catalog`: four is the
three of the creator and one that is repeated or another user's. Twelve
samples are enough for each percentile to have a rank of zero and of one, and for
90 to differ from 75 and 100. `Agent`, `TaskManager`, `Juicify` and `Webhook` define
their type invariants; no run spends a property on them, and all four are
proved.

In `memdb` and `frontend` parts that share no state stand side by side, and one moves
while the other is where it started: every order of their steps has the same effect on
each, so nothing is lost by that, and their states are not multiplied.

**Deadlock** is checked in the controller. A task group that has been waited for, an agent or a juicify that
has stopped, a controller whose `Wait` has returned, and a memdb whose writer
lock is stuck (or whose process is gone) have nothing left to do, so those
configurations turn the check off.

**Fairness.** `Controller`: the backend's loop (a pod that exits is restarted),
each agent's loop, and the end of a session whose context is cancelled, because
`exec.CommandContext` kills its renderers. Neither the clock, clients, crashes
nor failing calls are fair. `Agent`: every goroutine goes on when it can; a
renderer answers on its pipe or is gone; those who wait for the lock of `closed`
get it even if others keep coming, which Go's `sync.Mutex` ensures after a
millisecond (strong fairness of `LoopCancels`, `SessionSetsClosed`).
`CancelIsAnswered` of `Agent` is what justifies the fairness of
`CanceledSessionCloses` in `Controller`. `TaskManager`: tasks return once their
context is done, and the owner calls `Wait`. `Find`: the loop is sequential and needs none.
`Juicify`: goroutines are scheduled, tickers tick, calls return; a `select`
chooses at random among the cases that are ready, so one that is offered again
and again is taken (strong fairness of `SelectTimeout`, `SelectContext` and
`CheckerReturns`). Nothing is assumed of the application, of signals or of the
row, which is why `StopEnds` excepts a running application. `Webhook`: the
goroutines are scheduled and the receiver of a post answers or its connection
fails; nothing is assumed of the agents or of the stop.

## 4. Findings

1. `AssignSession` writes the agent with `tx.Updates` on a struct
   (`gorm.go:421`). When the assignment uses up the VRAM the new value is zero,
   gorm leaves it out, and the agent is offered again. The backend's test
   (`backend_test.go:232`, over memdb and postgres) asserts that "maximum vram
   is not adhered to" never happens; the deployed driver is gorm.
2. The Queue Timeout goroutine of juicify goes on when the session became active.
   When it fires it sends on the channel that `waitForSession` closed
   (`juicify.go:83`); the panic ends juicify under the application and its session is
   not given back. The flag is the "Maximum number of seconds to wait for a GPU"
   (`juicify.go:37`).
3. The comment of `Find` (`gpu.go:137`) says that it "will choose the first GPU that
   matches". Its inner loop (`gpu.go:150`) has no `break`: it takes all that match,
   each charged with the VRAM of the one requirement.
4. The percentiles are documented as "Nearest-Rank Method" (`storage.go:33`), which
   rounds the rank up. The code rounds it down (`memdb.go:180`): a percentile can be one
   key too low, and with few GPUs the tenth is the start key, in memdb a zero that no
   GPU need have. `ExactWhereRanksAreWhole` is what is left of the method.

A controller that is stopped can hang in two moments, the exceptions of `StopEnds` of
`Webhook`, without which TLC finds it violated; no document says that it cannot.

## 5. The proofs

What is proved holds for every value of the constants that satisfies the
assumptions declared with them: any sets of agents, sessions, clients and pools, any
requests, delays, query limit, channel depths and bounds. The assumptions are named
in the modules that declare the constants, and every run evaluates them: `NoAgent`
and `NoSession` are no rows, delays are naturals, the VRAM registered and requested
fits its column, a GPU has a natural amount of it and an address
(`GpuAssumption`), task groups are finite sets, what `Find` is given are lists of
requirements and natural amounts (`FindAssumption`), the counts of
`calculatePercentiles` are naturals of finitely many naturals, and of at least one,
as both drivers test before they call it (`PercentilesAssumption`).

### The controller (`ControllerProofs`)

- `TypeCorrect`;
- `StartedOnceHolds`. `StartedOnce` is not inductive. `PassInv`: what the backend
  still has to place has no agent, so an assignment never moves a session that
  has one. `RowInv`: rows that are offered, assigned or run exist. `RunInv`: when
  an agent has started a session that is still listed as assigned, the report
  that moves it on is in its outbox or in its transaction.
- `VramWithinTotalHolds`. `VramInv`: an agent in the list has the VRAM the session
  needs (nobody but the backend takes VRAM), and what an `UpdateAgent`
  transaction will write lies between the current value and the total. For the
  refund not to break that, `ReportInv` is needed: when the row of a session is
  closed its agent reports nothing more of it, so the refund is never given to
  an agent that is not removed.
- `RemovedOnlyAfterBothDelaysHolds`, from `AgeInv`: a missing row's `updated_at`
  is at least the first delay after the last contact.
- `ImplementsSessionLifeHolds`, the refinement. `HeldInv` adds that the sessions and
  agents a pass holds are rows that exist, the agents not removed, since only the
  backend removes any. `StepMoves` shows of every action
  and every session that the session stays where it is in `SessionLife` or makes one of
  its moves; a session with an agent is moved only by what that agent runs
  (`PlacedMoves`), one without only by its row and the pass (`UnplacedMoves`);
- `CancelledBeforePlacementIsFinalHolds`, from the same lemma: a dropped session has
  no move;
- `CancelAfterActiveSticksHolds`, from `StickInv`: the report that makes a session
  active is made once, so none is left when it has been stored;
- `StopsForACauseHolds`. A step of the backend, failing or not, is one of a few moves
  (`BackendMoves`, which all proofs of this module use). `EmptyInv` says that a request without GPUs is never placed or reported,
  so that once the pass has closed it, it stays closed, and the request of a pass that
  has failed stays outside `pending`;
- `PlacementHonoursRequestHolds`. `PlacedInv`: the agent of a session is one the
  backend's tests let through, and its GPUs are those `Find` chose among all GPUs of the
  agent. What that choice is worth is the next theorem.

### The loops of `Find` (`GpuMatchingProofs`)

`FindLoopIsFirstMatch`: for any GPUs and any number of requirements the nested loops
give each GPU to the first requirement it satisfies, and the GPUs that satisfy none to
nobody. The loops are a function defined by recursion over the requirements. That
the defining equation has a solution, and only one, is shown by induction, which
is stated over a set of naturals instead of a predicate (`SetInduction`), a form
the provers can instantiate.

### The two algorithms (`AlgorithmProofs`)

- `OrderDoesNotMatterHolds` and `ChargesOnlyWhatIsThereHolds`, for the loops an
  iteration at a time in any order of the map. `FirstMatchInv` is what survives a
  change of the order: a GPU that is selected serves no earlier requirement, and one
  that is still available serves none of those before the current one. At the end that is
  the outcome of `FindLoopIsFirstMatch`, so the operator `Controller` uses is
  what the code computes, whatever the order.
- `ExactWhereRanksAreWholeHolds`. The five loops share their counters, so `LoopInv` has to
  say that they are those of one loop: `index` is the number of GPUs that the keys
  passed so far stand for, and the last key was needed for the rank of the current
  loop. That holds when the next loop starts because the ranks ascend
  (`RanksAscend`). The keys are any ascending list of the domain; that there is one and
  that it leaves no key out is proved (`SortedExists`, `SortedKeysFacts`). The model takes
  `total * p` to be rounded down exactly; the float64 product of the code gives
  the same for every total below 2^53.

### The memdb driver (`MemdbProofs`)

- `MemdbTypeCorrect`, `VramConservedHolds`, `MirrorAgreesHolds`,
  `StuckOverMissingRowsHolds`. The three properties need each other: `MemdbInv` is their
  conjunction with `ListedOnce` (a session is listed by one agent, once, and by the one in
  its row), `PlacingInv` (what the backend has listed has no agent, and the
  agent it chose still has the VRAM, which only the backend takes) and `RunInv` (an agent
  runs what was placed on it, and a session that is over has left its row, so
  it is given back once). `UpdateAgent` builds the new list of sessions in a loop:
  `RemainingHolds` says what it contains, in which order and that nothing is there
  twice. The VRAM is a sum over a set, `VramOf`; that it is what the terms add up to,
  however the set is taken apart, is `SumOverRemove` and `SumOverParts` of
  `GpuMatchingProofs`, from the uniqueness of such sums (`SumUnique`): of the subsets on
  which two sums differ there would be a smallest one.
- `ImplementsSessionLifeHolds`: the second driver implements the same abstract
  specification. A session moves in `SessionLife` when its row or what its agent has
  made of it does; aborted and panicking transactions are stutters.
- `ExporterOnlyReads`: the exporter takes only steps of memdb, so these theorems hold
  of the system the run `memdb` checks, gauges included.
- `SeriesAddUpHolds`: counting by label loses nothing and counts nothing twice
  (`CountAddsUp`), for a finite snapshot. That the snapshot is finite is no assumption on
  the agents there may be: those that have registered are finitely many (`KnownStep`),
  and each row lists finitely many sessions.

### The agent (`AgentProofs`)

- `TypeCorrect`;
- `GpusReleasedLastHolds`, from `LockInv`: a handler in `Connect` has the lock of a
  session that is not closed, and a session is closed before it waits, so that none of its
  goroutines can be started when it has waited;
- `RegisteredOnceHolds`, from `RoundInv`: a session that is started and that the
  controller still has as assigned is announced in the same round: it is being sent,
  in the channel, or in the report. So the next `GetAgent` does not list it as assigned;
- `NothingAfterClosedHolds`, from `ClosedInv`: the closed report is the last thing of a
  session's goroutine, which has waited for its connections, and the loop stops
  copying only when both channels are empty, so that none of their updates stays
  behind.

### Task groups, juicify, the webhook

`TaskManagerProofs` proves `TypeCorrect`, `NeverPanicsHolds` and `NothingLostHolds` for any
finite set of tasks: the wait group counts exactly the tasks between `Go` and
`Done`, so it never goes below zero, and when it is zero nobody is left to report.

`JuicifyProofs` and `FrontendProofs` prove that the two programs are users of
`TaskManager` that keep its rules (`ImplementsTaskManager`): every step of theirs is
one of the group or leaves it alone. So they inherit `NeverPanics` and
`NothingLost`: the webhook for any number of agents and sessions, any depth of
the channel and any number of reports. Neither is a property of a run of theirs:
the proof makes that unnecessary. Besides that:

- `JuicifyTypeCorrect` and `LeavesNothingBehindHolds`, from `OwedInv`: a session is owed
  from the moment its id is known until `app.Run` returns; the address of a server
  was learnt from a row that has been active, and no such row becomes live again
  once it has been cancelled;
- `WebhookTypeCorrect` and `NothingLostOrReorderedHolds`. What is on its way of a session is
  looked at in every place of the pipeline: the channel, the copier's hand, the slice
  and the message being posted. `HandInv` says when a goroutine holds a message, and
  `PostedInv` that nothing is posted before it is sent; each step takes a message
  from the front of one place and appends it to the next.

### Pools and permissions (`FrontendProofs`)

- `CreatorHoldsAllHolds`, from `AddedInv`: a request has added what its place in
  `createPoolEp` says, and its user holds that unless it was taken away. That nothing else
  takes a permission away is a fact about every other endpoint;
- `ListingsAgreeHolds`, up to how often a permission is repeated, from `RowsInv`: a permission is on a pool whose row is there, because
  pools are deleted softly. Without it the join of the raw query would leave out rows that the
  other listing has.

### Only model-checked

No safety property: each one that a run checks is proved. All liveness (`NoStarvation`,
`CancelIsAnswered`, `CanceledSessionEnds`, `LoopComesRound`, `StoppingEnds`,
`FailureEndsGroup`, `WaitingEnds`, `StopEnds`, `EndIsNoticed`, `ReportsArePosted`), which
this prover cannot do: it has no rules for fairness and ENABLED.

## 6. Not modelled, and the plan

Not modelled: logging, TLS, routing, authentication, message formats, the
metrics of the agent, the charts, the Direct3D proxies; and

- the `connections` table and the reads that only show something (`GetAgents`,
  `GetSessionById` of the gorm driver, `GetPool`): nothing is decided on them;
- the sums of VRAM, utilization and power in `AggregateData`, which are divided by
  all GPUs, those that report nothing included; and that `AggregateData` of memdb
  reads the slices that `UpdateAgent` writes in place, a data race;
- `Select` and `Release` of `GpuSet`, which add and subtract without a mutex from
  several goroutines: no document says what the numbers are after concurrent calls;
- the HTTP server: its `Shutdown` does not wait for handlers, which is what `Agent`
  and `Webhook` take from it;
- `former.go`, the status of a Node in the format of an earlier version;
- the postgres driver but for its percentiles: `main.go` does not open it, and its
  statements are mostly those of the gorm driver. What differs are its iterators, which page
  with `OFFSET` over rows the same pass changes and can skip one; that is the open
  point;
- the rgpu broker, which the Go programs do not use.

Theorems planned: none of the properties is left but liveness. What could still be stated
and proved is more about the parts that runs do not reach yet, the postgres driver first.
