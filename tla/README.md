# Reception alert service: models, checks and proofs

TLA+ modules that model the reception alert service of this repository
(`src/reception-alert-package/`), the TLC configurations that check them, and
theorems that TLAPS checks about every module that has a behaviour (the queue, the
dispatcher, the HTTP exchange, the service, the main thread and the lamp) and about
the configuration.

The program runs on a small board at a reception desk. Pressing a button stores
an alert in an SQLite table; a worker thread takes alerts from the table and
sends each to several destinations (Slack, LINE, Discord, ...), retries what
failed, and blinks a lamp. systemd restarts the program whenever it ends.

Paths below are relative to `src/reception-alert-package/`; `README.md` there is
called the package README, `src/README.md` the root README.

## 1. Inventory

| Component | State it keeps | Operations | Modelled by |
|---|---|---|---|
| Persistent queue, `persistent_queue.py` | the table of alerts: status, attempts, due time, targets left | enqueue, claim_next_ready, mark_processed_destination, current_targets, complete_success, requeue, recovery in the constructor, close | `PersistentQueue`, `AlertOutbox` |
| Dispatcher and its pool, `dispatcher.py` | pool threads and their queue, futures, detached futures, clean-up flags, owned transport | dispatch (sequential or parallel), cutoff, callbacks of detached requests, close, clean-up monitor | `Dispatcher`, `FanOut` |
| Alert service, `alert_service.py` | stop event, fatal error, accept lock and cooldown, worker thread | handle_button_press, worker loop, finalize, signal handler, run, shutdown | `AlertService` |
| Send LED, `send_led_controller.py` | lamp, generation, threads and timer of the current mode | start/stop activity, success hold, failure blink, shutdown | `SendLedController` |
| Results and events, `models.py` | none | outcome of a request | `DispatchResults` |
| Destination adapters, `destinations/` | none | preflight check, send, classification of answers and exceptions, `Retry-After` | `HttpExchange` |
| HTTP transport, `transport.py` | closed flag, sessions per thread | request, limited reading of the body, close | `HttpExchange`; `Dispatcher` (the flag) |
| Command line, `app.py` | exit code | list buttons, validate, validate with GPIO, test message, serve | `MainThread`; `PersistentQueue`, `AlertService` (the effect of a check on a running service) |
| Main thread, `alert_service.py` | shutdown deadline, fatal error, objects held | constructor, `_cleanup_startup_failure`, run, signal handler, shutdown | `MainThread` |
| Configuration, `config.py` | none | parse and validate one file, look up a button | `Configuration` |
| Deployment, `reception-alert.service`, `setup.sh` | none | restart | `AlertService` (Restart) |
| Message constants | none | none | not modelled |

How they interact:

- GPIO callback threads call `handle_button_press`, which takes the accept lock
  and enqueues. The worker, the threads of late requests and main share the
  queue's connection under its lock.
- The worker calls `dispatch`. Every result reaches the table through
  `result_handler` (`_persist_destination_progress`), in the worker's thread or,
  for a request that outlived the cutoff, in the thread that served it.
- A signal, a fatal error or the end of the worker sets the stop event; main
  then joins the worker, closes buttons, dispatcher and queue. If requests are
  detached, closing the queue is left to the clean-up of the dispatcher.
- A second process that validates the installation opens the same database file
  and runs the recovery of the constructor on it.
- The worker tells the lamp what to show; each mode has a thread or a timer.
- A thread of the dispatcher calls an adapter, which calls the transport; the
  transport keeps a session per thread and is closed by the dispatcher or by its
  clean-up monitor.
- A signal handler runs on the main thread, on top of what it is doing, and takes
  the same locks; a worker that crashes and a press that cannot be stored set the
  fatal error from their own threads and take two of them as well.

Where it is hard:

- *Concurrency*: a dispatch has a caller, pool threads, callbacks, a closer and a
  monitor; presses race with shutdown; blinking threads outlive their mode.
- *Failure*: a crash between two statements, a statement that fails in the middle
  of a dispatch, a destination that never answers.
- *Ordering*: results recorded after the dispatch was given up, a queue closed
  before the last of them, a clock that is stepped.
- *Time-outs*: delivery deadline, grace period, join of the worker, clean-up; the
  time-out of a request, which limits a single wait only.
- *Reentrancy*: a handler that needs a lock the code below it holds.
- *Numbers*: a configuration file and a header may say "nan" or "inf".

What makes each component correct:

- *Queue*: no row is left in a status nobody looks at; the backlog is bounded; a
  destination leaves a row by its own answer and never comes back.
- *Dispatcher*: each destination is reported at most once and truthfully, nobody
  is sent a request after the cutoff, a late result never meets a closed
  database, the transport is not closed under a request, and dispatch ends.
- *Service*: every accepted alert is settled in the end, nobody is dropped
  untried or asked again after a committed answer, shutdown is orderly.
- *Exchange*: "not attempted" is true, a request ends however slowly the server
  sends, `Retry-After` is honoured within its maximum, no session stays open.
- *Main thread*: what was opened is closed wherever construction fails, nothing is
  taken from a live worker, the exit code tells what happened, shutdown ends.
- *Configuration*: what is accepted is what the other components assume.
- *Lamp*: it shows the newest mode, is dark when nothing is shown and is never
  touched after it was closed.

`PROJECT.json` lists under "hazards" the lines where these could go wrong, each
with the properties that would notice.

## 2. Modules

| Module | Extends / uses | Role |
|---|---|---|
| `DispatchResults` | | outcomes of one destination of one dispatch |
| `PersistentQueue`, `AlertOutbox` | refines `AlertOutbox` | the table, and what it promises |
| `Dispatcher`, `FanOut` | refines `FanOut` | the dispatch, and what it promises |
| `HttpExchange`, `Floats` | refines `FanOut` | what a request of `Dispatcher` stands for |
| `AlertService` | `PersistentQueue`, `FanOut` | presses, worker, restarts on top of both contracts |
| `MainThread`, `Configuration` | `Floats` | from the configuration file to the exit code |
| `SendLedController` | | the lamp |
| `PersistentQueueProofs`, `DispatcherProofs`, `HttpExchangeProofs`, `AlertServiceProofs`, `ConfigurationProofs`, `MainThreadProofs`, `SendLedProofs` | the module named, TLAPS | its inductive invariant and its theorems |
| `MC...` | | instances for TLC |

### PersistentQueue, AlertOutbox

`PersistentQueue` has one operator per method of the class (`Enqueue`,
`ClaimNextReady`, `MarkProcessedDestination`, `CurrentTargets`,
`CompleteSuccess`, `Requeue`, `RecoverProcessingRows`), each one transaction
under the connection's lock. `rows` is the table, keyed by `record_id`;
`nextId` is the autoincrement. The text of the alert, the last error and the
creation time are left out. `next_attempt_at` is a time of a wall clock that may
be stepped either way, between 0 and `Horizon`.

Its own `Next` drives the operators as the worker does (`Press`, `Claim`, `Mark`,
`ReadTargets`, then `Complete` or `PutBack`), with `held`, `finalizing` and
`targetsRead` for what the worker remembers. `Close` is the end of the process at
any point, including a crash; `Reopen` is the next constructor;
`OtherProcessOpens` is the recovery run by a validation beside the service.

`AlertOutbox` is what the queue promises, without table, worker, clock or
process: an alert owes its text to a set of destinations; one at a time leaves
the set; none comes back. `ImplementsOutbox` is the refinement, with
`owed[r] = rows[r].targets`.

### Dispatcher, FanOut

`Dispatcher` follows `dispatcher.py` step by step. `pc` is where the caller is
inside `dispatch` (`loop`, `collect`, `sweep`, `prune`, `classify`, `drain`,
`detach`, ...); the `for` loops over futures visit `batch` in any order, since
they iterate over sets. `task` is where the pool thread of a destination is, from
`queued` to the callback `_on_done` (`calling`, `recording`, `leaving`,
`finalizing`). A task is indexed by dispatch and destination, because a thread of
one dispatch may still run when the next begins. `closer` and `monitor` are the
thread inside `close` and the thread of `_monitor_detached_cleanup`. Times are
replaced by the question whether they have passed.

The sequential way of `dispatch`, for one destination or one pool thread, is
`pc = "sequential"` with the same task actions in the caller's own thread.

A request is one step here: it begins at the last check before it leaves (the
adapter's preflight check) and ends with an arbitrary outcome. What happens
between is `HttpExchange`.

`FanOut` is the contract: a dispatch over a set of destinations in which each is
waiting, asked, reported or late. Its actions say when a request may be sent,
when a result may be reported, when dispatch may return, be abandoned or fail,
and what the clean-up waits for. `ImplementsFanOut` maps the detailed module to
it.

### HttpExchange, Floats

One thread per destination through `_dispatch_single_destination`, the send of an
adapter (the six differ in URL, headers, payload and success codes only, hence
`SuccessCodes`) and `HttpTransport.request`. `pc[t]` goes from `check` (the head of
the retry loop) over `preflight`, `resolve` (the time-out), `opening` and
`registering` (the session) to `ready`, `headers`, `body` and `decide`, and from
there to `pausing` or `returned`. `collected` is the result taken over by the
dispatching thread.

Time is counted in ticks. `timer[t]` is the time left of a blocking call, and no
tick passes it by; between two blocking calls a thread may be held up for any
time, so the deadline can pass between the preflight check and the request. Within
a request every single wait has the full time-out: for a part of the headers
(`HeadersTrickle`, at most `HeaderWaits` of them) and for a part of a chunk
(`BytesTrickle`). `elapsed`, `quiet` and `sent` are history variables: the time a
request has taken, the time a destination asked to be left alone for, and whether
the current call of send has sent anything.

A session is made and then noted in a list (`OpenSession`, `RegisterSession`):
`CloseTransport` may come between, and closes what is noted. A session that is
used or noted after that is `stray`.

`Floats` is Python's `min`, `max` and `<` on numbers and "not a number". Values of
`Retry-After` and of the configuration are of that kind.

### AlertService

Composes both contracts: it extends `PersistentQueue` (the table's operators) and
`FanOut` (the dispatch as promised, checked of `Dispatcher`), and adds the press
threads, the worker's loop, main, crashes and restarts. A press has three steps:
the tests before the lock, the lock with its second tests, and the enqueue. The
worker's `_finalize_record` has two, because reading the targets and writing the
row back are two transactions. `JoinReturns`, `CloseDispatcher`,
`ShutdownCloses` and `CleanUpDetached` are the steps of `shutdown` between which
detached requests may report. `cooling` may be true after a start, because
`_last_accepted_monotonic` begins at 0.0 and the clock it is compared with is the
system's uptime.

### MainThread, Configuration

`Configuration` is a pure module: `Verdict(file)` says whether `load_config`
accepts a file, refuses it with a `ConfigError` or fails with another exception;
`Resolve`, `ButtonByName`, `BackOff` and `WaitBefore` are what the rest of the
program computes from an accepted one. The filters of the code, which keep the order
of a list, are `ItemsAt`: the list of the items at given positions, each found by its
rank among them, so that no recursion is needed. `RoutingIsSound` and
`NumbersAreSound` say what a file must give the other components.

`MainThread` takes a file through the five modes of `app.main`: the construction
in its order (`Construct`), which may fail at each object, the clean-up
(`CleanUpOrder`, `Release`, `ReleaseFails`), `run`, `shutdown` and the exit code.
`held` is what is open. The main thread is a stack of `frames`: the program's own
and one for each signal handler on top of it. A frame has a list of critical
sections before it (the stop event, the event of new work, the shutdown deadline),
which it enters and leaves in two steps. None of the three locks is reentrant:
`threading.Event` and `_shutdown_deadline_lock` use plain locks.

Two more threads have such a frame. The worker runs, ends after a stop, or crashes
(`WorkerCrashes`), and then goes through the sections of `_set_fatal_error`
(`ErrorSections`: the fatal error, the stop event, the event of new work). The thread
of a button press (`press`, `pressFrame`) makes the first tests of
`handle_button_press`, looks again under `_accept_lock`, and then ignores the press,
stores it, which sets the event of new work, or cannot store it (`PressFails`: a locked
database, a full disk, a queue that is closed), which sets the fatal error while the
worker is alive. One press at a time is enough: a second one waits for `_accept_lock`
or is turned away, and both leave everything as it is. Buttons that are closed start no
press, but closing one does not wait for a press under way. Both threads are daemons
and end with the program.

### SendLedController

One action per call of the worker and per step of a blinking thread between two
points at which it may be overtaken. `shown` is a history variable: what the
worker last asked for and was not ended since.

### DispatchResults

The outcomes of a request as far as the program tells them apart: `success`,
`retryable`, `permanent`, `skipped` (not attempted because the dispatch was cut
off), `refused` (not attempted for another reason), and which of them keep the
destination in the row.

## 3. Runs

| Run | Instance | What it shows |
|---|---|---|
| `queue` | 3 alerts, 2 destinations, capacity 1, retry delay 1 to 2, clock 0 to 2 | the inductive invariant, its parts and the refinement of the outbox |
| `dispatch_faults` | 3 destinations, 2 pool threads, 2 attempts, one dispatch, failing handler, monitor with time-out | the fan-out contract, the transport |
| `dispatch_twice` | 2 destinations, 2 dispatches, a handler that does not fail | a dispatch does not reach into the next one; late answers are recorded |
| `dispatch_ends` | 2 destinations, fair | dispatch ends, parallel or sequential; the clean-up happens |
| `exchange` | 1 destination, delays 0, 1, 4, maximum 3, time-out 3, delivery 6, body limit 2, chunks of 2, with and without a deadline | requests are bounded, "not attempted" is true, `Retry-After` is honoured, sessions are released, the fan-out contract, every send ends |
| `service` | 2 alerts, 2 destinations, 2 press threads, 1 mishap, configuration changes at restarts | the service uses the queue as `PersistentQueue` says; nobody is asked without being owed, nothing is dropped untried, the queue stays open for late reports |
| `alerts_settled` | 2 alerts, 1 destination, 3 mishaps, fair | every alert is settled |
| `send_led` | 7 generations, fair | the lamp |
| `process` | 912 configuration files, 2 signals, one press at a time, fair | what is accepted is sound; release, exit code, grace period and end of shutdown |
| `success_is_reported`, `refused_leave_the_queue`, `shutdown_ends` | small | the findings of section 6, each a counterexample |

The properties of the passing runs (the comment before each definition states it
in full):

| Property | Run | Against what |
|---|---|---|
| `NoStrandedRow`, `BacklogBounded`, `SnapshotIsCurrent`, `IndInv` | `queue` | a row left "processing"; the capacity exceeded; a claim made stale between two transactions |
| `ImplementsOutbox` | `queue` | a confirmed target asked again, an alert that vanishes |
| `ImplementsFanOut` | `dispatch_faults`, `dispatch_twice`, `exchange` | a destination answered twice or not at all, a late answer in the next dispatch |
| `LateAnswersAreRecorded` | `dispatch_twice` | the answer of a request that outlived its dispatch dropped by stop or close, or recorded twice |
| `TransportOutlivesRequests` | `dispatch_faults` | the transport closed under a running request |
| `DispatchEnds`, `CleanUpHappens` | `dispatch_ends` | a dispatch or a clean-up that never finishes |
| `RequestIsBounded`, `SkippedSentNothing`, `RetryAfterHonoured`, `SessionsAreReleased`, `EverySendEnds` | `exchange` | a request beyond its deadline, "not attempted" after a request, an early retry, a session kept, a send that hangs |
| `RequestsAreOwed`, `NothingDroppedUntried`, `FollowsQueueContract` | `service` | a destination asked without being owed, a target removed without a send that got past its preflight check, the queue used out of order |
| `StoreOutlivesReporters` | `service` | a late report that meets a closed queue |
| `AllAlertsSettled` | `alerts_settled` | an accepted alert that is never settled |
| `DarkWhenQuiet`, `SuccessIsSteady`, `ClosedForGood`, `DoesNotStayLit` | `send_led` | a stale thread that lights, blinks or darkens the lamp of a later generation |
| `AcceptedIsSound` (`RoutingIsSound` and `NumbersAreSound` of `Configuration`) | `process` | an accepted file with which a press reaches nobody, or somebody twice, or a delay is no number |
| `ReleasedUnlessAborted`, `WorkerKeepsItsObjects`, `ExitCodeIsHonest` | `process` | objects kept open after the end, objects closed under the worker, exit code 0 after a failure |
| `GraceFromTheSignal`, `ShutdownEndsUnlessBlocked` | `process` | a grace period counted from the wrong moment, a shutdown that hangs |
| `OneSignalNeverBlocks` | `process` | an ordinary stop, by one signal to a service without a fatal error, that blocks on itself |

`TypeOK`, `ServiceTypeOK`, `LedTypeOK`, `ExchangeTypeOK` and `MainTypeOK` are the
type invariants. The three violations are `SuccessIsReported`,
`RefusedLeaveTheQueue` and `ShutdownEnds`.

Why the bounds suffice:

- *Queue.* Two destinations let one answer and one remain; three alerts with a
  capacity of one let one be processed, one wait and one be refused or wait
  behind a requeued one, which is where capacity + 1 is reached. Clock values
  0 to 2 give due, not yet due and delayed by the maximum. The safety results are
  proved for all values anyway.
- *Dispatcher.* With three destinations and two threads one task is queued while
  two run, so all three cases of the cutoff (not started, running, done) occur in
  one dispatch. Two attempts are the least with a retry. One dispatch with a
  failing handler and two without cover what one call leaves to the next.
- *Exchange.* Threads share only the stop event, the clock and the closing of the
  transport, so one thread shows what a thread can do; the safety properties and
  the contract are proved for any number of them. Three attempts give a pause
  shorter than, and one longer than, the maximum of 3; the header is absent, in
  the past, within the maximum, beyond it, or not a number. A delivery of 6 ends
  within a first or a second request, and within a pause. A body limit of 2 with
  chunks of 2 lets a body be short, end exactly at the limit, and exceed it.
- *Service.* A mishap is a crash, a signal, a passed deadline, a second request
  in one dispatch, a retryable answer, a failing statement or a press that an open
  queue cannot store. `MaxMishaps` bounds
  all of them together; three allow for example a deadline, a signal and a crash
  in one behaviour. Restarts, recoveries by the second process and presses are not
  counted. `AttemptCap` stops counting attempts at its value.
- *Main thread.* The files vary one number at a time over -1, 0, 2, infinity and
  not a number, the two that are compared with each other together, the alive LED on
  a pin of its own, on another one's or on none, lists of up to two delays, and all lists of up to two destinations with up to two buttons, also
  with equal names and pins, and a file with two buttons that both work. Two signals are the least with which one handler can
  interrupt another.
- *Lamp.* An alert takes three generations at most (activity, its end, success or
  failure), shutdown one: seven are two alerts and the shutdown.

Symmetry (destinations, presses) is used in runs without liveness properties
only. Deadlock is checked for the queue and the service. It is not checked for
the dispatcher, the exchange, the lamp and the process, which stop when their
bounded number of calls is used up, everything is closed or the program has ended.

Every property of a passing run has a mutant: an operator in the module that
changes one definition of the code as a plausible bug would, and with which TLC
finds the property violated. They are marked `Mutant` and used by nothing else.

## 4. Fairness

- `Dispatcher` (`FairSpec`): the caller, the closer, the monitor and the callbacks
  run, and the deadline passes. There is no fairness for the pool's tasks: a
  destination may never answer, and a queued task may never get a thread. The
  caller's waits have time-outs in the code (0.05 s and the grace period), which
  is why its steps do not depend on the tasks. In the sequential way the task runs
  in the caller's own thread and does step: that a send ends there is
  `EverySendEnds` of `HttpExchange`.
- `HttpExchange` (`FairExchangeSpec`): the threads run and time passes. There is no
  fairness for the server and the network: neither an answer nor a byte need ever
  come, and both may come as late as the time-out lets them. `TimesOut` and the
  end of a pause are steps of the thread.
- `AlertService` (`FairServiceSpec`): the worker, each destination's request and
  report, main and the end of the process proceed, the clock advances, and
  systemd restarts the program (`Restart=always`). Requests end because the
  transport has time-outs. Nobody need press a button or send a signal. The
  clock of `AlertService` does not go back, and in `alerts_settled` the
  configuration stays: with a changed one `AllAlertsSettled` fails for the reason
  shown by `refused_leave_the_queue`. A deadline or a crash that came every time
  would starve an alert; `MaxMishaps` makes them finitely many.
- `MainThread` (`FairMainSpec`): the main thread takes steps, and a worker that
  crashes and a press that has been stored or has failed get through their short
  sections (`WorkerSection`, `PressSection`). The worker need not crash, nor end
  after a stop (it may be inside a request): the join has a time-out. A press need
  not get on outside its sections (it may wait for the database), and neither
  presses nor signals need come.
- `SendLedController` (`FairLedSpec`): threads and timers run, and the worker
  finishes `start_activity_blink` once inside. What it calls next is open.

## 5. Proofs

### The queue

`PersistentQueueProofs` proves, for every set of destinations, capacity, retry
setting, number of alerts, attempt cap and horizon (the named assumptions of
`PersistentQueue`):

- `SpecTypeOK`, `SpecNoStrandedRow`, `SpecBacklogBounded`, `SpecSnapshotIsCurrent`
- `SpecIndInv`: the inductive invariant they follow from
- `SpecImplementsOutbox`: the queue implements `AlertOutbox`
- `RetriesBackOff`: the delay before a retry is at least 0 and at most `RetryMax`, does
  not shrink as attempts go on, begins with the base, and is 0 only if the
  configuration says so

The argument. `NoStrandedRow` alone is not inductive: `Claim` adds a row to those
in processing, so one must know that there is none before, and that `held` is not
set. `IndInv` therefore adds that at most one row is in processing
(`OneProcessing`), that the worker remembers a record only while the queue is
open, that it is one already issued (`WorkerConsistent`), and that rows are as the
statements leave them (`RowsWellFormed`: nothing beyond the counter, a row that is
gone is empty, a live row has a target). `BacklogBounded` rests on
`OneProcessing`: a press is accepted only if the queued rows are fewer than the
capacity, so with the one in processing there are at most `Capacity + 1`
(`RoomLeft`, over finite cardinalities). Requeue and recovery do not change how
many rows are live (`BacklogKept`). `SnapshotIsCurrent` holds because no mark
follows the reading of the targets, and the second process changes no targets.
Each action has its lemma; actions that change one held row share `HeldRowStep`,
the two recoveries share `RecoveryStep`.

For the refinement each step is a step of the outbox or a stutter: `Press` is
`Accept`, a `Mark` that takes a destination off is `Discharge`, and all others
leave every row's targets alone. `Complete` deletes only a row that owes
nobody, which needs `SnapshotIsCurrent`, and `PutBack` writes the row's own
targets, which needs it as well.

`RetriesBackOff` rests on the powers of two up to the sixteenth, which are written out
(`PowersOfTwo`), and on the monotony of a product. It also shows that the range
`0 .. RetryMax` in which `PutBack` chooses the next due time cuts no delay off.

`ServiceFollowsQueue` (below) carries these results over to the whole service.

### The exchange

`HttpExchangeProofs` proves from `ExchangeAssumption` alone, that is for every set
of destinations and success codes, list of delays, maximum, time-out, delivery
time and limit, and for every set of headers:

- `ExchangeTypes`, `RequestsAreBounded`, `SkippedMeansUnsent`, `SessionsReleased`:
  the four invariants of the run `exchange`
- `RetriesWait`: the action property `RetryAfterHonoured`
- `ThreadsImplementFanOut`: the threads implement `FanOut`

The inductive invariant is `ExchangeInv`. None of the four is inductive alone:

- A request is bounded because each wait is charged to a part of the headers or to
  a byte: `WaitsCounted` says that `elapsed + timer` is at most `timeout` times the
  waits so far. A chunk that fits is longer than what was waited for before, so
  `total + got` grows with every wait, and the limits bound it. This is the only
  place with products, hence the lemmas `ProductMonotone`, `LongerBound` and
  `OneWaitMore`.
- "Skipped" comes from three places, of which the head of the loop can be reached
  after an attempt: `AttemptsLeft` says that the result kept there is then a
  retryable one, `UnsentYet` that otherwise nothing was sent.
- Sessions: `SessionsOwned` says that a session is `made` only while its thread is
  about to note it, and that after an orderly close every thread has ended.
- A pause is not shorter than what the destination asked for, or it ends with the
  deadline, after which nothing is sent (`QuietKept`). That the pause is a number in
  range for every value of the header, "nan" included, is the lemma `PauseType`.

The refinement needs `AnswersFollow` in addition: the threads start together, a
result other than "skipped" belongs to a destination that was tried, and a skipped
one was cut off, which nothing undoes. A call of send from its passed preflight
check to its end is one request of the contract (`PreflightPassesFan`, `EndsFan`),
taking a result over is the report (`CollectFan`), the stop event or the deadline
is the cut (`CutFan`), everything else stutters (`StaysFan`).

### The dispatcher

`DispatcherProofs` proves, for every set of destinations and of enabled ones, number
of pool threads, attempts and calls, with and without a failing handler and a
monitor that times out (the named assumptions of `Dispatcher`):

- `DispatchInvariant`: the inductive invariant `DispatchInv`
- `DispatcherTypes`, `TransportIsClosedLast`: the invariants of the run `dispatch_faults`
- `LateAnswersArrive`: the action property `LateAnswersAreRecorded`
- `DispatcherImplementsFanOut`: the dispatcher implements `FanOut`

`TransportOutlivesRequests` alone says nothing of who may still begin a request.
`close` joins the pool unless a dispatch was abandoned, so `ClosingInTurn` says that
the end of the clean-up leaves no attached task, or that a dispatch was abandoned;
`DetachedAreLast` says that the requests of an abandoned dispatch are its detached
ones, for which the clean-up waits; and `UnderWayIsUnreported` that a task which was
left behind, launched but reported as skipped, is cut off and sends nothing.

That late answers arrive needs `LeavingIsRecorded` in addition: a callback at its last
step has its own result, once, on record. `DetachedAreLast` says that nobody reported
it before, `CallerReportsOnce` that the caller, which may still be detaching others,
does not report it again.

The refinement rests on `CallerKnowsWhoIsLeft`: a destination that is not reported is
in `pending` or in `batch`, or the dispatch is cut off. So the caller hands at most
one result of a destination to `result_handler`, and returns only when nobody is
left. The exception in it, a future that is done when the cutoff sweeps and is then
in neither set, is the gap that finding 1 is about; the contract allows it because it
asks for at most one report. `ResultsAreEarned` gives that a reported outcome
other than "skipped" belongs to a request that was made. Steps are sorted by what
they do to the contract: the caller reports (`CallerReportsOnce`), a callback reports
late, a task asks or answers, the deadline or the stop event cuts, the dispatcher
begins, returns, is abandoned or fails, the clean-up ends; all others stutter.

### The service

`AlertServiceProofs` proves, from the assumptions of `PersistentQueue` and
`ServiceAssumption`, so for every number of alerts, destinations, press threads and
mishaps, with and without configuration changes:

- `ServiceInvariant`: the inductive invariant `ServiceInv`
- `ServiceTypes`, `OnlyOwedAreAsked`, `StoreKeptForReporters`: the invariants of the
  run `service`
- `NobodyDropped`: the action property `NothingDroppedUntried`: a destination leaves a
  row only after a call of its send for that alert has got past its preflight check.
  That is not the same as a request: an exception of send that is no network error
  (`dispatcher.py:462-472`) is a permanent failure and settles the destination, also
  when nothing was sent
- `ServiceFollowsQueue`: the service implements the specification of `PersistentQueue`
- `ServiceKeepsQueuePromises`: hence `NoStrandedRow`, `BacklogBounded` and
  `ImplementsOutbox` hold in it

The invariant contains `IndInv` of the queue and says in addition how three threads
agree: a dispatch runs inside the worker, a record is held from its claim to its end,
and nothing is closed while the worker lives (`ThreadsAgree`); a dispatch asks only
whom its row still owes, and whom it has tried is in `attempted`
(`DispatchOfTheRecord`); a process that is down has no thread and no dispatch
(`DownMeansBlank`). `RequestsAreOwed` is not inductive because a late report may take
a destination off while others are asked; it is kept because who is reported leaves
`waiting` in the same step, and `asked` is within `waiting`. `StoreOutlivesReporters`
needs that `late` is empty unless the dispatch is running or abandoned.

`AlertService` uses the dispatch through the actions of `FanOut` only, which
`DispatcherImplementsFanOut` and `ThreadsImplementFanOut` show to be what the code
below does. So the theorems about the service, the dispatcher and the exchange are
about one system, with the two contracts between them.

### The configuration

`ConfigurationProofs` proves `AcceptedFilesAreSound`: a file that `load_config` accepts
is sound (`RoutingIsSound`, `NumbersAreSound`), with lists of any length and with "nan"
and infinity among its numbers. `Resolve` and `ButtonByName` filter lists, so the proof
is about `ItemsAt`: the rank of a position among the chosen ones is a bijection onto
`1 .. Cardinality` (`RankIsBijection`, from `IntervalSize`), hence the list holds exactly
the chosen items, each once and in their order (`ItemsOfPositions`). From that follow who
is asked (`EnabledStay`, `AllAreAsked`, `ResolvedAsMeant`) and that a press finds its own
button (`EveryButtonIsFound`). The numbers are cases of `Floats` (`NumbersAreUsable`).

### The main thread

`MainThreadProofs` proves, for every set of configuration files that name at most two
buttons (`FilesAssumption`; the number of button objects is the bound of the module)
and every number of signals:

- `MainInvariant`: the inductive invariant `MainInv`
- `MainTypes`, `WorkerKeepsWhatItUses`, `GraceCountsFromTheSignal`,
  `NothingIsLeftOpen`, `ExitCodesAreHonest`, `OneSignalIsSafe`, `AcceptedIsAlwaysSound`:
  the invariants of the run `process`

None of these is inductive alone:

- That the grace period counts from the signal needs the order of the handler: it
  sets the deadline before the stop event (`StackInOrder`: a handler that has left its
  first section has set it), so whoever sees the event without a fatal error
  sees a deadline of a signal (`StopHasACause`). A thread that sets the fatal error
  does so before it sets the stop event (`ThreadsInOrder`: a worker that crashes and a
  press that failed are past their first section only when `fatal` is set). The exit
  code 0 of the service needs both, and that a worker which is alive at the end had
  outlived the join (`WorkerIsLast`).
- The worker keeps its objects because it is made last (`WorkerIsLast`): when it
  exists the construction has nothing more to do and cannot fail, so no clean-up meets
  it, and a shutdown that it outlived has none of its objects on its list.
- Nothing is left open because in every stage what is open is on the list of things to
  release, stuck, or in use (`OpenIsListed`), which differs between the construction,
  the clean-up, the `finally` of a validation and the shutdown.
- One signal does not block because the main thread comes to the shutdown's sections
  only when a handler, or a fatal error, has set the stop event: `HandlerReturned` says
  that once shutdown has begun without a fatal error, fewer handlers are on the stack
  than signals have come. That `fatal` is set before the stop event, in the thread of
  the worker as in that of a press, is what this rests on (`ThreadsInOrder`): main that
  sees the event of a failed press finds the error set. With `HandlersAreSignals`, a single signal leaves nobody on the
  stack to wait for.
- `AcceptedIsSound` is what `Configuration` promises, of the file the program was given,
  which is read once and does not change (`FileIsTakenOnce`).

### The lamp

`SendLedProofs` proves for every number of generations:

- `LampIsOwned`: the inductive invariant `LedInv`
- `LedTypes`, `QuietIsDark`, `SuccessStaysLit`: the invariants of the run `send_led`
- `LampStaysClosed`: the action property `ClosedForGood`

A thread or a timer looks at the generation and at the lamp under one lock, so it
touches the lamp of its own generation only. That the newest generation has one owner
is what the proof needs: no thread or timer is ahead of the counter (`NothingAhead`),
and the timer of the present generation belongs to a success, its thread to a blinking
(`ModeOwnsLamp`).

### What is only model-checked

- Liveness: `DispatchEnds`, `CleanUpHappens`, `EverySendEnds`, `AllAlertsSettled`,
  `DoesNotStayLit`, `ShutdownEndsUnlessBlocked`. Liveness under fairness is out of the
  prover's reach.
- The three findings below, which are counterexamples.

Every other property of the runs, invariants, action properties and refinements, is a
theorem. The inductive invariants were checked
with TLC on the instances of section 3 before they were proved.

## 6. Findings

Each has a run whose counterexample shows it.

1. `success_is_reported`. At a cutoff, `dispatcher.py:312-320` collects the futures
   that are done and then drops those that are done by then. One that completes
   between is neither collected nor detached: its success is told to nobody, the
   row keeps the destination and the alert is sent again.
2. `refused_leave_the_queue`. Unknown and disabled destinations get a result in the
   returned list, not through `result_handler` (`dispatcher.py:206-226`), which alone
   changes the row. A record left with such destinations is requeued for ever.
3. `shutdown_ends`. The signal handler runs on the main thread and takes
   `_shutdown_deadline_lock` (`alert_service.py:221`) and the locks of two events.
   When a signal comes while the main thread, or the handler of an earlier signal,
   holds one of them, the program waits for itself and ends only by SIGKILL.
   `ShutdownEndsUnlessBlocked` (run `process`) shows that this is the only way in
   which a shutdown does not end, and `OneSignalNeverBlocks` that it takes two signals,
   or a signal and a fatal error, by a crash of the worker or by a press that cannot be
   stored (`alert_service.py:156-158`), after which main is in the same sections: one
   signal without a fatal error is safe.

Observations without a run of their own:

- A retry that the preflight check stops replaces the failure of the attempt
  before it by "not attempted" (`dispatcher.py:461`); `SkippedSentNothing` is about
  the last call of send for that reason.
- A press that passed the stop test before the signal may be enqueued while
  shutdown joins the worker ("shutdown 開始後は新規 enqueue しない", package README,
  line 21), or meet the closed queue and set the fatal error
  (`alert_service.py:156`), so that `run()` raises at the end of an orderly stop.
- The outcome need not follow the status: a body that breaks off is a network
  failure, and a charset Python does not know is a permanent failure, also of a 503
  (`transport.py:138`, `DecodeFails`).
- A body of exactly `response_body_limit_bytes` is not the end of the reading: the
  next chunk is waited for. The time-out of a request limits single waits, so a
  request can outlast the deadline by many time-outs; `RequestIsBounded` is the
  bound there is.
- `Retry-After` is honoured by the retries of one dispatch. After the last attempt
  the row's back-off starts from its own base and does not know the header.
- "nan" passes `_validate_positive` and `_validate_non_negative` (`config.py:392`).
  Pauses and back-off become 0 (`AcceptedIsSound`); as `shutdown_grace_seconds` it
  makes the join raise. Infinity in a key that goes through `_int` raises
  `OverflowError` and exits with 1 instead of 2.
- Two objects on one pin are refused for buttons only; a lamp on a button's pin
  fails in the construction.
- `QueueFails` of the service, `LampFails` and `ReleaseFails` in `shutdown` set
  `aborted`: no clean-up stands behind them, and what is open then stays open until
  the process ends (`alert_service.py:75` and `:177`).
- Exit code 2 of `--test` stands for "not attempted" only; a test message has
  neither deadline nor stop event, so it never comes from results.
- Events not started stay in the table at shutdown and are sent after the restart,
  where the package README says they are discarded (line 153); the dispatcher sends
  in parallel and is called serial (line 32); the queue is called a FIFO (line 4),
  and its order is that of due times of a wall clock that may be stepped.

## 7. Not modelled

- Texts, payloads, templates, signatures, formatting, logging; argument parsing.
- The settings of one kind of destination in `config.py` (strings and tables that
  no decision of the program depends on) and the adapters' use of them.
- A session that is injected and shared by all threads: only tests do so.
- The wall clock within `HttpExchange`: a date in `Retry-After` is a number of
  ticks from now, or in the past.
- The same locks where other threads take them to read or to wait: the deadline in
  each round of a dispatch, the event of new work in the worker's loop. They give them
  back without waiting for anything that main holds.
- Configured times that are "nan" or infinite where `threading` raises on them: the
  deadline of a delivery, the grace period, the time a success is shown.
- Redirects, which `requests` follows by itself. That a server's headers end is an
  assumption on the library (`HeaderWaits`), as is a session's time-out per wait.
- `setup.sh` and the package lists: they run before the program and keep no state
  of it. The message constants are text.

## 8. Plan

Done: all modules; every safety and action property and every refinement that the runs
check is proved.

Left: a composition of `MainThread` and `AlertService`, so that a signal handler blocked
on itself is seen from the worker's side.
