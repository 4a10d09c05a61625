---------------------------- MODULE AlertService ----------------------------
(***************************************************************************)
(* alert_service.py: the program around the queue and the dispatcher, from *)
(* a button press to the end of the process, and the next process.         *)
(*                                                                         *)
(*   presses   GPIO callback threads inside handle_button_press            *)
(*   worker    the thread _worker_loop: claims a record, dispatches it,    *)
(*             completes or requeues it                                    *)
(*   dispatch  the threads of the dispatcher, with the behaviour FanOut    *)
(*             promises; each report is written to the table               *)
(*   main      the main thread: run and shutdown                           *)
(*   systemd   starts the program again whenever it ends                   *)
(*                                                                         *)
(* The table comes from PersistentQueue, the dispatch from FanOut.  The    *)
(* LEDs change nothing here and are left out; the cooldown is the question *)
(* whether it is over.                                                     *)
(***************************************************************************)
EXTENDS PersistentQueue, FanOut

CONSTANTS
    Presses,          \* threads that may be inside handle_button_press at once
    ConfigMayChange,  \* may the operator edit the destinations between runs?
    MaxMishaps        \* bound: crashes, signals, passed deadlines, retryable
                      \* answers and failing statements in a behaviour

ASSUME ServiceAssumption == ConfigMayChange \in BOOLEAN /\ MaxMishaps \in Nat

VARIABLES
    up,        \* the process runs
    enabled,   \* the enabled destinations of its configuration
    stop,      \* _stop_event
    fatal,     \* _fatal_error is set
    worker,    \* where the worker thread is
    main,      \* where the main thread is
    keepStore, \* shutdown's keep_queue_store_open
    press,     \* press thread -> where it is
    cooling,   \* the last accepted press is less than cooldown_seconds ago
    attempted, \* history: <<record, target>> pairs whose send got past its preflight
    mishaps    \* how much of the bound is used up

queueVars == <<rows, nextId, clock, open, workerVars>>
threadVars == <<up, enabled, stop, fatal, worker, main, keepStore, press, cooling>>
serviceVars == <<queueVars, fanOutVars, threadVars, attempted, mishaps>>

WorkerStates == {"off", "looking", "claiming", "dispatching", "finalizing",
                 "crashing", "dead"}
MainStates == {"off", "serving", "joining", "closing", "closed", "done", "gaveUp"}

WorkerAlive == worker \notin {"off", "dead"}

\* One more of the things that may go wrong only so often.
Mishap ==
    /\ mishaps < MaxMishaps                       \* bound MaxMishaps
    /\ mishaps' = mishaps + 1

\* The stop event is set; it cuts a dispatch off.
SetStop == stop' = TRUE /\ cut' = TRUE

-----------------------------------------------------------------------------
(* handle_button_press                                                     *)

PressKeeps ==
    UNCHANGED <<clock, open, workerVars, phase, waiting, asked, tried, late,
                cleaned, up, enabled, worker, main, keepStore, attempted>>

\* The tests before the lock; the callbacks end when shutdown closes the buttons.
PressArrives(p) ==
    /\ main \in {"serving", "joining"}
    /\ press[p] = "idle"
    /\ ~stop
    /\ WorkerAlive /\ ~fatal
    /\ press' = [press EXCEPT ![p] = "checked"]
    /\ UNCHANGED <<rows, nextId, stop, cut, fatal, cooling, mishaps>>
    /\ PressKeeps

\* _accept_lock is taken; worker and error are looked at again, stop is not.
PressLocks(p) ==
    /\ press[p] = "checked"
    /\ \A q \in Presses : press[q] # "locked"
    /\ press' = [press EXCEPT ![p] = IF WorkerAlive /\ ~fatal THEN "locked" ELSE "idle"]
    /\ UNCHANGED <<rows, nextId, stop, cut, fatal, cooling, mishaps>>
    /\ PressKeeps

PressAccepted(p) ==
    /\ press[p] = "locked"
    /\ ~cooling
    /\ open
    /\ \E ts \in (SUBSET enabled) \ {{}} : Enqueue(ts)
    /\ press' = [press EXCEPT ![p] = "idle"]
    /\ cooling' = TRUE
    /\ UNCHANGED <<stop, cut, fatal, mishaps>>
    /\ PressKeeps

\* Cooldown, or QueueFullError.
PressIgnored(p) ==
    /\ press[p] = "locked"
    /\ cooling \/ (open /\ ~HasRoom)
    /\ press' = [press EXCEPT ![p] = "idle"]
    /\ UNCHANGED <<rows, nextId, stop, cut, fatal, cooling, mishaps>>
    /\ PressKeeps

\* enqueue raises, because the queue was closed meanwhile or by an error of the
\* database, a lock or a full disk: _set_fatal_error.
PressFails(p) ==
    /\ press[p] = "locked"
    /\ ~cooling
    /\ IF open THEN Mishap ELSE UNCHANGED mishaps
    /\ press' = [press EXCEPT ![p] = "idle"]
    /\ fatal' = TRUE
    /\ SetStop
    /\ UNCHANGED <<rows, nextId, cooling>>
    /\ PressKeeps

CooldownEnds ==
    /\ cooling
    /\ cooling' = FALSE
    /\ UNCHANGED <<rows, nextId, stop, cut, fatal, press, mishaps>>
    /\ PressKeeps

PressStep(p) ==
    \/ PressArrives(p) \/ PressLocks(p) \/ PressAccepted(p)
    \/ PressIgnored(p) \/ PressFails(p)

-----------------------------------------------------------------------------
(* The worker and the dispatch.                                            *)

WorkerKeeps ==
    UNCHANGED <<clock, open, up, enabled, main, keepStore, press, cooling>>

\* while not self._stop_event.is_set()
WorkerLooks ==
    /\ worker = "looking"
    /\ worker' = IF stop THEN "dead" ELSE "claiming"
    /\ UNCHANGED <<tableVars, workerVars, fanOutVars, stop, fatal, attempted, mishaps>>
    /\ WorkerKeeps

WorkerFindsNone ==
    /\ worker = "claiming"
    /\ Ready = {}
    /\ worker' = "looking"
    /\ UNCHANGED <<tableVars, workerVars, fanOutVars, stop, fatal, attempted, mishaps>>
    /\ WorkerKeeps

\* Mutant: the row's targets are not looked at, everybody is asked again.
AllAddressees(r) == enabled

\* Whom the dispatch of a record asks: the targets left in its row, without
\* those that are unknown or disabled by now, which get no report.
Addressees(r) == rows[r].targets \cap enabled

WorkerClaims ==
    /\ worker = "claiming"
    /\ \E r \in Records :
          /\ ClaimNextReady(r)
          /\ held' = r
          /\ StartDispatch(Addressees(r))
    /\ cut' = stop
    /\ worker' = "dispatching"
    /\ UNCHANGED <<finalizing, targetsRead, stop, fatal, attempted, mishaps>>
    /\ WorkerKeeps

DispatchKeeps == UNCHANGED <<finalizing, targetsRead, held>> /\ WorkerKeeps

\* send gets past its preflight check: what follows may be a request, or an
\* exception before anything is sent.  A second call in one dispatch follows a
\* retryable failure.
DispatchSends(d) ==
    /\ SendRequest(d)
    /\ IF d \in tried THEN Mishap ELSE UNCHANGED mishaps
    /\ attempted' = attempted \cup {<<held, d>>}
    /\ UNCHANGED <<tableVars, stop, fatal, worker>>
    /\ DispatchKeeps

RequestEnds(d) ==
    /\ EndRequest(d)
    /\ UNCHANGED <<tableVars, stop, fatal, worker, attempted, mishaps>>
    /\ DispatchKeeps

\* result_handler: _persist_destination_progress.  The queue is open, or the
\* statement raises.
DispatchReports(d, res) ==
    /\ open
    /\ ReportResult(d, res)
    /\ MarkProcessedDestination(held, d, KeepForRetry(res))
    /\ IF res = "retryable" THEN Mishap ELSE UNCHANGED mishaps
    /\ UNCHANGED <<stop, fatal, worker, attempted>>
    /\ DispatchKeeps

\* max_event_delivery_seconds
DeadlinePasses ==
    /\ phase = "running"
    /\ CutDispatch
    /\ Mishap
    /\ UNCHANGED <<tableVars, stop, fatal, worker, attempted>>
    /\ DispatchKeeps

DispatchDetaches(d) ==
    /\ DetachRequest(d)
    /\ d \in waiting
    /\ UNCHANGED <<tableVars, stop, fatal, worker, attempted, mishaps>>
    /\ DispatchKeeps

\* A detached result was recorded, or was not: the handler's exception is
\* logged, and so is a result that comes after the clean-up was forced.
DetachedLeaves(d) ==
    /\ LeaveDetached(d)
    /\ IF d \in waiting /\ open /\ ~cleaned THEN Mishap ELSE UNCHANGED mishaps
    /\ UNCHANGED <<tableVars, stop, fatal, worker, attempted>>
    /\ DispatchKeeps

\* An exception leaves _worker_loop.
WorkerRaises ==
    /\ worker' = "crashing"
    /\ UNCHANGED <<stop, fatal>>

DispatchReturns ==
    /\ ReturnDispatch
    /\ worker' = "finalizing"
    /\ UNCHANGED <<tableVars, stop, fatal, attempted, mishaps>>
    /\ DispatchKeeps

\* DispatchCutoffError
DispatchRaises ==
    /\ AbandonDispatch
    /\ WorkerRaises
    /\ UNCHANGED <<tableVars, attempted, mishaps>>
    /\ DispatchKeeps

\* result_handler raises in the worker's thread.
ReportFails ==
    /\ FailDispatch
    /\ \E d \in waiting \ asked : d \in tried \/ cut
    /\ Mishap
    /\ WorkerRaises
    /\ UNCHANGED <<tableVars, attempted>>
    /\ DispatchKeeps

\* A statement of the worker's own raises; it is rolled back.
WorkerStatementFails ==
    /\ worker \in {"claiming", "finalizing"}
    /\ Mishap
    /\ WorkerRaises
    /\ UNCHANGED <<tableVars, workerVars, fanOutVars, attempted>>
    /\ WorkerKeeps

\* _worker_entrypoint: _set_fatal_error, and the thread ends.
WorkerCrashes ==
    /\ worker = "crashing"
    /\ worker' = "dead"
    /\ fatal' = TRUE
    /\ SetStop
    /\ UNCHANGED <<tableVars, workerVars, phase, waiting, asked, tried, late,
                   cleaned, attempted, mishaps>>
    /\ WorkerKeeps

\* _finalize_record
WorkerReadsTargets ==
    /\ worker = "finalizing"
    /\ ~finalizing
    /\ finalizing' = TRUE
    /\ targetsRead' = CurrentTargets(held)
    /\ UNCHANGED <<tableVars, held, fanOutVars, stop, fatal, worker, attempted, mishaps>>
    /\ WorkerKeeps

\* Mutant: the record is done whatever is left of it.
WorkerCompletesAnyway ==
    /\ worker = "finalizing"
    /\ finalizing
    /\ CompleteSuccess(held)
    /\ Forget
    /\ worker' = "looking"
    /\ UNCHANGED <<fanOutVars, stop, fatal, attempted, mishaps>>
    /\ WorkerKeeps

WorkerCompletes ==
    /\ worker = "finalizing"
    /\ finalizing
    /\ targetsRead = {}
    /\ CompleteSuccess(held)
    /\ Forget
    /\ worker' = "looking"
    /\ UNCHANGED <<fanOutVars, stop, fatal, attempted, mishaps>>
    /\ WorkerKeeps

WorkerRequeues ==
    /\ worker = "finalizing"
    /\ finalizing
    /\ targetsRead # {}
    /\ Requeue(held, targetsRead,
               IF stop THEN 0 ELSE RetryDelay(rows[held].attempts + 1))
    /\ Forget
    /\ worker' = "looking"
    /\ UNCHANGED <<fanOutVars, stop, fatal, attempted, mishaps>>
    /\ WorkerKeeps

WorkerStep ==
    \/ WorkerLooks \/ WorkerFindsNone \/ WorkerClaims
    \/ WorkerReadsTargets \/ WorkerCompletes \/ WorkerRequeues
    \/ WorkerCrashes

DispatchStep(d) ==
    \/ DispatchSends(d) \/ RequestEnds(d)
    \/ \E res \in Results : DispatchReports(d, res)
    \/ DispatchDetaches(d) \/ DetachedLeaves(d)

DispatchEnd == DispatchReturns \/ DispatchRaises

-----------------------------------------------------------------------------
(* The main thread: run and shutdown.                                      *)

MainKeeps ==
    UNCHANGED <<tableVars, clock, up, enabled, fatal, worker, press, cooling,
                attempted, mishaps>>

QueueKept == UNCHANGED <<open, workerVars>>
CloseStore == open' = FALSE /\ Forget

\* SIGTERM or SIGINT.
Signal ==
    /\ main = "serving"
    /\ ~stop
    /\ Mishap
    /\ SetStop
    /\ UNCHANGED <<queueVars, phase, waiting, asked, tried, late, cleaned, up,
                   enabled, fatal, worker, main, keepStore, press, cooling, attempted>>

MainStops ==
    /\ main = "serving"
    /\ stop
    /\ main' = "joining"
    /\ UNCHANGED <<fanOutVars, stop, keepStore>>
    /\ QueueKept /\ MainKeeps

\* The worker has ended; has_detached_inflight_work is asked the first time,
\* and the buttons are closed.
JoinReturns ==
    /\ main = "joining"
    /\ ~WorkerAlive
    /\ main' = "closing"
    /\ keepStore' = (late # {})
    /\ UNCHANGED <<fanOutVars, stop>>
    /\ QueueKept /\ MainKeeps

\* The worker did not end in time: nothing is closed.
JoinTimesOut ==
    /\ main = "joining"
    /\ WorkerAlive
    /\ main' = "gaveUp"
    /\ UNCHANGED <<fanOutVars, stop, keepStore>>
    /\ QueueKept /\ MainKeeps

\* Dispatcher.close: joins the pool, or leaves an abandoned dispatch to the
\* monitor.  The clean-up's callback closes the queue.
CloseDispatcher ==
    /\ main = "closing"
    /\ IF cleaned \/ (phase = "abandoned" /\ late # {})
       THEN UNCHANGED fanOutVars /\ QueueKept
       ELSE CleanUp(FALSE) /\ CloseStore
    /\ main' = "closed"
    /\ UNCHANGED <<stop, keepStore>>
    /\ MainKeeps

\* The monitor, or the callback of the last detached request, cleans up;
\* the monitor also when its time is over.
CleanUpDetached ==
    /\ main \in {"closed", "done"}
    /\ phase = "abandoned"
    /\ CleanUp(TRUE)
    /\ CloseStore
    /\ UNCHANGED <<stop, main, keepStore>>
    /\ MainKeeps

\* Mutant: late reports are not thought of.
KeepStoreNever == FALSE

\* has_detached_inflight_work is asked the second time.
KeepStore == keepStore \/ late # {}

ShutdownCloses ==
    /\ main = "closed"
    /\ IF open /\ ~KeepStore THEN CloseStore ELSE QueueKept
    /\ main' = "done"
    /\ UNCHANGED <<fanOutVars, stop, keepStore>>
    /\ MainKeeps

MainStep ==
    \/ MainStops \/ JoinReturns \/ JoinTimesOut \/ CloseDispatcher \/ ShutdownCloses

-----------------------------------------------------------------------------
(* The end of the process, the next one, and time.                         *)

\* All threads are daemons or gone: what they knew is lost, what is committed
\* stays.
ProcessEnds ==
    /\ up
    /\ up' = FALSE
    /\ open' = FALSE
    /\ Forget
    /\ phase' = "idle"
    /\ waiting' = {} /\ asked' = {} /\ tried' = {} /\ late' = {}
    /\ cut' = FALSE /\ cleaned' = FALSE
    /\ stop' = FALSE /\ fatal' = FALSE
    /\ worker' = "off" /\ main' = "off" /\ keepStore' = FALSE
    /\ press' = [p \in Presses |-> "idle"]
    /\ cooling' = FALSE
    /\ UNCHANGED <<tableVars, clock, enabled, attempted>>

MainExits ==
    /\ main \in {"done", "gaveUp"}
    /\ ProcessEnds
    /\ UNCHANGED mishaps

Crash ==
    /\ ProcessEnds
    /\ Mishap

\* Restart=always: a new process opens the queue and recovers its rows.  The last
\* accepted press counts as one at 0.0 of the monotonic clock: shortly after the
\* board has booted, presses are ignored.
Restart ==
    /\ ~up
    /\ RecoverProcessingRows
    /\ up' = TRUE
    /\ open' = TRUE
    /\ worker' = "looking"
    /\ main' = "serving"
    /\ cooling' \in BOOLEAN
    /\ IF ConfigMayChange
       THEN enabled' \in (SUBSET Targets) \ {{}}
       ELSE UNCHANGED enabled
    /\ UNCHANGED <<clock, workerVars, fanOutVars, stop, fatal, keepStore, press,
                   attempted, mishaps>>

\* app.py --validate-runtime beside the running service.
ValidationRecovers ==
    /\ up
    /\ Processing # {}
    /\ RecoverProcessingRows
    /\ UNCHANGED <<clock, open, workerVars, fanOutVars, threadVars, attempted, mishaps>>

Tick ==
    /\ clock < Horizon
    /\ clock' = clock + 1
    /\ UNCHANGED <<tableVars, open, workerVars, fanOutVars, threadVars, attempted, mishaps>>

ServiceInit ==
    /\ Init
    /\ FanOutInit
    /\ cut = FALSE
    /\ up = TRUE
    /\ enabled = Targets
    /\ stop = FALSE
    /\ fatal = FALSE
    /\ worker = "looking"
    /\ main = "serving"
    /\ keepStore = FALSE
    /\ press = [p \in Presses |-> "idle"]
    /\ cooling \in BOOLEAN
    /\ attempted = {}
    /\ mishaps = 0

ServiceNext ==
    \/ \E p \in Presses : PressStep(p)
    \/ CooldownEnds
    \/ WorkerStep \/ WorkerStatementFails
    \/ \E d \in Targets : DispatchStep(d)
    \/ DispatchEnd \/ DeadlinePasses \/ ReportFails
    \/ Signal \/ MainStep \/ CleanUpDetached
    \/ MainExits \/ Crash \/ Restart \/ ValidationRecovers \/ Tick

ServiceSpec == ServiceInit /\ [][ServiceNext]_serviceVars

\* The threads run, time passes, every request ends some day, and systemd
\* restarts the program.  Nobody need press a button.
ServiceFairness ==
    /\ WF_serviceVars(WorkerStep)
    /\ \A d \in Targets : WF_serviceVars(DispatchStep(d))
    /\ WF_serviceVars(DispatchEnd)
    /\ WF_serviceVars(MainStep)
    /\ WF_serviceVars(MainExits)
    /\ WF_serviceVars(Restart)
    /\ WF_serviceVars(Tick)

FairServiceSpec == ServiceSpec /\ ServiceFairness

-----------------------------------------------------------------------------
(* Properties.                                                             *)

\* Type correctness.
ServiceTypeOK ==
    /\ TypeOK
    /\ FanOutTypeOK
    /\ up \in BOOLEAN
    /\ enabled \in SUBSET Targets
    /\ stop \in BOOLEAN
    /\ fatal \in BOOLEAN
    /\ worker \in WorkerStates
    /\ main \in MainStates
    /\ keepStore \in BOOLEAN
    /\ press \in [Presses -> {"idle", "checked", "locked"}]
    /\ cooling \in BOOLEAN
    /\ attempted \in SUBSET (Records \X Targets)
    /\ mishaps \in 0 .. MaxMishaps

\* The service uses the queue the way its standalone specification says: one
\* record at a time, marks before the targets are read and not after, a
\* recovery after every close.  What is proved of that specification
\* (NoStrandedRow, BacklogBounded, ImplementsOutbox) therefore holds here.
FollowsQueueContract == Spec

\* Nothing is dropped untried: a destination leaves the row of an alert only after
\* a call of its send for that alert got past its preflight check, so never by a
\* stop, a deadline, a detached or discarded report, a crash, a recovery or a
\* requeue.  That call may have failed before anything was sent: an exception of
\* send that is no network error is a permanent failure, and settles the
\* destination like a refusal of its server.
NothingDroppedUntried ==
    [][\A r \in Records : \A d \in rows[r].targets :
          d \notin rows'[r].targets => <<r, d>> \in attempted]_serviceVars

\* Nobody is asked twice without need: a request under way is for a
\* destination its alert still owes, so one that is known to have answered is
\* not asked again, by a retry, a restart or a second process's recovery.
RequestsAreOwed == open => \A d \in asked : d \in rows[held].targets

\* The queue stays open for late reports: while a detached request may still
\* report, shutdown does not close the queue under it (unless the clean-up is
\* over).
StoreOutlivesReporters == up /\ late # {} => open \/ cleaned

\* Every accepted alert is settled in the end: while the service is restarted
\* and things go wrong only finitely often, every row is delivered and deleted.
AllAlertsSettled ==
    \A r \in Records : rows[r].status # "none" ~> rows[r].status = "none"

\* test_non_retryable_results_are_not_requeued, and _should_requeue_result:
\* a result that is neither a retryable failure nor cut off leaves the queue.
\* An unknown or disabled destination is such a result, so a record that was
\* dispatched is not queued again for such destinations only.
RefusedLeaveTheQueue ==
    [][\A r \in Records :
          rows'[r].attempts > rows[r].attempts => rows'[r].targets \cap enabled # {}]_serviceVars

=============================================================================
