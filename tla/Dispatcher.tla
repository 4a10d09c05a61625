----------------------------- MODULE Dispatcher -----------------------------
(***************************************************************************)
(* dispatcher.py: one alert to several destinations, with the threads it   *)
(* uses.                                                                   *)
(*                                                                         *)
(*   caller    the thread inside dispatch (the alert worker): submits,     *)
(*             waits, hands each result to result_handler, and on the stop *)
(*             event or the deadline cuts the dispatch off                 *)
(*   tasks     one per destination and dispatch: a pool thread inside      *)
(*             _dispatch_single_destination; when the request outlives the *)
(*             grace period its result is recorded by _on_done instead     *)
(*   closer    the main thread inside close                                *)
(*   monitor   the thread _monitor_detached_cleanup                        *)
(*                                                                         *)
(* A dispatcher lives through several dispatches and dies with the first   *)
(* that is abandoned.  The stop event and a passed deadline never go back, *)
(* and the times the code computes are replaced by the question whether    *)
(* they have passed.  The destinations' answers are arbitrary, and an      *)
(* answer may never come.                                                  *)
(***************************************************************************)
EXTENDS DispatchResults, Integers, FiniteSets, Sequences

CONSTANTS
    Enabled,          \* the configured destinations that are enabled
    MaxParallel,      \* [delivery] max_parallel_destinations: pool threads
    MaxAttempts,      \* len(retry_delays_seconds): requests per destination
    MonitorTimesOut,  \* detached_cleanup_timeout_seconds > 0
    HandlerMayFail,   \* may result_handler raise (a failing database)?
    MaxCalls          \* bound: dispatches in the life of the dispatcher

ASSUME EnabledAssumption == Enabled \subseteq Targets
ASSUME LimitsAssumption ==
    /\ MaxParallel \in Nat \ {0}
    /\ MaxAttempts \in Nat \ {0}
    /\ MaxCalls \in Nat \ {0}
ASSUME SwitchesAssumption == MonitorTimesOut \in BOOLEAN /\ HandlerMayFail \in BOOLEAN

VARIABLES
    stop,             \* the stop event is set
    expired,          \* call -> its deadline has passed
    pc,               \* where the caller is
    call,             \* the dispatch it is in, or was last in
    scope,            \* resolved_names: the known, enabled ones of this dispatch
    pending,          \* pending_futures, later running_futures
    batch,            \* the futures the innermost for loop has still to visit
    task,             \* task -> where its thread is
    attempt,          \* task -> requests made
    latest,           \* task -> latest_result, the future's result when done
    reported,         \* task -> results handed to result_handler, in order
    abandoned,        \* _abandoned_running_dispatch
    detached,         \* _detached_futures
    closer,           \* where the thread inside close is
    monitor,          \* where the clean-up monitor is
    discardLate,      \* _discard_detached_results
    transportClosed,  \* _transport_closed
    finalized         \* _detached_cleanup_finalized

callerVars == <<pc, call, scope, pending, batch>>
taskVars == <<task, attempt, latest>>
closeVars == <<closer, monitor, discardLate, transportClosed, finalized>>
aroundTask == <<stop, expired, callerVars, abandoned, closeVars>>
dispatchVars == <<stop, expired, callerVars, taskVars, reported, abandoned,
                  detached, closeVars>>

Calls == 1 .. MaxCalls
Task == Calls \X Targets

\* A task's way through its thread.  "done" and "cancelled" are the states in
\* which Future.done() is true and nothing is left to do; a detached task goes
\* on to its callback with the future done.
Callback == {"calling", "recording", "leaving", "finalizing"}
Settled == {"done", "cancelled"} \cup Callback
Attached == {"launched", "check", "preflight", "inflight"} \cup Callback
TaskStates == {"none", "queued"} \cup Attached \cup Settled

CallerStates == {"idle", "sequential", "precheck", "refuse", "loop", "collect",
                 "sweep", "prune", "classify", "drain", "drainCollect",
                 "lastCollect", "detach", "raised"}

CutOff(c) == stop \/ expired[c]

\* Mutant: the deadline is read through the caller's current dispatch (a
\* closure over the loop variable instead of its value).
TaskCutOffLate(t) == CutOff(call)

\* A task asks for the deadline of its own dispatch, also when the caller has
\* gone on to the next.
TaskCutOff(t) == CutOff(t[1])

IsDone(t) == task[t] \in Settled
DoneOf(ts) == {t \in ts : IsDone(t)}

\* Every thread of the pool serves one task at a time; the task of a sequential
\* dispatch runs in the caller's own thread.
OnPool(t) == task[t] \in Attached /\ ~(pc = "sequential" /\ t[1] = call)
BusyThreads == {t \in Task : OnPool(t)}

\* result_handler gets the result of one task.
Report(t, res) == reported' = [reported EXCEPT ![t] = Append(@, res)]

-----------------------------------------------------------------------------
(* The task: _DaemonWorkerPool._worker_loop around                         *)
(* _dispatch_single_destination.                                           *)

\* The task returns: a detached future runs its callback in this thread.
Settle(t, res) ==
    /\ latest' = [latest EXCEPT ![t] = res]
    /\ task' = [task EXCEPT ![t] = IF t \in detached THEN "calling" ELSE "done"]

\* set_running_or_notify_cancel
Launch(t) ==
    /\ task[t] = "queued"
    /\ Cardinality(BusyThreads) < MaxParallel
    /\ task' = [task EXCEPT ![t] = "launched"]
    /\ UNCHANGED <<aroundTask, attempt, latest, reported, detached>>

\* started_event.set()
Begin(t) ==
    /\ task[t] = "launched"
    /\ task' = [task EXCEPT ![t] = "check"]
    /\ UNCHANGED <<aroundTask, attempt, latest, reported, detached>>

\* What a task returns that finds itself cut off before a request: the result
\* of its last request, if there was one.
CutOffResult(t) == IF latest[t] = NoResult THEN "skipped" ELSE latest[t]

\* The stop event and the deadline are looked at before every attempt, and
\* during and after the pause between two attempts.
GiveUp(t) ==
    /\ task[t] = "check"
    /\ TaskCutOff(t)
    /\ Settle(t, CutOffResult(t))
    /\ UNCHANGED <<aroundTask, attempt, reported, detached>>

\* destination.send is called.
CallSend(t) ==
    /\ task[t] = "check"
    /\ ~TaskCutOff(t)
    /\ task' = [task EXCEPT ![t] = "preflight"]
    /\ UNCHANGED <<aroundTask, attempt, latest, reported, detached>>

\* The destination looks at the stop event and the deadline once more, and the
\* transport at the deadline; send answers "not attempted" and that replaces
\* the result of an earlier attempt.
PreflightStops(t) ==
    /\ task[t] = "preflight"
    /\ TaskCutOff(t)
    /\ Settle(t, "skipped")
    /\ UNCHANGED <<aroundTask, attempt, reported, detached>>

\* The request leaves.
Request(t) ==
    /\ task[t] = "preflight"
    /\ ~TaskCutOff(t)
    /\ task' = [task EXCEPT ![t] = "inflight"]
    /\ attempt' = [attempt EXCEPT ![t] = @ + 1]
    /\ UNCHANGED <<aroundTask, latest, reported, detached>>

\* Mutant: one attempt too many.
AnswerOffByOne(t, res) ==
    /\ task[t] = "inflight"
    /\ IF res = "retryable" /\ attempt[t] <= MaxAttempts
       THEN /\ latest' = [latest EXCEPT ![t] = res]
            /\ task' = [task EXCEPT ![t] = "check"]
       ELSE Settle(t, res)
    /\ UNCHANGED <<aroundTask, attempt, reported, detached>>

\* An answer, an error or a time-out; a retryable one is tried again.
Answer(t, res) ==
    /\ task[t] = "inflight"
    /\ IF res = "retryable" /\ attempt[t] < MaxAttempts
       THEN /\ latest' = [latest EXCEPT ![t] = res]
            /\ task' = [task EXCEPT ![t] = "check"]
       ELSE Settle(t, res)
    /\ UNCHANGED <<aroundTask, attempt, reported, detached>>

-----------------------------------------------------------------------------
(* The task's end when its future was detached: _on_done.                  *)

\* Mutant: a result is recorded whether the clean-up still waits for it or not.
BeginRecordingAlways(t) ==
    /\ task[t] = "calling"
    /\ task' = [task EXCEPT ![t] = "recording"]
    /\ UNCHANGED <<aroundTask, attempt, latest, reported, detached>>

\* Mutant: a dispatcher that is being closed takes no late results any more.
BeginRecordingWhileOpen(t) ==
    /\ task[t] = "calling"
    /\ task' = [task EXCEPT ![t] = IF closer # "open" THEN "leaving" ELSE "recording"]
    /\ UNCHANGED <<aroundTask, attempt, latest, reported, detached>>

\* _begin_detached_result_recording
BeginRecording(t) ==
    /\ task[t] = "calling"
    /\ task' = [task EXCEPT ![t] = IF discardLate THEN "leaving" ELSE "recording"]
    /\ UNCHANGED <<aroundTask, attempt, latest, reported, detached>>

\* result_handler, or its exception, which is logged; then
\* _finish_detached_result_recording.
Record(t) ==
    /\ task[t] = "recording"
    /\ task' = [task EXCEPT ![t] = "leaving"]
    /\ \/ Report(t, latest[t])
       \/ HandlerMayFail /\ UNCHANGED reported
    /\ UNCHANGED <<aroundTask, attempt, latest, detached>>

\* _detached_futures.discard, and whether this was the last one of a
\* dispatcher that is being closed.
Leave(t) ==
    /\ task[t] = "leaving"
    /\ detached' = detached \ {t}
    /\ task' = [task EXCEPT ![t] =
                   IF closer # "open" /\ detached' = {} THEN "finalizing" ELSE "done"]
    /\ UNCHANGED <<aroundTask, attempt, latest, reported>>

\* _close_owned_transport_once and _finalize_detached_cleanup, each of which
\* does its work the first time only.
CloseAndFinalize ==
    /\ transportClosed' = TRUE
    /\ finalized' = TRUE

FinalizeByCallback(t) ==
    /\ task[t] = "finalizing"
    /\ task' = [task EXCEPT ![t] = "done"]
    /\ CloseAndFinalize
    /\ UNCHANGED <<stop, expired, callerVars, attempt, latest, reported,
                   abandoned, detached, closer, monitor, discardLate>>

TaskStep(t) ==
    \/ Launch(t) \/ Begin(t) \/ GiveUp(t) \/ CallSend(t)
    \/ PreflightStops(t) \/ Request(t)
    \/ \E res \in {"success", "permanent", "retryable"} : Answer(t, res)

CallbackStep(t) ==
    \/ BeginRecording(t) \/ Record(t) \/ Leave(t) \/ FinalizeByCallback(t)

-----------------------------------------------------------------------------
(* The caller: dispatch, _dispatch_parallel, _handle_cutoff.               *)

\* What the code above and below a for loop over futures leaves alone.
CallerKeeps == UNCHANGED <<stop, expired, attempt, latest, closeVars>>

\* dispatch: an abandoned dispatcher refuses; unknown and disabled names get
\* their "not attempted" in the returned list only; one destination, or a pool
\* of one, goes the sequential way.
Dispatch(ts) ==
    /\ pc = "idle"
    /\ closer = "open"
    /\ ~abandoned
    /\ call + 1 \in Calls                         \* bound MaxCalls
    /\ call' = call + 1
    /\ scope' = ts \cap Enabled
    /\ pending' = {call + 1} \X scope'
    /\ batch' = {}
    /\ pc' = IF MaxParallel <= 1 \/ Cardinality(scope') <= 1
             THEN "sequential" ELSE "precheck"
    /\ UNCHANGED <<task, reported, abandoned, detached>>
    /\ CallerKeeps

\* The sequential way: one destination after the other in the caller's thread.
StartNext ==
    /\ pc = "sequential"
    /\ \A t \in pending : task[t] = "none"
    /\ \E t \in pending : task' = [task EXCEPT ![t] = "check"]
    /\ UNCHANGED <<callerVars, reported, abandoned, detached>>
    /\ CallerKeeps

FinishNext ==
    /\ pc = "sequential"
    /\ \E t \in pending :
          /\ IsDone(t)
          /\ Report(t, latest[t])
          /\ pending' = pending \ {t}
    /\ UNCHANGED <<pc, call, scope, batch, task, abandoned, detached>>
    /\ CallerKeeps

SequentialReturn ==
    /\ pc = "sequential"
    /\ pending = {}
    /\ pc' = "idle"
    /\ UNCHANGED <<call, scope, pending, batch, task, reported, abandoned, detached>>
    /\ CallerKeeps

\* Cut off before anything was submitted: everybody is reported as skipped.
Refuse ==
    /\ pc = "precheck"
    /\ CutOff(call)
    /\ pc' = "refuse"
    /\ UNCHANGED <<call, scope, pending, batch, task, reported, abandoned, detached>>
    /\ CallerKeeps

RefuseNext ==
    /\ pc = "refuse"
    /\ \E t \in pending :
          /\ Report(t, "skipped")
          /\ pending' = pending \ {t}
          /\ pc' = IF pending' = {} THEN "idle" ELSE "refuse"
    /\ UNCHANGED <<call, scope, batch, task, abandoned, detached>>
    /\ CallerKeeps

Submit ==
    /\ pc = "precheck"
    /\ ~CutOff(call)
    /\ task' = [t \in Task |-> IF t \in pending THEN "queued" ELSE task[t]]
    /\ pc' = "loop"
    /\ UNCHANGED <<call, scope, pending, batch, reported, abandoned, detached>>
    /\ CallerKeeps

\* wait(...) returns with some that are done; a time-out goes round the loop.
WaitReturns ==
    /\ pc = "loop"
    /\ \E done \in (SUBSET DoneOf(pending)) \ {{}} :
          /\ batch' = done
          /\ pending' = pending \ done
    /\ pc' = "collect"
    /\ UNCHANGED <<call, scope, task, reported, abandoned, detached>>
    /\ CallerKeeps

LoopReturn ==
    /\ pc = "loop"
    /\ pending = {}
    /\ pc' = "idle"
    /\ UNCHANGED <<call, scope, pending, batch, task, reported, abandoned, detached>>
    /\ CallerKeeps

\* The cutoff: what is done now is collected first ...
CutOffSeen ==
    /\ pc = "loop"
    /\ pending # {}
    /\ CutOff(call)
    /\ batch' = DoneOf(pending)
    /\ pc' = "sweep"
    /\ UNCHANGED <<call, scope, pending, task, reported, abandoned, detached>>
    /\ CallerKeeps

\* Where the four calls of _collect_done_futures go on.
Resume == [collect |-> "loop", sweep |-> "prune", drainCollect |-> "drain",
           lastCollect |-> "detach"]

Collect ==
    /\ pc \in DOMAIN Resume
    /\ \E t \in batch :
          /\ Report(t, latest[t])
          /\ batch' = batch \ {t}
    /\ UNCHANGED <<pc, call, scope, pending, task, abandoned, detached>>
    /\ CallerKeeps

Collected ==
    /\ pc \in DOMAIN Resume
    /\ batch = {}
    /\ pc' = IF pc = "lastCollect" /\ pending = {} THEN "idle" ELSE Resume[pc]
    /\ UNCHANGED <<call, scope, pending, batch, task, reported, abandoned, detached>>
    /\ CallerKeeps

\* What is done by the time the collecting is over leaves the pending set,
\* collected or not.
StillPending == {t \in pending : ~IsDone(t)}

Prune ==
    /\ pc = "prune"
    /\ pending' = StillPending
    /\ batch' = StillPending
    /\ pc' = "classify"
    /\ UNCHANGED <<call, scope, task, reported, abandoned, detached>>
    /\ CallerKeeps

\* started_event is set once the thread has begun; before that the future can
\* be running and cancel() fail, which the code does not look at.
Started(t) == task[t] \notin {"none", "queued", "launched"}

Cancelled(t) == IF task[t] = "queued" THEN "cancelled" ELSE task[t]

Classify ==
    /\ pc = "classify"
    /\ \E t \in batch :
          /\ batch' = batch \ {t}
          /\ IF Started(t)
             THEN UNCHANGED <<pending, task, reported>>
             ELSE /\ pending' = pending \ {t}
                  /\ task' = [task EXCEPT ![t] = Cancelled(t)]
                  /\ Report(t, "skipped")
    /\ UNCHANGED <<pc, call, scope, abandoned, detached>>
    /\ CallerKeeps

Classified ==
    /\ pc = "classify"
    /\ batch = {}
    /\ pc' = IF pending = {} THEN "idle" ELSE "drain"
    /\ UNCHANGED <<call, scope, pending, batch, task, reported, abandoned, detached>>
    /\ CallerKeeps

\* The grace period: results are still collected, until nobody is running ...
DrainReturns ==
    /\ pc = "drain"
    /\ \E done \in (SUBSET DoneOf(pending)) \ {{}} :
          /\ batch' = done
          /\ pending' = pending \ done
    /\ pc' = "drainCollect"
    /\ UNCHANGED <<call, scope, task, reported, abandoned, detached>>
    /\ CallerKeeps

\* Mutant: the grace loop has no deadline of its own.
GraceNeverOver ==
    /\ pc = "drain"
    /\ pending = {}
    /\ batch' = {}
    /\ pending' = {}
    /\ pc' = "lastCollect"
    /\ UNCHANGED <<call, scope, task, reported, abandoned, detached>>
    /\ CallerKeeps

\* ... or the time is up (also "nobody is running": then nothing is left).
GraceOver ==
    /\ pc = "drain"
    /\ batch' = DoneOf(pending)
    /\ pending' = pending \ DoneOf(pending)
    /\ pc' = "lastCollect"
    /\ UNCHANGED <<call, scope, task, reported, abandoned, detached>>
    /\ CallerKeeps

\* _detach_running_future: the callback of a future that is done by now runs at
\* once, in this thread, and an exception of result_handler is logged there.
Detach ==
    /\ pc = "detach"
    /\ \E t \in pending :
          /\ pending' = pending \ {t}
          /\ IF IsDone(t)
             THEN /\ Report(t, latest[t]) \/ (HandlerMayFail /\ UNCHANGED reported)
                  /\ UNCHANGED detached
             ELSE /\ detached' = detached \cup {t}
                  /\ UNCHANGED reported
    /\ UNCHANGED <<pc, call, scope, batch, task, abandoned>>
    /\ CallerKeeps

\* DispatchCutoffError
Abandon ==
    /\ pc = "detach"
    /\ pending = {}
    /\ abandoned' = TRUE
    /\ pc' = "raised"
    /\ UNCHANGED <<call, scope, pending, batch, task, reported, detached>>
    /\ CallerKeeps

\* result_handler raises inside one of the loops: dispatch raises with it, and
\* the tasks that are left run on, neither detached nor collected.
HandlerFails ==
    /\ HandlerMayFail
    /\ \/ pc = "sequential" /\ DoneOf(pending) # {} /\ UNCHANGED task
       \/ pc = "refuse" /\ UNCHANGED task
       \/ pc \in DOMAIN Resume /\ batch # {} /\ UNCHANGED task
       \/ /\ pc = "classify"
          /\ \E t \in batch : ~Started(t) /\ task' = [task EXCEPT ![t] = Cancelled(t)]
    /\ pc' = "raised"
    /\ UNCHANGED <<call, scope, pending, batch, reported, abandoned, detached>>
    /\ CallerKeeps

CallerStep ==
    \/ StartNext \/ FinishNext \/ SequentialReturn
    \/ Refuse \/ RefuseNext \/ Submit
    \/ WaitReturns \/ LoopReturn \/ CutOffSeen
    \/ Collect \/ Collected \/ Prune \/ Classify \/ Classified
    \/ DrainReturns \/ GraceOver \/ Detach \/ Abandon \/ HandlerFails

-----------------------------------------------------------------------------
(* close and the clean-up monitor.                                         *)

\* Mutant: the pool is never joined.
CloseWithoutJoin ==
    /\ closer = "open"
    /\ pc \in {"idle", "raised"}
    /\ closer' = "looking"
    /\ task' = [t \in Task |-> Cancelled(t)]
    /\ UNCHANGED <<stop, expired, callerVars, attempt, latest, reported,
                   abandoned, detached, monitor, discardLate, transportClosed,
                   finalized>>

\* The main thread closes the dispatcher when the alert worker is gone.  The
\* pool cancels what is queued, and is joined unless a dispatch was abandoned.
Close ==
    /\ closer = "open"
    /\ pc \in {"idle", "raised"}
    /\ closer' = IF abandoned THEN "looking" ELSE "joining"
    /\ task' = [t \in Task |-> Cancelled(t)]
    /\ UNCHANGED <<stop, expired, callerVars, attempt, latest, reported,
                   abandoned, detached, monitor, discardLate, transportClosed,
                   finalized>>

CloseKeeps ==
    UNCHANGED <<stop, expired, callerVars, taskVars, reported, abandoned, detached>>

CloseJoined ==
    /\ closer = "joining"
    /\ BusyThreads = {}
    /\ closer' = "closed"
    /\ CloseAndFinalize
    /\ UNCHANGED <<monitor, discardLate>>
    /\ CloseKeeps

CloseUnlessDetached ==
    /\ closer = "looking"
    /\ closer' = "closed"
    /\ IF detached = {}
       THEN CloseAndFinalize /\ UNCHANGED monitor
       ELSE monitor' = "watching" /\ UNCHANGED <<transportClosed, finalized>>
    /\ UNCHANGED discardLate
    /\ CloseKeeps

MonitorDone ==
    /\ monitor = "watching"
    /\ detached = {}
    /\ monitor' = "done"
    /\ CloseAndFinalize
    /\ UNCHANGED <<closer, discardLate>>
    /\ CloseKeeps

MonitorTimeout ==
    /\ MonitorTimesOut
    /\ monitor = "watching"
    /\ detached # {}
    /\ monitor' = "forcing"
    /\ discardLate' = TRUE
    /\ UNCHANGED <<closer, transportClosed, finalized>>
    /\ CloseKeeps

\* Mutant: the forced clean-up waits for the requests, not for the callbacks.
NobodyDetached == detached = {}

\* _detached_result_callbacks_drained: nobody is between begin and finish.
CallbacksDrained == \A t \in Task : task[t] # "recording"

MonitorForce ==
    /\ monitor = "forcing"
    /\ CallbacksDrained
    /\ monitor' = "done"
    /\ CloseAndFinalize
    /\ UNCHANGED <<closer, discardLate>>
    /\ CloseKeeps

CloserStep == CloseJoined \/ CloseUnlessDetached
MonitorStep == MonitorDone \/ MonitorTimeout \/ MonitorForce

-----------------------------------------------------------------------------
(* The environment and the specification.                                  *)

EnvKeeps == UNCHANGED <<callerVars, taskVars, reported, abandoned, detached, closeVars>>

Stop ==
    /\ ~stop
    /\ stop' = TRUE
    /\ UNCHANGED expired
    /\ EnvKeeps

DeadlinePasses ==
    /\ pc # "idle"
    /\ ~expired[call]
    /\ expired' = [expired EXCEPT ![call] = TRUE]
    /\ UNCHANGED stop
    /\ EnvKeeps

Init ==
    /\ stop = FALSE
    /\ expired = [c \in Calls |-> FALSE]
    /\ pc = "idle"
    /\ call = 0
    /\ scope = {}
    /\ pending = {}
    /\ batch = {}
    /\ task = [t \in Task |-> "none"]
    /\ attempt = [t \in Task |-> 0]
    /\ latest = [t \in Task |-> NoResult]
    /\ reported = [t \in Task |-> <<>>]
    /\ abandoned = FALSE
    /\ detached = {}
    /\ closer = "open"
    /\ monitor = "none"
    /\ discardLate = FALSE
    /\ transportClosed = FALSE
    /\ finalized = FALSE

Next ==
    \/ \E ts \in SUBSET Targets : Dispatch(ts)
    \/ CallerStep
    \/ \E t \in Task : TaskStep(t) \/ CallbackStep(t)
    \/ Close \/ CloserStep \/ MonitorStep
    \/ Stop \/ DeadlinePasses

Spec == Init /\ [][Next]_dispatchVars

\* Time passes and threads run; a destination need not answer, no thread of
\* the pool need get anywhere, and nobody need press stop or close.  A request
\* of the caller's own thread ends some day, as HttpExchange shows of every one
\* (EverySendEnds); in the pool not even that is needed.
Fairness ==
    /\ WF_dispatchVars(CallerStep)
    /\ WF_dispatchVars(DeadlinePasses)
    /\ WF_dispatchVars(CloserStep)
    /\ WF_dispatchVars(MonitorStep)
    /\ \A t \in Task : WF_dispatchVars(pc = "sequential" /\ TaskStep(t))
    /\ \A t \in Task : WF_dispatchVars(CallbackStep(t))

FairSpec == Spec /\ Fairness

-----------------------------------------------------------------------------
(* Properties.                                                             *)

\* Type correctness.
TypeOK ==
    /\ stop \in BOOLEAN
    /\ expired \in [Calls -> BOOLEAN]
    /\ pc \in CallerStates
    /\ call \in 0 .. MaxCalls
    /\ scope \in SUBSET Targets
    /\ pending \in SUBSET Task
    /\ batch \in SUBSET Task
    /\ task \in [Task -> TaskStates]
    /\ attempt \in [Task -> 0 .. MaxAttempts]
    /\ latest \in [Task -> Results \cup {NoResult}]
    /\ reported \in [Task -> Seq(Results)]
    /\ abandoned \in BOOLEAN
    /\ detached \in SUBSET Task
    /\ closer \in {"open", "joining", "looking", "closed"}
    /\ monitor \in {"none", "watching", "forcing", "done"}
    /\ discardLate \in BOOLEAN
    /\ transportClosed \in BOOLEAN
    /\ finalized \in BOOLEAN

InFlight == {t \in Task : task[t] = "inflight"}

\* The owned HTTP transport is closed only when no request uses it, unless the
\* clean-up timed out and was forced.
TransportOutlivesRequests == transportClosed /\ ~discardLate => InFlight = {}

\* Dispatcher implements FanOut: at most one report per destination, none while
\* a request to it is under way, none after the clean-up; no request after its
\* report or after the cutoff; nothing under way when dispatch returns; whoever
\* reports late is among the detached, which AlertService asks before it closes
\* the database.
FanPhase ==
    IF pc = "raised" THEN IF abandoned THEN "abandoned" ELSE "failed"
    ELSE IF pc = "idle" THEN "idle" ELSE "running"

FanWaiting == IF pc = "idle" THEN {} ELSE {d \in scope : reported[<<call, d>>] = <<>>}
FanAsked == {t[2] : t \in InFlight}
FanTried == {d \in scope : attempt[<<call, d>>] > 0}
FanLate == {t[2] : t \in detached}
FanCut == stop \/ (call # 0 /\ expired[call])

Fan == INSTANCE FanOut WITH
    phase <- FanPhase, waiting <- FanWaiting, asked <- FanAsked, tried <- FanTried,
    late <- FanLate, cut <- FanCut, cleaned <- finalized

ImplementsFanOut == Fan!FanOutSpec

\* A detached request gets its own answer on record, and that answer alone,
\* before the clean-up stops waiting for it.  The end of the dispatch, stop and
\* close do not discard it; only a clean-up that has timed out does
\* (_discard_detached_results), or a result_handler that raises.
LateAnswersAreRecorded ==
    [][\A t \in detached \ detached' :
          reported[t] = <<latest[t]>> \/ discardLate \/ HandlerMayFail]_dispatchVars

\* A dispatch ends, by returning or by raising.  In parallel it does although a
\* destination may never answer: the deadline and the grace period see to it.
\* One after the other it does because every request ends.
DispatchEnds ==
    pc \in CallerStates \ {"idle", "raised"} ~> pc \in {"idle", "raised"}

\* Closing an abandoned dispatcher ends in its clean-up, although a detached
\* request may never end.
CleanUpHappens == abandoned /\ closer # "open" ~> finalized

\* README.md, Runtime Flow 5: "Successful destinations are removed from the
\* pending target list" - so result_handler must have been told of every
\* success by the time dispatch returns.
SuccessIsReported ==
    pc = "idle" =>
        \A t \in Task : latest[t] = "success" => reported[t] # <<>>

=============================================================================
