--------------------------- MODULE DispatcherProofs ---------------------------
(***************************************************************************)
(* Proofs about Dispatcher, for every set of destinations, size of the     *)
(* pool, number of attempts and number of dispatches: the inductive        *)
(* invariant DispatchInv, the safety properties it contains, and that the  *)
(* threads implement the contract of the fan-out.                          *)
(***************************************************************************)
EXTENDS Dispatcher, TLAPS

-----------------------------------------------------------------------------
(* The inductive invariant.                                                *)

\* What the proofs know of a reachable state beyond its types.  A dispatch has
\* its number, and with it its deadline.
InCall == pc # "idle" => call # 0

\* A task of a dispatch to come has done nothing, one that will still send a
\* request has an attempt left, and one under way has made one.
TasksInTurn ==
    \A t \in Task :
        /\ t[1] > call => task[t] = "none" /\ reported[t] = <<>>
        /\ t[1] = call /\ task[t] # "none" => t[2] \in scope
        /\ task[t] = "none" => attempt[t] = 0
        /\ task[t] \in {"queued", "launched", "check", "preflight"}
              => attempt[t] < MaxAttempts
        /\ task[t] = "inflight" => attempt[t] > 0

\* An outcome is earned: an answer by a request, "skipped" by the cutoff; a
\* future that is done and not cancelled has one.
ResultsAreEarned ==
    \A t \in Task :
        /\ latest[t] # "refused"
        /\ latest[t] \in {"success", "permanent", "retryable"} => attempt[t] > 0
        /\ latest[t] = "skipped" => TaskCutOff(t)
        /\ IsDone(t) /\ task[t] # "cancelled" => latest[t] # NoResult

\* A request, and a task that may come to one, is of the current dispatch and
\* has not been reported.  Only a task that is cut off can be left behind: the
\* one that had been launched when its future was reported as skipped.
UnderWayIsUnreported ==
    \A t \in Task :
        LET ours == t[1] = call /\ pc # "idle" /\ reported[t] = <<>>
        IN  /\ task[t] \in {"preflight", "inflight"} => ours
            /\ task[t] \in {"queued", "launched", "check"} => ours \/ TaskCutOff(t)

\* Inside dispatch the caller knows who is left: the futures it has still to
\* hand to result_handler are unreported ones of this dispatch, nobody is in
\* two of its sets but while the cutoff sweeps, everybody unreported is in one
\* unless cut off, and so is every request.
Sweeping == {"sweep", "prune"}
AfterCutoff == {"refuse", "sweep", "prune", "classify", "drain", "drainCollect",
                "lastCollect", "detach"}

CallerKnowsWhoIsLeft ==
    pc \notin {"idle", "raised"} =>
        /\ pending \cup batch \subseteq {call} \X scope
        /\ pending \cap detached = {}
        /\ pc \notin DOMAIN Resume \cup {"classify"} => batch = {}
        /\ pc \in DOMAIN Resume \ {"sweep"} => pending \cap batch = {}
        /\ pc \in {"sweep", "classify"} => batch \subseteq pending
        /\ pc \in DOMAIN Resume => \A t \in batch : IsDone(t)
        /\ pc \in {"precheck", "refuse"} => \A t \in pending : task[t] = "none"
        /\ \A t \in pending \cup batch : task[t] # "cancelled"
        /\ \A t \in batch : reported[t] = <<>>
        /\ \A t \in pending : reported[t] = <<>> \/ (pc \in Sweeping /\ IsDone(t))
        /\ \A t \in {call} \X scope :
              reported[t] = <<>> => CutOff(call) \/ t \in pending \cup batch
        /\ pc \in AfterCutoff => CutOff(call)

\* A dispatch that detaches is abandoned, after its cutoff; its requests are
\* the detached ones, unreported until their callback has recorded them.
DetachedAreLast ==
    /\ detached # {} => pc = "detach" \/ abandoned
    /\ detached \subseteq {call} \X scope
    /\ abandoned => pc = "raised" /\ CutOff(call)
    /\ \A t \in Task :
          /\ task[t] \in {"preflight", "inflight"}
                => t \in pending \cup detached \/ (pc = "raised" /\ ~abandoned)
          /\ task[t] \in {"preflight", "inflight"} /\ abandoned => t \in detached
          /\ task[t] \in {"calling", "recording", "leaving"} => t \in detached
          /\ t \in detached /\ task[t] # "leaving" => reported[t] = <<>>
          /\ task[t] = "finalizing" => closer # "open" /\ abandoned /\ detached = {}

\* close begins when nobody is inside dispatch and nothing is queued after it;
\* the pool is joined unless a dispatch was abandoned, and only then is there a
\* monitor; the clean-up leaves no report to come, nor a thread at work.
ClosingInTurn ==
    /\ closer = "open" => ~finalized /\ monitor = "none"
    /\ closer # "open" => /\ pc \in {"idle", "raised"}
                          /\ \A t \in Task : task[t] # "queued"
    /\ closer = "joining" => ~abandoned
    /\ closer = "looking" => abandoned
    /\ monitor # "none" => abandoned
    /\ monitor = "forcing" => discardLate
    /\ transportClosed <=> finalized
    /\ finalized => /\ detached = {} \/ discardLate
                    /\ CallbacksDrained
    /\ finalized /\ ~abandoned => \A t \in Task : task[t] \notin Attached

DispatchInv ==
    /\ TypeOK
    /\ InCall
    /\ TasksInTurn
    /\ ResultsAreEarned
    /\ UnderWayIsUnreported
    /\ CallerKnowsWhoIsLeft
    /\ DetachedAreLast
    /\ ClosingInTurn


USE DEF Results, NoResult

-----------------------------------------------------------------------------
(* Lemmas about the operators.                                             *)

\* A task is a dispatch and a destination, and nothing else.
LEMMA TaskParts ==
    ASSUME NEW t \in Task
    PROVE  t[1] \in Calls /\ t[2] \in Targets /\ t = <<t[1], t[2]>>
  BY DEF Task

\* The constants.
LEMMA ConstantTypes ==
    /\ Enabled \subseteq Targets
    /\ MaxAttempts \in Nat \ {0}
    /\ MaxCalls \in Nat \ {0}
    /\ Calls \subseteq Nat \ {0}
  BY EnabledAssumption, LimitsAssumption DEF Calls

\* Where the results are collected.
LEMMA ResumeDomain ==
    DOMAIN Resume = {"collect", "sweep", "drainCollect", "lastCollect"}
  BY DEF Resume

-----------------------------------------------------------------------------
(* Types.                                                                  *)

\* What result_handler was given is a sequence of outcomes.
LEMMA ReportTypes ==
    ASSUME reported \in [Task -> Seq(Results)], NEW t \in Task, NEW res \in Results,
           Report(t, res)
    PROVE  reported' \in [Task -> Seq(Results)]
<1>1. Append(reported[t], res) \in Seq(Results)
  OBVIOUS
<1> QED
  BY <1>1 DEF Report

\* A task's thread keeps the types.
LEMMA TaskTypes ==
    ASSUME DispatchInv, NEW t \in Task, TaskStep(t)
    PROVE  TypeOK'
<1> USE DEF TypeOK, TaskStates, Attached, Settled, Callback, aroundTask, callerVars,
            closeVars, Settle
<1>a. TypeOK
  BY DEF DispatchInv
<1>b. MaxAttempts \in Nat
  BY ConstantTypes
<1>1. CASE Launch(t)
  BY <1>1, <1>a DEF Launch
<1>2. CASE Begin(t)
  BY <1>2, <1>a DEF Begin
<1>3. CASE GiveUp(t)
  BY <1>3, <1>a DEF GiveUp, CutOffResult
<1>4. CASE CallSend(t)
  BY <1>4, <1>a DEF CallSend
<1>5. CASE PreflightStops(t)
  BY <1>5, <1>a DEF PreflightStops
<1>6. CASE Request(t)
  <2>1. attempt[t] < MaxAttempts
    BY <1>6 DEF Request, DispatchInv, TasksInTurn
  <2>2. attempt[t] + 1 \in 0 .. MaxAttempts
    BY <1>a, <1>b, <2>1
  <2> QED
    BY <1>6, <1>a, <2>2 DEF Request
<1>7. ASSUME NEW res \in {"success", "permanent", "retryable"}, Answer(t, res) PROVE TypeOK'
  <2>1. task' \in [Task -> TaskStates] /\ latest' \in [Task -> Results \cup {NoResult}]
    BY <1>7, <1>a DEF Answer
  <2> QED
    BY <1>7, <1>a, <2>1 DEF Answer
<1> QED
  BY <1>1, <1>2, <1>3, <1>4, <1>5, <1>6, <1>7 DEF TaskStep

\* So does its callback, which hands on a result it has.
LEMMA CallbackTypes ==
    ASSUME DispatchInv, NEW t \in Task, CallbackStep(t)
    PROVE  TypeOK'
<1> USE DEF TypeOK, TaskStates, Attached, Settled, Callback, aroundTask, callerVars,
            closeVars, Settle, CloseAndFinalize
<1>a. TypeOK
  BY DEF DispatchInv
<1>1. CASE BeginRecording(t)
  BY <1>1, <1>a DEF BeginRecording
<1>2. CASE Record(t)
  <2>1. latest[t] \in Results
    BY <1>2, <1>a DEF Record, DispatchInv, ResultsAreEarned, IsDone
  <2>2. reported' \in [Task -> Seq(Results)]
    BY <1>2, <1>a, <2>1, ReportTypes DEF Record
  <2> QED
    BY <1>2, <1>a, <2>2 DEF Record
<1>3. CASE Leave(t)
  BY <1>3, <1>a DEF Leave
<1>4. CASE FinalizeByCallback(t)
  BY <1>4, <1>a DEF FinalizeByCallback
<1> QED
  BY <1>1, <1>2, <1>3, <1>4 DEF CallbackStep

\* What the caller has to hand on has an outcome.
LEMMA BatchHasResults ==
    ASSUME DispatchInv, pc \notin {"idle", "raised"},
           NEW t \in pending \cup batch, IsDone(t)
    PROVE  t \in Task /\ latest[t] \in Results
  BY DEF DispatchInv, TypeOK, CallerKnowsWhoIsLeft, ResultsAreEarned

\* Those still running at a moment are among the pending.
LEMMA DonePart ==
    /\ DoneOf(pending) \subseteq pending
    /\ StillPending \subseteq pending
  BY DEF DoneOf, StillPending

\* The caller keeps the types.
LEMMA CallerTypes ==
    ASSUME DispatchInv, CallerStep
    PROVE  TypeOK'
<1> USE DEF TypeOK, TaskStates, Attached, Settled, Callback, CallerStates, callerVars,
            closeVars, CallerKeeps
<1>a. TypeOK
  BY DEF DispatchInv
<1>1. CASE StartNext
  BY <1>1, <1>a DEF StartNext
<1>2. CASE FinishNext
  <2>1. PICK t \in pending : IsDone(t) /\ Report(t, latest[t]) /\ pending' = pending \ {t}
    BY <1>2 DEF FinishNext
  <2>2. reported' \in [Task -> Seq(Results)]
    BY <1>2, <1>a, <2>1, BatchHasResults, ReportTypes DEF FinishNext
  <2> QED
    BY <1>2, <1>a, <2>1, <2>2 DEF FinishNext
<1>3. CASE SequentialReturn
  BY <1>3, <1>a DEF SequentialReturn
<1>4. CASE Refuse
  BY <1>4, <1>a DEF Refuse
<1>5. CASE RefuseNext
  <2>1. PICK t \in pending : Report(t, "skipped") /\ pending' = pending \ {t}
    BY <1>5 DEF RefuseNext
  <2>2. reported' \in [Task -> Seq(Results)]
    BY <1>5, <1>a, <2>1, ReportTypes
  <2> QED
    BY <1>5, <1>a, <2>1, <2>2 DEF RefuseNext
<1>6. CASE Submit
  BY <1>6, <1>a DEF Submit
<1>7. CASE WaitReturns
  BY <1>7, <1>a, DonePart DEF WaitReturns
<1>8. CASE LoopReturn
  BY <1>8, <1>a DEF LoopReturn
<1>9. CASE CutOffSeen
  BY <1>9, <1>a, DonePart DEF CutOffSeen
<1>10. CASE Collect
  <2>1. PICK t \in batch : Report(t, latest[t]) /\ batch' = batch \ {t}
    BY <1>10 DEF Collect
  <2>2. t \in Task /\ latest[t] \in Results
    BY <1>10, BatchHasResults DEF Collect, DispatchInv, CallerKnowsWhoIsLeft, Resume
  <2>3. reported' \in [Task -> Seq(Results)]
    BY <1>a, <2>1, <2>2, ReportTypes
  <2> QED
    BY <1>10, <1>a, <2>1, <2>3 DEF Collect
<1>11. CASE Collected
  BY <1>11, <1>a DEF Collected, Resume
<1>12. CASE Prune
  BY <1>12, <1>a, DonePart DEF Prune
<1>13. CASE Classify
  <2>1. PICK t \in batch :
          /\ batch' = batch \ {t}
          /\ IF Started(t)
             THEN UNCHANGED <<pending, task, reported>>
             ELSE /\ pending' = pending \ {t}
                  /\ task' = [task EXCEPT ![t] = Cancelled(t)]
                  /\ Report(t, "skipped")
    BY <1>13 DEF Classify
  <2>2. reported' \in [Task -> Seq(Results)]
    BY <1>a, <2>1, ReportTypes
  <2>3. task' \in [Task -> TaskStates] /\ pending' \in SUBSET Task
    BY <1>a, <2>1 DEF Cancelled
  <2> QED
    BY <1>13, <1>a, <2>1, <2>2, <2>3 DEF Classify
<1>14. CASE Classified
  BY <1>14, <1>a DEF Classified
<1>15. CASE DrainReturns
  BY <1>15, <1>a, DonePart DEF DrainReturns
<1>16. CASE GraceOver
  BY <1>16, <1>a, DonePart DEF GraceOver
<1>17. CASE Detach
  <2>1. PICK t \in pending :
          /\ pending' = pending \ {t}
          /\ IF IsDone(t)
             THEN /\ Report(t, latest[t]) \/ UNCHANGED reported
                  /\ UNCHANGED detached
             ELSE /\ detached' = detached \cup {t}
                  /\ UNCHANGED reported
    BY <1>17 DEF Detach
  <2>2. reported' \in [Task -> Seq(Results)]
    BY <1>17, <1>a, <2>1, BatchHasResults, ReportTypes DEF Detach
  <2> QED
    BY <1>17, <1>a, <2>1, <2>2 DEF Detach
<1>18. CASE Abandon
  BY <1>18, <1>a DEF Abandon
<1>19. CASE HandlerFails
  <2>1. ASSUME NEW t \in Task, task' = [task EXCEPT ![t] = Cancelled(t)]
        PROVE  task' \in [Task -> TaskStates]
    BY <2>1, <1>a DEF Cancelled
  <2>2. batch \subseteq Task
    BY <1>a
  <2>3. UNCHANGED task \/ \E t \in batch : task' = [task EXCEPT ![t] = Cancelled(t)]
    BY <1>19 DEF HandlerFails
  <2>4. task' \in [Task -> TaskStates]
    <3> HIDE DEF TaskStates
    <3> QED
      BY <1>a, <2>1, <2>2, <2>3
  <2>5. /\ pc' = "raised"
        /\ UNCHANGED <<stop, expired, call, scope, pending, batch, attempt, latest, reported,
                       abandoned, detached, closer, monitor, discardLate, transportClosed,
                       finalized>>
    BY <1>19 DEF HandlerFails
  <2> QED
    BY <1>a, <2>4, <2>5
<1> QED
  BY <1>1, <1>2, <1>3, <1>4, <1>5, <1>6, <1>7, <1>8, <1>9, <1>10, <1>11, <1>12, <1>13,
     <1>14, <1>15, <1>16, <1>17, <1>18, <1>19 DEF CallerStep

\* So do a new dispatch, close, the monitor and the environment.
LEMMA RestTypes ==
    ASSUME DispatchInv,
           \/ \E ts \in SUBSET Targets : Dispatch(ts)
           \/ Close \/ CloserStep \/ MonitorStep \/ Stop \/ DeadlinePasses
    PROVE  TypeOK'
<1> USE DEF TypeOK, TaskStates, Attached, Settled, Callback, CallerStates, callerVars,
            taskVars, closeVars, CallerKeeps, CloseKeeps, EnvKeeps, CloseAndFinalize
<1>a. TypeOK
  BY DEF DispatchInv
<1>1. ASSUME NEW ts \in SUBSET Targets, Dispatch(ts) PROVE TypeOK'
  <2>1. call' \in Calls /\ scope' \in SUBSET Targets /\ pending' \in SUBSET Task
    BY <1>1 DEF Dispatch, Task
  <2>2. call' \in 0 .. MaxCalls
    BY <2>1 DEF Calls
  <2> QED
    BY <1>1, <1>a, <2>1, <2>2 DEF Dispatch
<1>2. CASE Close
  BY <1>2, <1>a DEF Close, Cancelled
<1>3. CASE CloserStep
  <2>1. CASE CloseJoined
    BY <2>1, <1>a DEF CloseJoined
  <2>2. CASE CloseUnlessDetached
    <3>1. /\ closer' = "closed"
          /\ UNCHANGED <<stop, expired, pc, call, scope, pending, batch, task, attempt,
                         latest, reported, abandoned, detached, discardLate>>
      BY <2>2 DEF CloseUnlessDetached
    <3>2. CASE detached = {}
      <4>1. monitor' = monitor /\ transportClosed' = TRUE /\ finalized' = TRUE
        BY <2>2, <3>2 DEF CloseUnlessDetached
      <4> QED
        BY <1>a, <3>1, <4>1
    <3>3. CASE detached # {}
      <4>1. monitor' = "watching" /\ UNCHANGED <<transportClosed, finalized>>
        BY <2>2, <3>3 DEF CloseUnlessDetached
      <4> QED
        BY <1>a, <3>1, <4>1
    <3> QED
      BY <3>2, <3>3
  <2> QED
    BY <1>3, <2>1, <2>2 DEF CloserStep
<1>4. CASE MonitorStep
  <2>1. CASE MonitorDone
    BY <2>1, <1>a DEF MonitorDone
  <2>2. CASE MonitorTimeout
    BY <2>2, <1>a DEF MonitorTimeout
  <2>3. CASE MonitorForce
    BY <2>3, <1>a DEF MonitorForce
  <2> QED
    BY <1>4, <2>1, <2>2, <2>3 DEF MonitorStep
<1>5. CASE Stop
  BY <1>5, <1>a DEF Stop
<1>6. CASE DeadlinePasses
  <2>1. expired' \in [Calls -> BOOLEAN]
    BY <1>6, <1>a DEF DeadlinePasses
  <2> QED
    BY <1>6, <1>a, <2>1 DEF DeadlinePasses
<1> QED
  BY <1>1, <1>2, <1>3, <1>4, <1>5, <1>6

-----------------------------------------------------------------------------
(* A task's thread, and its callback.                                      *)

\* What the inductive invariant says, for a leaf that cites it.
LEMMA DispatchParts ==
    ASSUME DispatchInv
    PROVE  /\ TypeOK /\ InCall /\ TasksInTurn /\ ResultsAreEarned
           /\ UnderWayIsUnreported /\ CallerKnowsWhoIsLeft /\ DetachedAreLast /\ ClosingInTurn
  BY DEF DispatchInv

\* No step leaves dispatch without its number.
LEMMA InCallKept ==
    ASSUME DispatchInv, Next
    PROVE  InCall'
<1> USE DEF InCall, callerVars, aroundTask, CloseKeeps, EnvKeeps
<1>1. ASSUME NEW ts \in SUBSET Targets, Dispatch(ts) PROVE InCall'
  BY <1>1, DispatchParts, ConstantTypes DEF Dispatch
<1>2. CASE CallerStep
  BY <1>2, DispatchParts, ResumeDomain DEF CallerStep, StartNext, FinishNext,
     SequentialReturn, Refuse, RefuseNext, Submit, WaitReturns, LoopReturn, CutOffSeen,
     Collect, Collected, Prune, Classify, Classified, DrainReturns, GraceOver, Detach,
     Abandon, HandlerFails
<1>3. ASSUME NEW t \in Task, TaskStep(t) \/ CallbackStep(t) PROVE InCall'
  <2>1. ASSUME NEW res \in {"success", "permanent", "retryable"}, Answer(t, res)
        PROVE  InCall'
    BY <2>1, DispatchParts DEF Answer
  <2> QED
    BY <1>3, <2>1, DispatchParts DEF TaskStep, Launch, Begin, GiveUp, CallSend,
       PreflightStops, Request, CallbackStep, BeginRecording, Record, Leave,
       FinalizeByCallback
<1>4. CASE Close \/ CloserStep \/ MonitorStep \/ Stop \/ DeadlinePasses
  BY <1>4, DispatchParts DEF Close, CloserStep, CloseJoined, CloseUnlessDetached,
     MonitorStep, MonitorDone, MonitorTimeout, MonitorForce, Stop, DeadlinePasses
<1> QED
  BY <1>1, <1>2, <1>3, <1>4 DEF Next

\* A task that may still send a request is pending, or its dispatch failed.
LEMMA UncutIsPending ==
    ASSUME DispatchInv, NEW t \in Task, ~TaskCutOff(t),
           task[t] \in {"queued", "launched", "check"}
    PROVE  t \in pending \/ (pc = "raised" /\ ~abandoned)
<1>1. /\ t[1] = call /\ pc # "idle" /\ reported[t] = <<>>
      /\ t \in {call} \X scope /\ ~CutOff(call)
  BY DispatchParts, TaskParts DEF UnderWayIsUnreported, TasksInTurn, TaskCutOff
<1>2. ~IsDone(t)
  BY DEF IsDone, Settled, Callback
<1>3. CASE pc # "raised"
  BY <1>1, <1>2, <1>3, DispatchParts DEF CallerKnowsWhoIsLeft, Resume
<1>4. CASE pc = "raised"
  BY <1>1, <1>4, DispatchParts DEF DetachedAreLast
<1> QED
  BY <1>3, <1>4

\* A task's thread changes the task alone, and never to a state before.
LEMMA TaskChangesItself ==
    ASSUME DispatchInv, NEW t \in Task, TaskStep(t)
    PROVE  /\ UNCHANGED <<aroundTask, reported, detached>>
           /\ \A u \in Task \ {t} : /\ task'[u] = task[u]
                                    /\ attempt'[u] = attempt[u]
                                    /\ latest'[u] = latest[u]
<1> USE DispatchParts DEF TypeOK
<1>1. ASSUME NEW res \in {"success", "permanent", "retryable"}, Answer(t, res)
      PROVE  /\ UNCHANGED <<aroundTask, reported, detached>>
             /\ \A u \in Task \ {t} : /\ task'[u] = task[u]
                                      /\ attempt'[u] = attempt[u]
                                      /\ latest'[u] = latest[u]
  BY <1>1 DEF Answer, Settle
<1> QED
  BY <1>1 DEF TaskStep, Launch, Begin, GiveUp, CallSend, PreflightStops, Request, Settle

\* Where a task's thread takes it.
LEMMA TaskMoves ==
    ASSUME DispatchInv, NEW t \in Task, TaskStep(t)
    PROVE  \/ /\ task[t] = "queued" /\ task'[t] = "launched"
              /\ attempt'[t] = attempt[t] /\ latest'[t] = latest[t]
           \/ /\ task[t] = "launched" /\ task'[t] = "check"
              /\ attempt'[t] = attempt[t] /\ latest'[t] = latest[t]
           \/ /\ task[t] = "check" /\ task'[t] = "preflight" /\ ~TaskCutOff(t)
              /\ attempt'[t] = attempt[t] /\ latest'[t] = latest[t]
           \/ /\ task[t] = "preflight" /\ task'[t] = "inflight" /\ ~TaskCutOff(t)
              /\ attempt'[t] = attempt[t] + 1 /\ latest'[t] = latest[t]
           \/ /\ task[t] = "inflight" /\ task'[t] = "check"
              /\ attempt'[t] = attempt[t] /\ attempt[t] < MaxAttempts
              /\ latest'[t] = "retryable"
           \/ /\ \/ task[t] \in {"check", "preflight"} /\ TaskCutOff(t)
                    /\ latest'[t] \in {latest[t], "skipped"} \ {NoResult}
                 \/ task[t] = "inflight"
                    /\ latest'[t] \in {"success", "permanent", "retryable"}
              /\ attempt'[t] = attempt[t]
              /\ task'[t] = IF t \in detached THEN "calling" ELSE "done"
<1> USE DispatchParts DEF TypeOK
<1>1. CASE Launch(t)
  BY <1>1 DEF Launch
<1>2. CASE Begin(t)
  BY <1>2 DEF Begin
<1>3. CASE GiveUp(t)
  BY <1>3 DEF GiveUp, Settle, CutOffResult
<1>4. CASE CallSend(t)
  BY <1>4 DEF CallSend
<1>5. CASE PreflightStops(t)
  BY <1>5 DEF PreflightStops, Settle
<1>6. CASE Request(t)
  BY <1>6 DEF Request
<1>7. ASSUME NEW res \in {"success", "permanent", "retryable"}, Answer(t, res)
      PROVE  \/ /\ task[t] = "inflight" /\ task'[t] = "check"
                /\ attempt'[t] = attempt[t] /\ attempt[t] < MaxAttempts
                /\ latest'[t] = "retryable"
             \/ /\ task[t] = "inflight"
                /\ latest'[t] \in {"success", "permanent", "retryable"}
                /\ attempt'[t] = attempt[t]
                /\ task'[t] = IF t \in detached THEN "calling" ELSE "done"
  BY <1>7 DEF Answer, Settle
<1> QED
  BY <1>1, <1>2, <1>3, <1>4, <1>5, <1>6, <1>7 DEF TaskStep

\* A task's thread keeps the invariant: a request is made by a task of the
\* current dispatch that nobody has reported, and only before the cutoff.
LEMMA TaskKeepsInv ==
    ASSUME DispatchInv, NEW t \in Task, TaskStep(t)
    PROVE  DispatchInv'
<1> USE DEF aroundTask, callerVars, closeVars, TypeOK
<1>a. /\ TypeOK /\ TasksInTurn /\ ResultsAreEarned /\ UnderWayIsUnreported
      /\ CallerKnowsWhoIsLeft /\ DetachedAreLast /\ ClosingInTurn
  BY DispatchParts
<1>b. /\ UNCHANGED <<aroundTask, reported, detached>>
      /\ \A u \in Task \ {t} : /\ task'[u] = task[u]
                               /\ attempt'[u] = attempt[u]
                               /\ latest'[u] = latest[u]
  BY TaskChangesItself
<1>1. TypeOK'
  BY TaskTypes
<1>2. TasksInTurn'
  <2> SUFFICES ASSUME NEW u \in Task
               PROVE  /\ u[1] > call => task'[u] = "none" /\ reported[u] = <<>>
                      /\ u[1] = call /\ task'[u] # "none" => u[2] \in scope
                      /\ task'[u] = "none" => attempt'[u] = 0
                      /\ task'[u] \in {"queued", "launched", "check", "preflight"}
                            => attempt'[u] < MaxAttempts
                      /\ task'[u] = "inflight" => attempt'[u] > 0
    BY <1>b DEF TasksInTurn
  <2>1. CASE u # t
    BY <1>a, <1>b, <2>1 DEF TasksInTurn
  <2>2. CASE u = t
    BY <1>a, <2>2, TaskMoves DEF TasksInTurn
  <2> QED
    BY <2>1, <2>2
<1>3. ResultsAreEarned'
  <2> USE DEF IsDone, Settled, Callback, TaskCutOff, CutOff
  <2> SUFFICES ASSUME NEW u \in Task
               PROVE  /\ latest'[u] # "refused"
                      /\ latest'[u] \in {"success", "permanent", "retryable"}
                            => attempt'[u] > 0
                      /\ latest'[u] = "skipped" => TaskCutOff(u)
                      /\ IsDone(u)' /\ task'[u] # "cancelled" => latest'[u] # NoResult
    BY <1>b DEF ResultsAreEarned
  <2> HIDE DEF TaskCutOff, CutOff
  <2>1. CASE u # t
    BY <1>a, <1>b, <2>1 DEF ResultsAreEarned
  <2>2. CASE u = t
    <3>1. latest'[t] # "refused" /\ (latest'[t] = "skipped" => TaskCutOff(t))
      BY <1>a, TaskMoves DEF ResultsAreEarned
    <3>2. latest'[t] \in {"success", "permanent", "retryable"} => attempt'[t] > 0
      <4>1. attempt[t] \in Nat
        BY <1>a, ConstantTypes
      <4>2. latest[t] \in {"success", "permanent", "retryable"} => attempt[t] > 0
        BY <1>a DEF ResultsAreEarned
      <4>3. task[t] = "inflight" => attempt[t] > 0
        BY <1>a DEF TasksInTurn
      <4> HIDE DEF TypeOK
      <4> QED
        BY <4>1, <4>2, <4>3, TaskMoves
    <3>3. IsDone(t)' => latest'[t] # NoResult
      BY <1>a, TaskMoves
    <3> QED
      BY <2>2, <3>1, <3>2, <3>3
  <2> QED
    BY <2>1, <2>2
<1>4. UnderWayIsUnreported'
  BY <1>a, <1>b, TaskMoves DEF UnderWayIsUnreported, TaskCutOff, CutOff
<1>5. CallerKnowsWhoIsLeft'
  <2>1. \A u \in Task : IsDone(u) => IsDone(u)'
    BY <1>b, TaskMoves DEF IsDone, Settled, Callback
  <2>2. \A u \in Task : task'[u] = "none" => task[u] = "none"
    BY <1>b, TaskMoves
  <2>3. \A u \in Task : task[u] = "none" => task'[u] = "none"
    BY <1>b, TaskMoves
  <2>4. \A u \in Task : task'[u] = "cancelled" => task[u] = "cancelled"
    BY <1>b, TaskMoves
  <2> HIDE DEF IsDone
  <2> QED
    BY <1>a, <1>b, <2>1, <2>3, <2>4 DEF CallerKnowsWhoIsLeft, CutOff
<1>6. DetachedAreLast'
  <2>1. \A u \in Task : task'[u] \in {"preflight", "inflight"} =>
             \/ task[u] \in {"preflight", "inflight"}
             \/ task[u] = "check" /\ ~TaskCutOff(u)
    BY <1>b, TaskMoves
  <2>2. ASSUME NEW u \in Task, task[u] = "check", ~TaskCutOff(u)
        PROVE  u \in pending \/ (pc = "raised" /\ ~abandoned)
    BY <1>a, <2>2, UncutIsPending
  <2>3. \A u \in Task :
            task'[u] \in {"preflight", "inflight"} => u \in pending \cup detached
                                                      \/ (pc = "raised" /\ ~abandoned)
    BY <1>a, <2>1, <2>2 DEF DetachedAreLast
  <2>4. \A u \in Task :
            task'[u] \in {"preflight", "inflight"} /\ abandoned => u \in detached
    BY <1>a, <2>1, TaskParts DEF DetachedAreLast, TaskCutOff, CutOff, UnderWayIsUnreported
  <2>5. \A u \in Task :
           /\ task'[u] \in {"calling", "recording", "leaving"} => u \in detached
           /\ u \in detached /\ task'[u] # "leaving" => reported[u] = <<>>
           /\ task'[u] = "finalizing" => closer # "open" /\ abandoned /\ detached = {}
    BY <1>a, <1>b, TaskMoves DEF DetachedAreLast
  <2> QED
    BY <1>a, <1>b, <2>3, <2>4, <2>5 DEF DetachedAreLast, CutOff
<1>7. ClosingInTurn'
  BY <1>a, <1>b, TaskMoves DEF ClosingInTurn, CallbacksDrained, Attached, Callback
<1>0. InCall'
  BY InCallKept DEF Next
<1> QED
  BY <1>0, <1>1, <1>2, <1>3, <1>4, <1>5, <1>6, <1>7 DEF DispatchInv

\* A detached task's callback keeps it: its thread is a detached one's until
\* it has recorded the result, and records only while the clean-up waits.
LEMMA CallbackKeepsInv ==
    ASSUME DispatchInv, NEW t \in Task, CallbackStep(t)
    PROVE  DispatchInv'
<1> USE DEF aroundTask, callerVars, closeVars, TypeOK
<1>a. /\ TypeOK /\ TasksInTurn /\ ResultsAreEarned /\ UnderWayIsUnreported
      /\ CallerKnowsWhoIsLeft /\ DetachedAreLast /\ ClosingInTurn
  BY DispatchParts
<1>b. TypeOK'
  BY CallbackTypes
<1>c. /\ task[t] \in Callback
      /\ task'[t] \in Callback \cup {"done"}
      /\ \A u \in Task \ {t} : task'[u] = task[u]
      /\ UNCHANGED <<stop, expired, callerVars, attempt, latest, abandoned,
                     closer, monitor, discardLate>>
  BY <1>a DEF CallbackStep, BeginRecording, Record, Leave, FinalizeByCallback, Callback
<1>d. /\ \A u \in Task \ {t} : reported'[u] = reported[u]
      /\ task[t] # "recording" => reported' = reported
  BY <1>a DEF CallbackStep, BeginRecording, Record, Leave, FinalizeByCallback, Report
<1>e. detached' = IF task[t] = "leaving" THEN detached \ {t} ELSE detached
  BY <1>a DEF CallbackStep, BeginRecording, Record, Leave, FinalizeByCallback
<1>f. task[t] \in {"calling", "recording", "leaving"} => t \in detached
  BY <1>a DEF DetachedAreLast
<1>g. t \in detached => t[1] = call /\ t[2] \in scope
  BY <1>a DEF DetachedAreLast
<1>1. TasksInTurn'
  BY <1>a, <1>c, <1>d, <1>f, <1>g, ConstantTypes DEF TasksInTurn, Callback
<1>2. ResultsAreEarned'
  <2> HIDE DEF TypeOK
  <2> QED
    BY <1>a, <1>c DEF ResultsAreEarned, IsDone, Settled, Callback, TaskCutOff, CutOff
<1>3. UnderWayIsUnreported'
  BY <1>a, <1>c, <1>d DEF UnderWayIsUnreported, TaskCutOff, CutOff, Callback
<1>4. CallerKnowsWhoIsLeft'
  <2>1. \A u \in Task : /\ IsDone(u) <=> IsDone(u)'
                        /\ task'[u] = "none" <=> task[u] = "none"
                        /\ task'[u] = "cancelled" <=> task[u] = "cancelled"
    BY <1>c DEF IsDone, Settled, Callback
  <2>2. pc \notin {"idle", "raised"} /\ task[t] = "recording" =>
            pc = "detach" /\ t \notin pending \cup batch
    BY <1>a, <1>f DEF CallerKnowsWhoIsLeft, DetachedAreLast, Resume
  <2> HIDE DEF IsDone
  <2>3. CASE task[t] # "recording"
    BY <1>a, <1>c, <1>d, <1>e, <2>1, <2>3 DEF CallerKnowsWhoIsLeft, CutOff
  <2>4. CASE task[t] = "recording" /\ pc = "detach"
    <3>1. CutOff(call) /\ CutOff(call)'
      BY <1>a, <1>c, <2>4 DEF CallerKnowsWhoIsLeft, AfterCutoff, CutOff
    <3> QED
      BY <1>a, <1>c, <1>d, <1>e, <2>1, <2>2, <2>4, <3>1
      DEF CallerKnowsWhoIsLeft, Resume, Sweeping
  <2>5. CASE pc \in {"idle", "raised"}
    BY <1>c, <2>5 DEF CallerKnowsWhoIsLeft
  <2> QED
    BY <2>2, <2>3, <2>4, <2>5
<1>5. DetachedAreLast'
  BY <1>a, <1>c, <1>d, <1>e DEF DetachedAreLast, ClosingInTurn, CutOff, Callback,
     CallbackStep, BeginRecording, Record, Leave, FinalizeByCallback
<1>6. ClosingInTurn'
  BY <1>a, <1>c, <1>f DEF ClosingInTurn, DetachedAreLast, CallbacksDrained, Attached,
     Callback, CallbackStep, BeginRecording, Record, Leave, FinalizeByCallback,
     CloseAndFinalize
<1>0. InCall'
  BY InCallKept DEF Next
<1> QED
  BY <1>0, <1>b, <1>1, <1>2, <1>3, <1>4, <1>5, <1>6 DEF DispatchInv

-----------------------------------------------------------------------------
(* The caller.                                                             *)

\* What the caller works on are futures of its dispatch.
LEMMA OwnFuture ==
    ASSUME DispatchInv, pc \notin {"idle", "raised"}, NEW t \in pending \cup batch
    PROVE  /\ t \in Task /\ t[1] = call /\ t[2] \in scope
           /\ task[t] # "cancelled"
<1>1. t \in {call} \X scope /\ t \in Task /\ task[t] # "cancelled"
  BY DispatchParts DEF CallerKnowsWhoIsLeft, TypeOK
<1> QED
  BY <1>1

\* The caller begins a task, queues it or cancels it, each from the one state
\* and for a task it still has.
LEMMA CallerChangesTasks ==
    ASSUME DispatchInv, CallerStep, NEW u \in Task
    PROVE  /\ CallerKeeps
           /\ call' = call /\ scope' = scope
           /\ \/ task'[u] = task[u]
              \/ /\ task[u] = "none" /\ u \in pending
                 /\ \/ task'[u] = "check" /\ pc = "sequential"
                    \/ task'[u] = "queued" /\ pc = "precheck" /\ ~CutOff(call)
                 /\ UNCHANGED <<pending, reported>>
              \/ /\ task[u] = "queued" /\ task'[u] = "cancelled" /\ u \in batch
                 /\ pc = "classify"
                 /\ u \notin pending' \/ pc' = "raised"
<1> USE DEF TypeOK, callerVars
<1>a. TypeOK /\ CallerKnowsWhoIsLeft
  BY DispatchParts
<1>1. CASE StartNext
  BY <1>1, <1>a DEF StartNext
<1>2. CASE Submit
  BY <1>2, <1>a DEF Submit, CallerKnowsWhoIsLeft
<1>3. CASE Classify
  BY <1>3, <1>a DEF Classify, Started, Cancelled
<1>4. CASE HandlerFails
  BY <1>4, <1>a DEF HandlerFails, Started, Cancelled
<1>5. ASSUME ~StartNext, ~Submit, ~Classify, ~HandlerFails
      PROVE  CallerKeeps /\ call' = call /\ scope' = scope /\ task' = task
  BY <1>5 DEF CallerStep, FinishNext, SequentialReturn, Refuse, RefuseNext, WaitReturns,
     LoopReturn, CutOffSeen, Collect, Collected, Prune, Classified, DrainReturns,
     GraceOver, Detach, Abandon
<1> QED
  BY <1>1, <1>2, <1>3, <1>4, <1>5

\* The first result of a task.
LEMMA ReportFirst ==
    ASSUME NEW t \in Task, NEW res \in Results, reported \in [Task -> Seq(Results)],
           reported[t] = <<>>, Report(t, res)
    PROVE  reported' = [reported EXCEPT ![t] = <<res>>]
<1>1. Append(<<>>, res) = <<res>>
  OBVIOUS
<1> QED
  BY <1>1 DEF Report

\* Nobody is detached while the caller is inside dispatch, but at the end.
LEMMA NobodyDetachedYet ==
    ASSUME DispatchInv, pc \notin {"raised", "detach"}
    PROVE  detached = {} /\ ~abandoned
  BY DispatchParts DEF DetachedAreLast

\* What the caller reports it still had and had not reported: the outcome of a
\* task that is done, or "skipped" for one that was cut off before it began.
\* It does not keep it, but in the sweep, which prunes what is done.
ReportsIts(t, res) ==
    /\ pc \notin {"idle", "raised"} /\ pc' # "raised"
    /\ reported[t] = <<>>
    /\ reported' = [reported EXCEPT ![t] = <<res>>]
    /\ \/ IsDone(t) /\ res = latest[t]
       \/ /\ res = "skipped" /\ CutOff(call)
          /\ task[t] \in {"none", "queued", "launched"}
    /\ t \notin batch'
    /\ t \notin pending' \/ (pc = "sweep" /\ pc' = "sweep" /\ IsDone(t))
    /\ t \notin detached'

\* The caller reports at most one result in a step, and only such a one.
LEMMA CallerReportsOnce ==
    ASSUME DispatchInv, CallerStep, reported' # reported
    PROVE  \E t \in pending \cup batch, res \in Results : ReportsIts(t, res)
<1>a. TypeOK /\ CallerKnowsWhoIsLeft
  BY DispatchParts
<1>b. reported \in [Task -> Seq(Results)]
  BY <1>a DEF TypeOK
<1>1. CASE FinishNext
  <2>1. PICK t \in pending : IsDone(t) /\ Report(t, latest[t]) /\ pending' = pending \ {t}
    BY <1>1 DEF FinishNext
  <2>2. /\ t \in Task /\ latest[t] \in Results /\ reported[t] = <<>> /\ t \notin batch
        /\ detached = {}
    BY <1>1, <1>a, <2>1, BatchHasResults, NobodyDetachedYet
    DEF FinishNext, CallerKnowsWhoIsLeft, Resume, Sweeping
  <2> QED
    BY <1>1, <1>b, <2>1, <2>2, ReportFirst DEF FinishNext, ReportsIts
<1>2. CASE RefuseNext
  <2>1. PICK t \in pending : /\ Report(t, "skipped") /\ pending' = pending \ {t}
                             /\ pc' # "raised"
    BY <1>2 DEF RefuseNext
  <2>2. /\ t \in Task /\ task[t] = "none" /\ reported[t] = <<>> /\ t \notin batch
        /\ detached = {} /\ CutOff(call)
    BY <1>2, <1>a, OwnFuture, NobodyDetachedYet
    DEF RefuseNext, CallerKnowsWhoIsLeft, Resume, Sweeping, AfterCutoff
  <2>3. reported' = [reported EXCEPT ![t] = <<"skipped">>]
    BY <1>b, <2>1, <2>2, ReportFirst
  <2>4. ReportsIts(t, "skipped")
    BY <1>2, <2>1, <2>2, <2>3 DEF RefuseNext, ReportsIts
  <2> QED
    BY <2>4
<1>3. CASE Collect
  <2>1. PICK t \in batch : Report(t, latest[t]) /\ batch' = batch \ {t}
    BY <1>3 DEF Collect
  <2>2. /\ t \in Task /\ IsDone(t) /\ latest[t] \in Results /\ reported[t] = <<>>
        /\ t \notin pending \/ pc = "sweep"
        /\ detached = {}
    BY <1>3, <1>a, BatchHasResults, NobodyDetachedYet
    DEF Collect, CallerKnowsWhoIsLeft, Resume
  <2> QED
    BY <1>3, <1>b, <2>1, <2>2, ReportFirst DEF Collect, Resume, ReportsIts
<1>4. CASE Classify
  <2>1. PICK t \in batch :
          /\ batch' = batch \ {t}
          /\ ~Started(t)
          /\ pending' = pending \ {t}
          /\ Report(t, "skipped")
    BY <1>4 DEF Classify
  <2>2. /\ t \in Task /\ reported[t] = <<>> /\ CutOff(call) /\ detached = {}
    BY <1>4, <1>a, OwnFuture, NobodyDetachedYet
    DEF Classify, CallerKnowsWhoIsLeft, AfterCutoff
  <2>3. task[t] \in {"none", "queued", "launched"}
    BY <2>1 DEF Started
  <2>4. reported' = [reported EXCEPT ![t] = <<"skipped">>]
    BY <1>b, <2>1, <2>2, ReportFirst
  <2>5. ReportsIts(t, "skipped")
    BY <1>4, <2>1, <2>2, <2>3, <2>4 DEF Classify, ReportsIts
  <2> QED
    BY <2>5
<1>5. CASE Detach
  <2>1. PICK t \in pending :
          /\ pending' = pending \ {t}
          /\ IsDone(t)
          /\ Report(t, latest[t])
          /\ UNCHANGED detached
    BY <1>5 DEF Detach
  <2>2. /\ t \in Task /\ latest[t] \in Results /\ reported[t] = <<>> /\ t \notin batch
        /\ t \notin detached
    BY <1>5, <1>a, <2>1, BatchHasResults DEF Detach, CallerKnowsWhoIsLeft, Resume, Sweeping
  <2> QED
    BY <1>5, <1>b, <2>1, <2>2, ReportFirst DEF Detach, ReportsIts
<1>6. ASSUME ~FinishNext, ~RefuseNext, ~Collect, ~Classify, ~Detach
      PROVE  reported' = reported
  BY <1>6 DEF CallerStep, StartNext, SequentialReturn, Refuse, Submit, WaitReturns,
     LoopReturn, CutOffSeen, Collected, Prune, Classified, DrainReturns, GraceOver,
     Abandon, HandlerFails
<1> QED
  BY <1>1, <1>2, <1>3, <1>4, <1>5, <1>6

\* What the caller does to one task, and to what was reported of it.
LEMMA CallerOnTask ==
    ASSUME DispatchInv, CallerStep, NEW u \in Task
    PROVE  /\ call' = call /\ scope' = scope /\ CallerKeeps
           /\ reported'[u] = reported[u] \/
                 (u[1] = call /\ u[2] \in scope /\ task[u] \notin {"preflight", "inflight"}
                  /\ (IsDone(u) \/ CutOff(call)))
<1>1. ASSUME NEW t \in pending \cup batch, NEW res \in Results, ReportsIts(t, res)
      PROVE  reported'[u] = reported[u] \/
                 (u[1] = call /\ u[2] \in scope /\ task[u] \notin {"preflight", "inflight"}
                  /\ (IsDone(u) \/ CutOff(call)))
  BY <1>1, OwnFuture, DispatchParts DEF ReportsIts, IsDone, Settled, Callback, TypeOK
<1> QED
  BY <1>1, CallerChangesTasks, CallerReportsOnce

\* The caller keeps TasksInTurn and ResultsAreEarned: it begins tasks and
\* cancels them, and their requests and outcomes are the threads'.
LEMMA CallerKeepsTurn ==
    ASSUME DispatchInv, CallerStep
    PROVE  TasksInTurn' /\ ResultsAreEarned'
<1> USE DEF CallerKeeps
<1>a. TasksInTurn /\ ResultsAreEarned /\ TypeOK
  BY DispatchParts
<1>1. TasksInTurn'
  <2> SUFFICES ASSUME NEW u \in Task
               PROVE  /\ u[1] > call' => task'[u] = "none" /\ reported'[u] = <<>>
                      /\ u[1] = call' /\ task'[u] # "none" => u[2] \in scope'
                      /\ task'[u] = "none" => attempt'[u] = 0
                      /\ task'[u] \in {"queued", "launched", "check", "preflight"}
                            => attempt'[u] < MaxAttempts
                      /\ task'[u] = "inflight" => attempt'[u] > 0
    BY DEF TasksInTurn
  <2>1. u \in pending => pc \in {"idle", "raised"} \/ (u[1] = call /\ u[2] \in scope)
    BY OwnFuture
  <2>2. u[1] > call => u[1] # call
    BY <1>a, TaskParts, ConstantTypes DEF TypeOK
  <2> QED
    BY <1>a, <2>1, <2>2, CallerOnTask, CallerChangesTasks, ConstantTypes DEF TasksInTurn
<1>2. ResultsAreEarned'
  <2> SUFFICES ASSUME NEW u \in Task
               PROVE  /\ latest'[u] # "refused"
                      /\ latest'[u] \in {"success", "permanent", "retryable"}
                            => attempt'[u] > 0
                      /\ latest'[u] = "skipped" => TaskCutOff(u)'
                      /\ IsDone(u)' /\ task'[u] # "cancelled" => latest'[u] # NoResult
    BY DEF ResultsAreEarned
  <2>1. IsDone(u)' /\ task'[u] # "cancelled" => IsDone(u) /\ task[u] # "cancelled"
    BY CallerChangesTasks DEF IsDone, Settled, Callback
  <2>2. TaskCutOff(u) => TaskCutOff(u)'
    BY CallerOnTask DEF TaskCutOff, CutOff
  <2> QED
    BY <1>a, <2>1, <2>2, CallerOnTask DEF ResultsAreEarned
<1> QED
  BY <1>1, <1>2

\* dispatch returns when nobody is left or after the cutoff, and then nobody
\* has a request under way.
LEMMA CallerReturns ==
    ASSUME DispatchInv, CallerStep, pc' = "idle"
    PROVE  /\ pc # "idle" /\ pc # "raised" /\ pending' = {} /\ detached = {} /\ ~abandoned
           /\ closer = "open"
           /\ \A u \in Task : task[u] \notin {"preflight", "inflight"}
           /\ \A u \in {call} \X scope : reported[u] = <<>> => CutOff(call)
<1>a. /\ TypeOK /\ CallerKnowsWhoIsLeft /\ DetachedAreLast /\ ClosingInTurn
  BY DispatchParts
<1>1. /\ pc \in {"sequential", "refuse", "loop", "lastCollect", "classify"}
      /\ pending' = {}
      /\ pc = "refuse" \/ pending = {}
  <2>1. CASE Collected
    BY <2>1 DEF Collected, Resume
  <2>2. ASSUME ~Collected, ~SequentialReturn, ~RefuseNext, ~LoopReturn, ~Classified
        PROVE  FALSE
    <3>1. ~StartNext /\ ~FinishNext /\ ~Collect
      BY ResumeDomain DEF StartNext, FinishNext, Collect, callerVars
    <3> QED
      BY <2>2, <3>1 DEF CallerStep, Refuse, Submit, WaitReturns, CutOffSeen, Prune,
         Classify, DrainReturns, GraceOver, Detach, Abandon, HandlerFails
  <2>3. CASE SequentialReturn \/ RefuseNext \/ LoopReturn \/ Classified
    BY <2>3 DEF SequentialReturn, RefuseNext, LoopReturn, Classified
  <2> QED
    BY <2>1, <2>2, <2>3
<1>2. detached = {} /\ ~abandoned /\ closer = "open"
  BY <1>1, <1>a, NobodyDetachedYet DEF ClosingInTurn
<1>3. \A u \in Task : task[u] \notin {"preflight", "inflight"}
  BY <1>1, <1>2, <1>a DEF DetachedAreLast, CallerKnowsWhoIsLeft
<1>4. \A u \in {call} \X scope : reported[u] = <<>> => CutOff(call)
  BY <1>1, <1>a DEF CallerKnowsWhoIsLeft, AfterCutoff, Resume
<1> QED
  BY <1>1, <1>2, <1>3, <1>4

\* The caller keeps UnderWayIsUnreported.
LEMMA CallerKeepsUnderWay ==
    ASSUME DispatchInv, CallerStep
    PROVE  UnderWayIsUnreported'
<1> USE DEF CallerKeeps
<1>a. TypeOK /\ UnderWayIsUnreported /\ TasksInTurn /\ CallerKnowsWhoIsLeft
  BY DispatchParts
<1> SUFFICES ASSUME NEW u \in Task
             PROVE  LET ours == u[1] = call /\ pc' # "idle" /\ reported'[u] = <<>>
                    IN  /\ task'[u] \in {"preflight", "inflight"} => ours
                        /\ task'[u] \in {"queued", "launched", "check"}
                              => ours \/ TaskCutOff(u)
  BY CallerOnTask DEF UnderWayIsUnreported, TaskCutOff, CutOff
<1>1. CASE task'[u] \in {"preflight", "inflight"}
  <2>1. task[u] = task'[u]
    BY <1>1, CallerChangesTasks
  <2> QED
    BY <1>a, <1>1, <2>1, CallerOnTask, CallerReturns DEF UnderWayIsUnreported
<1>2. CASE task'[u] \in {"queued", "launched", "check"} /\ task'[u] = task[u]
  <2>1. ~IsDone(u)
    BY <1>2 DEF IsDone, Settled, Callback
  <2>2. CASE pc' = "idle"
    BY <1>a, <1>2, <2>2, CallerReturns, TaskParts
    DEF UnderWayIsUnreported, TasksInTurn, TaskCutOff
  <2>3. CASE pc' # "idle"
    BY <1>a, <1>2, <2>1, <2>3, CallerOnTask DEF UnderWayIsUnreported, TaskCutOff
  <2> QED
    BY <2>2, <2>3
<1>3. CASE task'[u] \in {"queued", "check"} /\ task[u] = "none"
  <2>1. u \in pending /\ pc \in {"sequential", "precheck"} /\ UNCHANGED <<pending, reported>>
    BY <1>3, CallerChangesTasks
  <2>2. u[1] = call /\ reported[u] = <<>>
    BY <1>a, <2>1, OwnFuture DEF CallerKnowsWhoIsLeft, Sweeping
  <2>3. pc' # "idle"
    BY <2>1, CallerReturns
  <2> QED
    BY <1>3, <2>1, <2>2, <2>3
<1> QED
  BY <1>1, <1>2, <1>3, CallerChangesTasks

\* The caller sets no stop event and no clock.
LEMMA CallerCuts ==
    ASSUME DispatchInv, CallerStep
    PROVE  /\ UNCHANGED <<call, scope, stop, expired, attempt, latest, closeVars>>
           /\ CutOff(call)' <=> CutOff(call)
<1>1. UNCHANGED <<call, scope, stop, expired, attempt, latest, closeVars>>
  BY ResumeDomain DEF CallerStep, StartNext, FinishNext, SequentialReturn, Refuse,
     RefuseNext, Submit, WaitReturns, LoopReturn, CutOffSeen, Collect, Collected, Prune,
     Classify, Classified, DrainReturns, GraceOver, Detach, Abandon, HandlerFails,
     CallerKeeps, callerVars
<1> QED
  BY <1>1 DEF CutOff

\* The caller keeps CallerKnowsWhoIsLeft.
LEMMA CallerKeepsKnowing ==
    ASSUME DispatchInv, CallerStep
    PROVE  CallerKnowsWhoIsLeft'
<1> USE ResumeDomain DEF TypeOK, Settled, Callback, CallerKeeps, closeVars, callerVars
<1>a. TypeOK /\ CallerKnowsWhoIsLeft
  BY DispatchParts
<1>b. \A u \in Task : IsDone(u) => IsDone(u)'
  BY CallerChangesTasks DEF IsDone
<1>c. CutOff(call)' <=> CutOff(call)
  BY CallerCuts
<1> HIDE DEF Settled, Callback
<1> USE DEF CallerKnowsWhoIsLeft, Sweeping, AfterCutoff
<1>1. CASE StartNext
  BY <1>1, <1>a, <1>b, <1>c DEF StartNext
<1>2. CASE FinishNext
  <2>1. PICK t \in pending : IsDone(t) /\ Report(t, latest[t]) /\ pending' = pending \ {t}
    BY <1>2 DEF FinishNext
  <2>2. reported' = [reported EXCEPT ![t] = <<latest[t]>>]
    <3>1. t \in Task /\ latest[t] \in Results /\ reported[t] = <<>>
      BY <1>2, <1>a, <2>1, BatchHasResults DEF FinishNext
    <3> QED
      BY <1>a, <2>1, <3>1, ReportFirst
  <2> QED
    BY <1>2, <1>a, <1>b, <1>c, <2>1, <2>2 DEF FinishNext
<1>3. CASE SequentialReturn
  BY <1>3, <1>a, <1>b, <1>c DEF SequentialReturn
<1>4. CASE Refuse
  BY <1>4, <1>a, <1>b, <1>c DEF Refuse
<1>5. CASE RefuseNext
  BY <1>5, <1>a, <1>b, <1>c DEF RefuseNext, Report
<1>6. CASE Submit
  BY <1>6, <1>a, <1>b, <1>c DEF Submit
<1>7. CASE WaitReturns
  BY <1>7, <1>a, <1>b, <1>c DEF WaitReturns, DoneOf
<1>8. CASE LoopReturn
  BY <1>8, <1>a, <1>b, <1>c DEF LoopReturn
<1>9. CASE CutOffSeen
  BY <1>9, <1>a, <1>b, <1>c DEF CutOffSeen, DoneOf
<1>10. CASE Collect
  <2>1. PICK t \in batch : Report(t, latest[t]) /\ batch' = batch \ {t}
    BY <1>10 DEF Collect
  <2>2. reported' = [reported EXCEPT ![t] = <<latest[t]>>]
    <3>1. t \in Task /\ latest[t] \in Results /\ reported[t] = <<>>
      BY <1>10, <1>a, BatchHasResults DEF Collect
    <3> QED
      BY <1>a, <2>1, <3>1, ReportFirst
  <2> QED
    BY <1>10, <1>a, <1>b, <1>c, <2>1, <2>2 DEF Collect
<1>11. CASE Collected
  BY <1>11, <1>a, <1>b, <1>c DEF Collected, Resume
<1>12. CASE Prune
  BY <1>12, <1>a, <1>b, <1>c DEF Prune, StillPending
<1>13. CASE Classify
  BY <1>13, <1>a, <1>b, <1>c DEF Classify, Started, Cancelled, Report
<1>14. CASE Classified
  BY <1>14, <1>a, <1>b, <1>c DEF Classified
<1>15. CASE DrainReturns
  BY <1>15, <1>a, <1>b, <1>c DEF DrainReturns, DoneOf
<1>16. CASE GraceOver
  BY <1>16, <1>a, <1>b, <1>c DEF GraceOver, DoneOf
<1>17. CASE Detach
  BY <1>17, <1>a, <1>b, <1>c DEF Detach, Report
<1>18. CASE Abandon
  BY <1>18, <1>a, <1>b, <1>c DEF Abandon
<1>19. CASE HandlerFails
  BY <1>19 DEF HandlerFails
<1> QED
  BY <1>1, <1>2, <1>3, <1>4, <1>5, <1>6, <1>7, <1>8, <1>9, <1>10, <1>11, <1>12, <1>13,
     <1>14, <1>15, <1>16, <1>17, <1>18, <1>19 DEF CallerStep

\* The caller detaches after the cutoff only, what it had and was running.
LEMMA CallerDetaches ==
    ASSUME DispatchInv, CallerStep
    PROVE  \/ /\ detached' = detached /\ abandoned' = abandoned
              /\ pc = "detach" => pc' = "detach"
           \/ /\ pc = "detach" /\ pc' = "detach" /\ abandoned' = abandoned
              /\ \E t \in pending : /\ detached' = detached \cup {t}
                                    /\ pending' = pending \ {t}
                                    /\ ~IsDone(t)
                                    /\ reported' = reported /\ task' = task
           \/ /\ pc = "detach" /\ pc' = "raised" /\ pending = {}
              /\ abandoned' = TRUE
              /\ detached' = detached /\ reported' = reported /\ task' = task
<1>1. CASE Detach
  BY <1>1 DEF Detach
<1>2. CASE Abandon
  BY <1>2 DEF Abandon
<1>3. ASSUME ~Detach, ~Abandon
      PROVE  detached' = detached /\ abandoned' = abandoned /\ pc # "detach"
  BY <1>3, ResumeDomain DEF CallerStep, StartNext, FinishNext, SequentialReturn, Refuse, RefuseNext,
     Submit, WaitReturns, LoopReturn, CutOffSeen, Collect, Collected, Prune, Classify,
     Classified, DrainReturns, GraceOver, HandlerFails
<1> QED
  BY <1>1, <1>2, <1>3

\* A request stays with the caller until it is over or detached, unless
\* result_handler raised.
LEMMA CallerKeepsRequests ==
    ASSUME DispatchInv, CallerStep, NEW u \in pending, ~IsDone(u), Started(u), u \in Task
    PROVE  u \in pending' \cup detached' \/ (pc' = "raised" /\ abandoned' = abandoned)
<1>1. CASE HandlerFails
  BY <1>1 DEF HandlerFails
<1>2. CASE RefuseNext
  BY <1>2, DispatchParts DEF RefuseNext, CallerKnowsWhoIsLeft, Started
<1>3. ASSUME ~HandlerFails, ~RefuseNext
      PROVE  u \in pending' \cup detached'
  BY <1>3 DEF CallerStep, StartNext, FinishNext, SequentialReturn, Refuse,
     Submit, WaitReturns, LoopReturn, CutOffSeen, Collect, Collected, Prune, Classify,
     Classified, DrainReturns, GraceOver, Detach, Abandon, DoneOf, StillPending, callerVars
<1> QED
  BY <1>1, <1>2, <1>3

\* The caller keeps DetachedAreLast and ClosingInTurn.
LEMMA CallerKeepsDetached ==
    ASSUME DispatchInv, CallerStep
    PROVE  DetachedAreLast' /\ ClosingInTurn'
<1> USE DEF closeVars
<1>a. TypeOK /\ CallerKnowsWhoIsLeft /\ DetachedAreLast /\ ClosingInTurn
  BY DispatchParts
<1>b. pc \notin {"idle", "raised"} /\ closer = "open" /\ ~abandoned
  <2>1. pc \notin {"idle", "raised"}
    BY ResumeDomain DEF CallerStep, StartNext, FinishNext, SequentialReturn, Refuse,
       RefuseNext, Submit, WaitReturns, LoopReturn, CutOffSeen, Collect, Collected, Prune,
       Classify, Classified, DrainReturns, GraceOver, Detach, Abandon, HandlerFails
  <2> QED
    BY <1>a, <2>1 DEF DetachedAreLast, ClosingInTurn
<1>1. ClosingInTurn'
  BY <1>a, <1>b, CallerCuts DEF ClosingInTurn
<1>2. DetachedAreLast'
  <2>1. (detached' # {} => pc' = "detach" \/ abandoned')
        /\ (abandoned' => pc' = "raised" /\ CutOff(call)')
    <3>1. CASE detached' = detached /\ abandoned' = abandoned /\ (pc = "detach" => pc' = "detach")
      BY <1>a, <1>b, <3>1 DEF DetachedAreLast
    <3>2. CASE pc' = "detach" /\ abandoned' = abandoned
      BY <1>b, <3>2
    <3>3. CASE pc = "detach" /\ pc' = "raised" /\ abandoned' = TRUE
      <4>1. CutOff(call)'
        BY <1>a, <3>3, CallerCuts DEF CallerKnowsWhoIsLeft, AfterCutoff
      <4> QED
        BY <3>3, <4>1
    <3> QED
      BY <3>1, <3>2, <3>3, CallerDetaches
  <2>2. detached' \subseteq {call'} \X scope'
    BY <1>a, <1>b, CallerDetaches, CallerCuts DEF DetachedAreLast, CallerKnowsWhoIsLeft
  <2>3. ASSUME NEW u \in Task, task'[u] \in {"preflight", "inflight"}
        PROVE  /\ u \in pending' \cup detached' \/ (pc' = "raised" /\ ~abandoned')
               /\ abandoned' => u \in detached'
    <3>1. task[u] = task'[u] /\ ~IsDone(u) /\ Started(u)
      BY <2>3, CallerChangesTasks DEF IsDone, Settled, Callback, Started
    <3>2. u \in pending \cup detached
      BY <1>a, <1>b, <2>3, <3>1 DEF DetachedAreLast
    <3>3. u \in detached => u \in detached'
      BY CallerDetaches
    <3>4. u \in pending =>
             u \in pending' \cup detached' \/ (pc' = "raised" /\ ~abandoned')
      BY <1>b, <3>1, CallerKeepsRequests
    <3>5. abandoned' => u \in detached'
      BY <1>b, <3>2, <3>3, CallerDetaches
    <3> QED
      BY <3>2, <3>3, <3>4, <3>5
  <2>4. ASSUME NEW u \in Task
        PROVE  /\ task'[u] \in {"calling", "recording", "leaving"} => u \in detached'
               /\ task'[u] # "finalizing"
    BY <1>a, <1>b, CallerChangesTasks, CallerDetaches DEF DetachedAreLast
  <2>5. ASSUME NEW u \in Task, u \in detached', task'[u] # "leaving"
        PROVE  reported'[u] = <<>>
    BY <1>a, <1>b, <2>5, CallerChangesTasks, CallerDetaches, CallerReportsOnce
    DEF DetachedAreLast, CallerKnowsWhoIsLeft, Sweeping, ReportsIts, TypeOK
  <2> QED
    BY <2>1, <2>2, <2>3, <2>4, <2>5 DEF DetachedAreLast
<1> QED
  BY <1>1, <1>2

\* The caller keeps the invariant: it hands each result on once, gives up who
\* is left after the cutoff only, and loses no request.
LEMMA CallerKeepsInv ==
    ASSUME DispatchInv, CallerStep
    PROVE  DispatchInv'
  BY CallerTypes, CallerKeepsTurn, CallerKeepsUnderWay, CallerKeepsKnowing,
     CallerKeepsDetached, InCallKept DEF DispatchInv, Next

-----------------------------------------------------------------------------
(* A new dispatch, close, the monitor and the environment.                 *)

\* A new dispatch starts from nothing: its tasks are untouched, and of the
\* dispatches before it no request is under way.
LEMMA DispatchKeepsInv ==
    ASSUME DispatchInv, NEW ts \in SUBSET Targets, Dispatch(ts)
    PROVE  DispatchInv'
<1> USE DEF Dispatch, CallerKeeps, closeVars
<1>a. /\ TypeOK /\ TasksInTurn /\ ResultsAreEarned /\ UnderWayIsUnreported
      /\ CallerKnowsWhoIsLeft /\ DetachedAreLast /\ ClosingInTurn
  BY DispatchParts
<1>b. detached = {} /\ ~abandoned /\ pc = "idle" /\ call' = call + 1 /\ call \in Nat
  BY <1>a, NobodyDetachedYet, ConstantTypes DEF TypeOK
<1>c. UNCHANGED <<task, attempt, latest, reported, stop, expired, detached, closer>>
  OBVIOUS
<1>d. \A u \in Task : u[1] = call' => task[u] = "none" /\ reported[u] = <<>> /\ attempt[u] = 0
  BY <1>a, <1>b, TaskParts, ConstantTypes DEF TasksInTurn
<1>e. pending' = {call'} \X scope' /\ batch' = {} /\ pc' \in {"sequential", "precheck"}
  OBVIOUS
<1>1. TypeOK'
  BY RestTypes
<1>2. TasksInTurn'
  <2>1. \A u \in Task : u[1] > call' => u[1] > call
    BY <1>b, TaskParts, ConstantTypes
  <2> QED
    BY <1>a, <1>b, <1>c, <1>d, <2>1 DEF TasksInTurn
<1>3. ResultsAreEarned'
  BY <1>a, <1>c DEF ResultsAreEarned, IsDone, TaskCutOff, CutOff
<1>4. UnderWayIsUnreported'
  BY <1>a, <1>b, <1>c, <1>e DEF UnderWayIsUnreported, TaskCutOff, CutOff
<1>5. CallerKnowsWhoIsLeft'
  <2>1. pending' \subseteq Task
    BY <1>1 DEF TypeOK
  <2> QED
    BY <1>b, <1>c, <1>d, <1>e, <2>1, ResumeDomain DEF CallerKnowsWhoIsLeft, AfterCutoff
<1>6. DetachedAreLast'
  BY <1>a, <1>b, <1>c, <1>e DEF DetachedAreLast, UnderWayIsUnreported
<1>7. ClosingInTurn'
  BY <1>a, <1>b, <1>c DEF ClosingInTurn
<1>0. InCall'
  BY InCallKept DEF Next
<1> QED
  BY <1>0, <1>1, <1>2, <1>3, <1>4, <1>5, <1>6, <1>7 DEF DispatchInv

\* close keeps the invariant.  It begins outside dispatch, and cancels what is
\* queued; joining waits for the threads, looking for the detached.
LEMMA CloseKeepsInv ==
    ASSUME DispatchInv, Close \/ CloserStep
    PROVE  DispatchInv'
<1> USE DEF callerVars, taskVars, CloseKeeps, CloseAndFinalize
<1>a. /\ TypeOK /\ TasksInTurn /\ ResultsAreEarned /\ UnderWayIsUnreported
      /\ CallerKnowsWhoIsLeft /\ DetachedAreLast /\ ClosingInTurn
  BY DispatchParts
<1>b. TypeOK'
  BY RestTypes
<1>c. /\ UNCHANGED <<stop, expired, pc, call, scope, pending, batch, attempt, latest,
                     reported, abandoned, detached>>
      /\ \A u \in Task : \/ task'[u] = task[u]
                         \/ task[u] = "queued" /\ task'[u] = "cancelled"
      /\ pc \in {"idle", "raised"}
  BY <1>a DEF Close, CloserStep, CloseJoined, CloseUnlessDetached, Cancelled, ClosingInTurn,
     TypeOK
<1>1. TasksInTurn'
  BY <1>a, <1>c DEF TasksInTurn
<1>2. ResultsAreEarned'
  BY <1>a, <1>c DEF ResultsAreEarned, IsDone, Settled, Callback, TaskCutOff, CutOff
<1>3. UnderWayIsUnreported'
  BY <1>a, <1>c DEF UnderWayIsUnreported, TaskCutOff, CutOff
<1>4. CallerKnowsWhoIsLeft'
  BY <1>c DEF CallerKnowsWhoIsLeft
<1>5. DetachedAreLast'
  BY <1>a, <1>c DEF DetachedAreLast, CutOff, Close, CloserStep, CloseJoined,
     CloseUnlessDetached
<1>6. ClosingInTurn'
  <2>1. CASE Close
    BY <1>a, <1>c, <2>1 DEF Close, ClosingInTurn, Cancelled, TypeOK
  <2>2. CASE CloseJoined
    <3>1. \A u \in Task : task[u] \notin Attached
      BY <1>c, <2>2 DEF CloseJoined, BusyThreads, OnPool
    <3>2. detached = {} /\ ~abandoned /\ CallbacksDrained
      BY <1>a, <1>c, <2>2, <3>1 DEF CloseJoined, ClosingInTurn, DetachedAreLast, Attached,
         Callback, CallbacksDrained
    <3> QED
      BY <1>a, <1>c, <2>2, <3>1, <3>2 DEF CloseJoined, ClosingInTurn, CallbacksDrained
  <2>3. CASE CloseUnlessDetached
    BY <1>a, <1>c, <2>3 DEF CloseUnlessDetached, ClosingInTurn, DetachedAreLast,
       CallbacksDrained
  <2> QED
    BY <2>1, <2>2, <2>3 DEF CloserStep
<1>0. InCall'
  BY InCallKept DEF Next
<1> QED
  BY <1>0, <1>b, <1>1, <1>2, <1>3, <1>4, <1>5, <1>6 DEF DispatchInv

\* The monitor keeps it: it cleans up when nobody is detached, or when nobody
\* records and nobody will.
LEMMA MonitorKeepsInv ==
    ASSUME DispatchInv, MonitorStep
    PROVE  DispatchInv'
<1> USE DEF callerVars, taskVars, CloseKeeps, CloseAndFinalize
<1>a. /\ TypeOK /\ TasksInTurn /\ ResultsAreEarned /\ UnderWayIsUnreported
      /\ CallerKnowsWhoIsLeft /\ DetachedAreLast /\ ClosingInTurn
  BY DispatchParts
<1>b. UNCHANGED <<stop, expired, callerVars, taskVars, reported, abandoned, detached, closer>>
  BY DEF MonitorStep, MonitorDone, MonitorTimeout, MonitorForce
<1>1. ClosingInTurn'
  <2>1. CASE MonitorDone
    BY <1>a, <2>1 DEF MonitorDone, ClosingInTurn, DetachedAreLast, CallbacksDrained
  <2>2. CASE MonitorTimeout
    BY <1>a, <2>2 DEF MonitorTimeout, ClosingInTurn, CallbacksDrained
  <2>3. CASE MonitorForce
    BY <1>a, <2>3 DEF MonitorForce, ClosingInTurn, CallbacksDrained
  <2> QED
    BY <2>1, <2>2, <2>3 DEF MonitorStep
<1>2. TypeOK' /\ TasksInTurn' /\ ResultsAreEarned' /\ UnderWayIsUnreported'
  BY <1>a, <1>b, RestTypes DEF TasksInTurn, ResultsAreEarned, UnderWayIsUnreported,
     TaskCutOff, CutOff, IsDone
<1>3. CallerKnowsWhoIsLeft' /\ DetachedAreLast'
  BY <1>a, <1>b DEF CallerKnowsWhoIsLeft, DetachedAreLast, CutOff, IsDone
<1>0. InCall'
  BY InCallKept DEF Next
<1> QED
  BY <1>0, <1>1, <1>2, <1>3 DEF DispatchInv

\* A cutoff keeps it: nothing is promised of the time before it only.
LEMMA CutoffKeepsInv ==
    ASSUME DispatchInv, Stop \/ DeadlinePasses
    PROVE  DispatchInv'
<1> USE DEF callerVars, taskVars, closeVars, EnvKeeps
<1>a. /\ TypeOK /\ TasksInTurn /\ ResultsAreEarned /\ UnderWayIsUnreported
      /\ CallerKnowsWhoIsLeft /\ DetachedAreLast /\ ClosingInTurn
  BY DispatchParts
<1>b. /\ UNCHANGED <<pc, call, scope, pending, batch, task, attempt, latest, reported,
                     abandoned, detached, closeVars>>
      /\ \A c \in Calls : CutOff(c) => CutOff(c)'
      /\ CutOff(call) => CutOff(call)'
  BY <1>a DEF Stop, DeadlinePasses, CutOff, TypeOK
<1>1. \A u \in Task : TaskCutOff(u) => TaskCutOff(u)'
  BY <1>b, TaskParts DEF TaskCutOff
<1> HIDE DEF EnvKeeps
<1>2. TypeOK' /\ TasksInTurn' /\ ClosingInTurn'
  BY <1>a, <1>b, RestTypes DEF TasksInTurn, ClosingInTurn, CallbacksDrained
<1>3. ResultsAreEarned'
  BY <1>a, <1>b, <1>1 DEF ResultsAreEarned, IsDone
<1>4. UnderWayIsUnreported'
  BY <1>a, <1>b, <1>1 DEF UnderWayIsUnreported
<1>5. CallerKnowsWhoIsLeft' /\ DetachedAreLast'
  BY <1>a, <1>b DEF CallerKnowsWhoIsLeft, DetachedAreLast, IsDone
<1>0. InCall'
  BY InCallKept DEF Next
<1> QED
  BY <1>0, <1>2, <1>3, <1>4, <1>5 DEF DispatchInv

-----------------------------------------------------------------------------
(* The invariant and what it contains.                                     *)

\* A dispatcher that has done nothing satisfies the invariant.
LEMMA InitDispatch == Init => DispatchInv
<1> SUFFICES ASSUME Init PROVE DispatchInv
  OBVIOUS
<1> USE DEF Init
<1>1. TypeOK
  <2>1. <<>> \in Seq(Results) /\ 0 \in 0 .. MaxAttempts /\ 0 \in 0 .. MaxCalls
    BY ConstantTypes
  <2> QED
    BY <2>1 DEF TypeOK, CallerStates, TaskStates
<1>2. TasksInTurn /\ ResultsAreEarned /\ UnderWayIsUnreported
  BY DEF TasksInTurn, ResultsAreEarned, UnderWayIsUnreported, IsDone, Settled, Callback
<1>3. CallerKnowsWhoIsLeft /\ DetachedAreLast /\ ClosingInTurn
  BY DEF CallerKnowsWhoIsLeft, DetachedAreLast, ClosingInTurn, Attached, Callback
<1>0. InCall
  BY DEF InCall
<1> QED
  BY <1>0, <1>1, <1>2, <1>3 DEF DispatchInv

\* Every step keeps it.
LEMMA NextDispatch == DispatchInv /\ [Next]_dispatchVars => DispatchInv'
<1> SUFFICES ASSUME DispatchInv, [Next]_dispatchVars PROVE DispatchInv'
  OBVIOUS
<1>1. CASE Next
  BY <1>1, DispatchKeepsInv, CallerKeepsInv, TaskKeepsInv, CallbackKeepsInv, CloseKeepsInv,
     MonitorKeepsInv, CutoffKeepsInv DEF Next
<1>2. CASE UNCHANGED dispatchVars
  <2> USE <1>2 DEF dispatchVars, callerVars, taskVars, closeVars, DispatchInv
  <2>1. TypeOK' /\ InCall' /\ TasksInTurn' /\ ClosingInTurn'
    BY DEF TypeOK, InCall, TasksInTurn, ClosingInTurn, CallbacksDrained
  <2>2. ResultsAreEarned' /\ UnderWayIsUnreported'
    BY DEF ResultsAreEarned, UnderWayIsUnreported, IsDone, TaskCutOff, CutOff
  <2>3. CallerKnowsWhoIsLeft' /\ DetachedAreLast'
    BY DEF CallerKnowsWhoIsLeft, DetachedAreLast, IsDone, CutOff
  <2> QED
    BY <2>1, <2>2, <2>3
<1> QED
  BY <1>1, <1>2

\* The invariant holds in every reachable state of a dispatcher.
THEOREM DispatchInvariant == Spec => []DispatchInv
  BY InitDispatch, NextDispatch, PTL DEF Spec

\* Types: a thread makes no more requests than it has attempts, and what
\* result_handler is given are outcomes.
THEOREM DispatcherTypes == Spec => []TypeOK
<1>1. DispatchInv => TypeOK
  BY DEF DispatchInv
<1> QED
  BY <1>1, DispatchInvariant, PTL

\* The transport is closed under nobody's request, unless the clean-up was
\* forced: after a join no thread is left, and of an abandoned dispatch only
\* detached requests are, for which the clean-up waits.
THEOREM TransportIsClosedLast == Spec => []TransportOutlivesRequests
<1>1. DispatchInv => TransportOutlivesRequests
  <2> SUFFICES ASSUME DispatchInv, transportClosed, ~discardLate, NEW t \in Task,
                      task[t] = "inflight"
               PROVE  FALSE
    BY DEF TransportOutlivesRequests, InFlight
  <2>1. finalized /\ detached = {}
    BY DispatchParts DEF ClosingInTurn
  <2>2. CASE abandoned
    BY <2>1, <2>2, DispatchParts DEF DetachedAreLast
  <2>3. CASE ~abandoned
    BY <2>1, <2>3, DispatchParts DEF ClosingInTurn, Attached
  <2> QED
    BY <2>2, <2>3
<1> QED
  BY <1>1, DispatchInvariant, PTL

-----------------------------------------------------------------------------
(* The answers of detached requests.                                       *)

\* A callback that has recorded is left with its own answer, once, on record.
LeavingIsRecorded ==
    \A t \in Task : task[t] = "leaving" =>
        reported[t] = <<latest[t]>> \/ discardLate \/ HandlerMayFail

\* The callback records what nobody has reported before, and leaves without
\* that only when the clean-up discards.
LEMMA CallbackRecords ==
    ASSUME DispatchInv, LeavingIsRecorded, NEW t \in Task, CallbackStep(t)
    PROVE  LeavingIsRecorded'
<1> USE DEF aroundTask, callerVars, closeVars
<1>a. TypeOK /\ DetachedAreLast /\ ResultsAreEarned
  BY DispatchParts
<1>b. discardLate' = discardLate /\ latest' = latest
  BY DEF CallbackStep, BeginRecording, Record, Leave, FinalizeByCallback
<1>1. \A u \in Task \ {t} : task'[u] = task[u] /\ reported'[u] = reported[u]
  BY <1>a DEF CallbackStep, BeginRecording, Record, Leave, FinalizeByCallback, Report, TypeOK
<1>2. task'[t] = "leaving" => reported'[t] = <<latest[t]>> \/ discardLate \/ HandlerMayFail
  <2>1. CASE BeginRecording(t)
    BY <2>1, <1>a DEF BeginRecording, TypeOK
  <2>2. CASE Record(t)
    <3>1. reported[t] = <<>> /\ latest[t] \in Results
      BY <2>2, <1>a DEF Record, DetachedAreLast, ResultsAreEarned, IsDone, Settled, Callback,
         TypeOK
    <3>2. CASE Report(t, latest[t])
      BY <3>1, <3>2, <1>a, ReportFirst DEF TypeOK
    <3>3. CASE HandlerMayFail
      BY <3>3
    <3> QED
      BY <2>2, <3>2, <3>3 DEF Record
  <2>3. CASE Leave(t) \/ FinalizeByCallback(t)
    BY <2>3, <1>a DEF Leave, FinalizeByCallback, TypeOK
  <2> QED
    BY <2>1, <2>2, <2>3 DEF CallbackStep
<1> QED
  BY <1>1, <1>2, <1>b DEF LeavingIsRecorded

\* No task gets to its leaving in another way, and nobody adds to what was
\* recorded.
LEMMA LeavingKept ==
    ASSUME DispatchInv, LeavingIsRecorded, [Next]_dispatchVars
    PROVE  LeavingIsRecorded'
<1>a. TypeOK
  BY DispatchParts
<1>1. ASSUME NEW t \in Task, CallbackStep(t) PROVE LeavingIsRecorded'
  BY <1>1, CallbackRecords
<1>2. ASSUME NEW t \in Task, TaskStep(t) PROVE LeavingIsRecorded'
  <2>1. task'[t] # "leaving" /\ UNCHANGED <<reported, discardLate>>
    BY <1>2, TaskMoves, TaskChangesItself DEF aroundTask, closeVars
  <2>2. \A u \in Task \ {t} : task'[u] = task[u] /\ latest'[u] = latest[u]
    BY <1>2, TaskChangesItself
  <2> QED
    BY <2>1, <2>2 DEF LeavingIsRecorded
<1>3. CASE CallerStep
  <2> SUFFICES ASSUME NEW u \in Task, task'[u] = "leaving"
               PROVE  reported'[u] = <<latest'[u]>> \/ discardLate' \/ HandlerMayFail
    BY DEF LeavingIsRecorded
  <2>1. UNCHANGED <<latest, discardLate>> /\ task[u] = "leaving"
    BY <1>3, CallerChangesTasks DEF CallerKeeps, closeVars
  <2>2. ASSUME reported[u] = <<latest[u]>> PROVE reported'[u] = reported[u]
    <3>1. ASSUME NEW t \in pending \cup batch, NEW res \in Results, ReportsIts(t, res)
          PROVE  reported'[u] = reported[u]
      BY <3>1, <2>2, <1>a DEF ReportsIts, TypeOK
    <3> QED
      BY <3>1, <1>3, CallerReportsOnce
  <2> QED
    BY <2>1, <2>2 DEF LeavingIsRecorded
<1>4. ASSUME NEW ts \in SUBSET Targets, Dispatch(ts) PROVE LeavingIsRecorded'
  BY <1>4 DEF Dispatch, CallerKeeps, closeVars, LeavingIsRecorded
<1>5. CASE Close
  BY <1>5, <1>a DEF Close, Cancelled, LeavingIsRecorded
<1>6. CASE CloserStep \/ MonitorStep
  BY <1>6 DEF CloserStep, MonitorStep, CloseJoined, CloseUnlessDetached, MonitorDone,
     MonitorTimeout, MonitorForce, CloseKeeps, taskVars, LeavingIsRecorded
<1>7. CASE Stop \/ DeadlinePasses \/ UNCHANGED dispatchVars
  BY <1>7 DEF Stop, DeadlinePasses, EnvKeeps, dispatchVars, taskVars, closeVars,
     LeavingIsRecorded
<1> QED
  BY <1>1, <1>2, <1>3, <1>4, <1>5, <1>6, <1>7 DEF Next

\* Who leaves the detached requests is a callback at its end.
LEMMA LeavesAtTheEnd ==
    ASSUME DispatchInv, [Next]_dispatchVars, NEW t \in detached \ detached'
    PROVE  t \in Task /\ task[t] = "leaving"
<1>a. t \in Task
  BY DispatchParts DEF TypeOK
<1>1. ASSUME NEW u \in Task, CallbackStep(u) PROVE task[t] = "leaving"
  BY <1>1 DEF CallbackStep, BeginRecording, Record, Leave, FinalizeByCallback
<1>2. ASSUME NEW u \in Task, TaskStep(u) PROVE FALSE
  BY <1>2, TaskChangesItself
<1>3. CASE CallerStep
  BY <1>3 DEF CallerStep, StartNext, FinishNext, SequentialReturn, Refuse, RefuseNext,
     Submit, WaitReturns, LoopReturn, CutOffSeen, Collect, Collected, Prune, Classify,
     Classified, DrainReturns, GraceOver, Detach, Abandon, HandlerFails
<1>4. ASSUME NEW ts \in SUBSET Targets, Dispatch(ts) PROVE FALSE
  BY <1>4 DEF Dispatch
<1>5. CASE Close \/ CloserStep \/ MonitorStep \/ Stop \/ DeadlinePasses \/ UNCHANGED dispatchVars
  BY <1>5 DEF Close, CloserStep, MonitorStep, CloseJoined, CloseUnlessDetached, MonitorDone,
     MonitorTimeout, MonitorForce, CloseKeeps, Stop, DeadlinePasses, EnvKeeps, dispatchVars
<1> QED
  BY <1>a, <1>1, <1>2, <1>3, <1>4, <1>5 DEF Next

\* The answer of a request that outlived its dispatch is recorded, once, before
\* the clean-up stops waiting for it, unless the clean-up had timed out.
THEOREM LateAnswersArrive == Spec => LateAnswersAreRecorded
<1>1. Init => LeavingIsRecorded
  BY DEF Init, LeavingIsRecorded
<1>2. DispatchInv /\ LeavingIsRecorded /\ [Next]_dispatchVars => LeavingIsRecorded'
  BY LeavingKept
<1>3. DispatchInv /\ LeavingIsRecorded /\ [Next]_dispatchVars
          => [\A t \in detached \ detached' :
                 reported[t] = <<latest[t]>> \/ discardLate \/ HandlerMayFail]_dispatchVars
  BY LeavesAtTheEnd DEF LeavingIsRecorded
<1> QED
  BY <1>1, <1>2, <1>3, DispatchInvariant, PTL DEF Spec, LateAnswersAreRecorded

-----------------------------------------------------------------------------
(* The dispatcher implements the contract of the fan-out.                  *)

Running == pc \notin {"idle", "raised"}

\* The requests under way and the detached ones are the current dispatch's, so
\* that a destination stands for its task.
LEMMA AskedIsTask ==
    ASSUME DispatchInv
    PROVE  /\ \A t \in Task : task[t] = "inflight" => t = <<call, t[2]>> /\ t[2] \in scope
           /\ \A t \in detached : t \in Task /\ t = <<call, t[2]>> /\ t[2] \in scope
           /\ \A d : d \in FanAsked <=> <<call, d>> \in Task /\ task[<<call, d>>] = "inflight"
           /\ \A d : d \in FanLate <=> <<call, d>> \in detached
           /\ \A t \in Task : FanCut /\ t[1] = call <=> CutOff(call) /\ t[1] = call
<1>1. \A t \in Task : task[t] = "inflight" => t = <<call, t[2]>> /\ t[2] \in scope
  BY DispatchParts, TaskParts DEF UnderWayIsUnreported, TasksInTurn
<1>2. \A t \in detached : t \in Task /\ t = <<call, t[2]>> /\ t[2] \in scope
  BY DispatchParts, TaskParts DEF DetachedAreLast, TypeOK
<1>3. \A d : d \in FanAsked <=> <<call, d>> \in Task /\ task[<<call, d>>] = "inflight"
  BY <1>1 DEF FanAsked, InFlight
<1>4. \A d : d \in FanLate <=> <<call, d>> \in detached
  BY <1>2 DEF FanLate
<1>5. \A t \in Task : t[1] = call => call # 0
  BY TaskParts, ConstantTypes
<1> QED
  BY <1>1, <1>2, <1>3, <1>4, <1>5 DEF FanCut, CutOff

\* A first report takes its destination off those waited for.
LEMMA FirstReportLeaves ==
    ASSUME DispatchInv, NEW t \in Task, t[1] = call, t[2] \in scope, NEW res,
           reported' = [reported EXCEPT ![t] = <<res>>],
           pc # "idle", pc' # "idle", UNCHANGED <<call, scope>>
    PROVE  FanWaiting' = FanWaiting \ {t[2]}
<1>1. t = <<call, t[2]>> /\ call \in Calls
  BY TaskParts
<1>2. \A d \in scope : <<call, d>> \in Task /\ (<<call, d>> = t <=> d = t[2])
  BY <1>1, DispatchParts DEF TypeOK, Task
<1>3. <<res>> # <<>>
  OBVIOUS
<1>4. reported'[t] # <<>> /\ \A u \in Task \ {t} : reported'[u] = reported[u]
  BY <1>3, DispatchParts DEF TypeOK
<1> QED
  BY <1>1, <1>2, <1>4 DEF FanWaiting

\* Finalizing is the contract's clean-up, the first time.
LEMMA CleansUp ==
    ASSUME finalized \in BOOLEAN, finalized' = TRUE, FanPhase # "running",
           FanPhase = "abandoned" \/ (FanAsked = {} /\ FanLate = {}),
           UNCHANGED <<FanPhase, FanWaiting, FanAsked, FanTried, FanLate, FanCut>>
    PROVE  [Fan!FanOutNext]_(Fan!fanOutVars)
<1>1. CASE finalized
  BY <1>1 DEF Fan!fanOutVars
<1>2. CASE ~finalized
  <2>1. Fan!CleanUp(FanPhase = "abandoned")
    BY <1>2 DEF Fan!CleanUp
  <2> QED
    BY <2>1 DEF Fan!FanOutNext
<1> QED
  BY <1>1, <1>2

\* A task's thread sends a request, ends one, or does nothing the contract
\* knows of.
LEMMA TaskFan ==
    ASSUME DispatchInv, DispatchInv', NEW t \in Task, TaskStep(t)
    PROVE  [Fan!FanOutNext]_(Fan!fanOutVars)
<1>a. /\ UNCHANGED <<stop, expired, pc, call, scope, abandoned, reported, detached, finalized>>
      /\ \A u \in Task \ {t} : task'[u] = task[u] /\ attempt'[u] = attempt[u]
  BY TaskChangesItself DEF aroundTask, callerVars, closeVars
<1>b. UNCHANGED <<FanPhase, FanWaiting, FanLate, FanCut, finalized>>
  BY <1>a DEF FanPhase, FanWaiting, FanLate, FanCut
<1>1. CASE task[t] = "preflight" /\ task'[t] = "inflight"
  <2>1. attempt'[t] = attempt[t] + 1 /\ ~TaskCutOff(t) /\ attempt[t] \in Nat
    <3>1. attempt[t] \in Nat
      BY DispatchParts, ConstantTypes DEF TypeOK
    <3> QED
      BY <1>1, <3>1, TaskMoves
  <2>2. t = <<call, t[2]>> /\ t[2] \in scope /\ pc # "idle" /\ reported[t] = <<>>
    BY <1>1, DispatchParts, TaskParts DEF UnderWayIsUnreported, TasksInTurn
  <2>3. ~FanCut
    BY <2>1, <2>2, AskedIsTask DEF TaskCutOff
  <2>4. FanPhase \in {"running", "failed"}
    BY <2>1, <2>2, DispatchParts DEF FanPhase, DetachedAreLast, TaskCutOff
  <2>5. t[2] \in FanWaiting /\ t[2] \notin FanAsked
    BY <1>1, <2>2, AskedIsTask DEF FanWaiting
  <2>6. FanAsked' = FanAsked \cup {t[2]}
    BY <1>a, <1>1, <2>2 DEF FanAsked, InFlight
  <2>7. FanTried' = FanTried \cup {t[2]}
    <3>1. ASSUME NEW d \in scope, d # t[2] PROVE attempt'[<<call, d>>] = attempt[<<call, d>>]
      <4>1. <<call, d>> \in Task \ {t}
        BY <2>2, <3>1, TaskParts, DispatchParts DEF Task, TypeOK
      <4> QED
        BY <1>a, <4>1
    <3> QED
      BY <1>a, <2>1, <2>2, <3>1 DEF FanTried
  <2>8. Fan!SendRequest(t[2])
    BY <1>b, <2>3, <2>4, <2>5, <2>6, <2>7 DEF Fan!SendRequest
  <2> QED
    BY <2>8, TaskParts DEF Fan!FanOutNext
<1>2. CASE ~(task[t] = "preflight" /\ task'[t] = "inflight")
  <2>1. attempt' = attempt
    BY <1>a, <1>2, TaskMoves, DispatchParts DEF TypeOK, DispatchInv
  <2>2. FanTried' = FanTried
    BY <1>a, <2>1 DEF FanTried
  <2>3. CASE task[t] = "inflight"
    <3>1. t[2] \in FanAsked /\ task'[t] # "inflight"
      BY <2>3, TaskMoves DEF FanAsked, InFlight
    <3>2. \A u \in Task : task[u] = "inflight" /\ u[2] = t[2] => u = t
      BY <2>3, AskedIsTask
    <3>3. FanAsked' = FanAsked \ {t[2]}
      BY <1>a, <3>1, <3>2 DEF FanAsked, InFlight
    <3>4. Fan!EndRequest(t[2])
      BY <1>b, <2>2, <3>1, <3>3 DEF Fan!EndRequest
    <3> QED
      BY <3>4, TaskParts DEF Fan!FanOutNext
  <2>4. CASE task[t] # "inflight"
    <3>1. task'[t] # "inflight"
      BY <1>2, <2>4, TaskMoves
    <3>2. FanAsked' = FanAsked
      BY <1>a, <2>4, <3>1 DEF FanAsked, InFlight
    <3> QED
      BY <1>b, <2>2, <3>2 DEF Fan!fanOutVars
  <2> QED
    BY <2>3, <2>4
<1> QED
  BY <1>1, <1>2

\* A callback reports a detached destination, lets it go, or cleans up.
LEMMA CallbackFan ==
    ASSUME DispatchInv, NEW t \in Task, CallbackStep(t)
    PROVE  [Fan!FanOutNext]_(Fan!fanOutVars)
<1>a. /\ UNCHANGED <<stop, expired, pc, call, scope, abandoned, attempt>>
      /\ task[t] # "inflight" /\ task'[t] # "inflight"
      /\ \A u \in Task \ {t} : task'[u] = task[u]
  BY DispatchParts DEF CallbackStep, BeginRecording, Record, Leave, FinalizeByCallback,
     aroundTask, callerVars, TypeOK
<1>b. UNCHANGED <<FanPhase, FanAsked, FanTried, FanCut>>
  BY <1>a DEF FanPhase, FanAsked, FanTried, FanCut, InFlight
<1>c. t[2] \in Targets
  BY TaskParts
<1>1. CASE BeginRecording(t)
  BY <1>a, <1>b, <1>1 DEF BeginRecording, aroundTask, closeVars, FanWaiting, FanLate,
     Fan!fanOutVars
<1>2. CASE Record(t)
  <2>1. UNCHANGED <<FanLate, finalized>>
    BY <1>2 DEF Record, aroundTask, closeVars, FanLate
  <2>2. CASE Report(t, latest[t])
    <3>1. t \in detached /\ reported[t] = <<>> /\ ~finalized
      BY <1>2, DispatchParts DEF Record, DetachedAreLast, ClosingInTurn, CallbacksDrained
    <3>2. t = <<call, t[2]>> /\ t[2] \in scope /\ t[2] \in FanLate
      BY <3>1, AskedIsTask
    <3>3. FanPhase \in {"running", "abandoned"} /\ pc # "idle"
      BY <3>1, DispatchParts DEF DetachedAreLast, FanPhase
    <3>4. t[2] \in FanWaiting /\ t[2] \notin FanAsked
      BY <1>a, <3>1, <3>2, <3>3, AskedIsTask DEF FanWaiting
    <3>5. latest[t] \in Results \ {"refused"}
      BY <1>2, DispatchParts DEF Record, ResultsAreEarned, IsDone, Settled, Callback, TypeOK
    <3>6. IF latest[t] = "skipped" THEN FanCut ELSE t[2] \in FanTried
      <4>1. CASE latest[t] = "skipped"
        BY <3>2, <4>1, DispatchParts, AskedIsTask DEF ResultsAreEarned, TaskCutOff
      <4>2. CASE latest[t] # "skipped"
        BY <3>2, <3>5, <4>2, DispatchParts DEF ResultsAreEarned, FanTried
      <4> QED
        BY <4>1, <4>2
    <3>7. reported' = [reported EXCEPT ![t] = <<latest[t]>>]
      BY <2>2, <3>1, <3>5, ReportFirst, DispatchParts DEF TypeOK
    <3>8. FanWaiting' = FanWaiting \ {t[2]}
      BY <1>a, <3>2, <3>3, <3>7, DispatchParts, FirstReportLeaves
    <3>9. Fan!ReportResult(t[2], latest[t])
      BY <1>b, <2>1, <3>1, <3>2, <3>3, <3>4, <3>5, <3>6, <3>8 DEF Fan!ReportResult
    <3> QED
      BY <1>c, <3>5, <3>9 DEF Fan!FanOutNext, Fan!Results
  <2>3. CASE UNCHANGED reported
    BY <1>a, <1>b, <2>1, <2>3 DEF FanWaiting, Fan!fanOutVars
  <2> QED
    BY <1>2, <2>2, <2>3 DEF Record
<1>3. CASE Leave(t)
  <2>1. t \in detached /\ detached' = detached \ {t} /\ UNCHANGED <<reported, finalized>>
    BY <1>3, DispatchParts DEF Leave, DetachedAreLast, aroundTask, closeVars
  <2>2. t[2] \in FanLate \ FanAsked
    BY <1>a, <2>1, AskedIsTask
  <2>3. FanLate' = FanLate \ {t[2]}
    BY <2>1, AskedIsTask DEF FanLate
  <2>4. Fan!LeaveDetached(t[2])
    BY <1>a, <1>b, <2>1, <2>2, <2>3 DEF Fan!LeaveDetached, FanWaiting
  <2> QED
    BY <1>c, <2>4 DEF Fan!FanOutNext
<1>4. CASE FinalizeByCallback(t)
  <2>1. FanPhase = "abandoned"
    BY <1>4, DispatchParts DEF FinalizeByCallback, DetachedAreLast, FanPhase
  <2>2. finalized' = TRUE /\ UNCHANGED <<FanWaiting, FanLate>>
    BY <1>a, <1>4 DEF FinalizeByCallback, CloseAndFinalize, FanWaiting, FanLate
  <2> QED
    BY <1>b, <2>1, <2>2, CleansUp, DispatchParts DEF TypeOK
<1> QED
  BY <1>1, <1>2, <1>3, <1>4 DEF CallbackStep

\* Requests under way stay under way while the caller moves.
LEMMA CallerFanKeeps ==
    ASSUME DispatchInv, CallerStep
    PROVE  UNCHANGED <<FanAsked, FanTried, FanCut, finalized, call, scope>>
<1>1. UNCHANGED <<call, scope, stop, expired, attempt, finalized>>
  BY CallerCuts DEF closeVars
<1>2. \A u \in Task : task'[u] = "inflight" <=> task[u] = "inflight"
  BY CallerChangesTasks
<1> QED
  BY <1>1, <1>2 DEF FanAsked, FanTried, FanCut, InFlight

\* The caller runs until it returns or raises.
LEMMA CallerRuns ==
    ASSUME DispatchInv, CallerStep
    PROVE  /\ pc \notin {"idle", "raised"} /\ FanPhase = "running" /\ ~finalized
           /\ pc' = "raised" => reported' = reported /\ detached' = detached
                                /\ (abandoned' \/ detached = {})
<1>1. pc \notin {"idle", "raised"}
  BY ResumeDomain DEF CallerStep, StartNext, FinishNext, SequentialReturn, Refuse,
     RefuseNext, Submit, WaitReturns, LoopReturn, CutOffSeen, Collect, Collected, Prune,
     Classify, Classified, DrainReturns, GraceOver, Detach, Abandon, HandlerFails
<1>2. FanPhase = "running" /\ ~finalized
  BY <1>1, DispatchParts DEF FanPhase, ClosingInTurn
<1>4. pc' = "raised" => reported' = reported
  BY CallerReportsOnce DEF ReportsIts
<1>5. pc' = "raised" => detached' = detached /\ (abandoned' \/ detached = {})
  BY <1>1, CallerDetaches, NobodyDetachedYet
<1> QED
  BY <1>1, <1>2, <1>4, <1>5

\* Inside dispatch the cutoff is the contract's.
LEMMA RunningCut ==
    ASSUME DispatchInv, pc # "idle"
    PROVE  CutOff(call) => FanCut
  BY DispatchParts DEF CutOff, FanCut, InCall

\* The caller reports, detaches, returns, abandons, fails, or does nothing the
\* contract knows of.
LEMMA CallerFan ==
    ASSUME DispatchInv, DispatchInv', CallerStep
    PROVE  [Fan!FanOutNext]_(Fan!fanOutVars)
<1>a. UNCHANGED <<FanAsked, FanTried, FanCut, finalized, call, scope>>
  BY CallerFanKeeps
<1>b. pc \notin {"idle", "raised"} /\ FanPhase = "running" /\ ~finalized
  BY CallerRuns
<1>c. CutOff(call) => FanCut
  BY <1>b, RunningCut
<1>1. CASE pc' = "idle"
  <2>1. /\ detached = {} /\ detached' = {}
        /\ \A u \in Task : task[u] \notin {"preflight", "inflight"}
        /\ \A u \in {call} \X scope : reported[u] = <<>> => CutOff(call)
    BY <1>1, CallerReturns, CallerDetaches
  <2>2. FanAsked = {} /\ FanLate = {} /\ FanLate' = {}
    BY <2>1 DEF FanAsked, InFlight, FanLate
  <2>3. FanWaiting = {} \/ FanCut
    BY <1>c, <2>1 DEF FanWaiting
  <2>4. FanPhase' = "idle" /\ FanWaiting' = {}
    BY <1>1 DEF FanPhase, FanWaiting
  <2>5. Fan!ReturnDispatch
    BY <1>a, <1>b, <2>2, <2>3, <2>4 DEF Fan!ReturnDispatch
  <2> QED
    BY <2>5 DEF Fan!FanOutNext
<1>2. CASE pc' = "raised"
  <2>1. /\ reported' = reported /\ detached' = detached /\ (abandoned' \/ detached = {})
    BY <1>2, CallerRuns
  <2>2. UNCHANGED <<FanLate, FanWaiting>>
    BY <1>a, <1>b, <1>2, <2>1 DEF FanLate, FanWaiting
  <2>3. CASE abandoned'
    <3>1. FanPhase' = "abandoned"
      BY <1>2, <2>3 DEF FanPhase
    <3>2. FanCut
      <4>1. CutOff(call)'
        BY <2>3, DispatchInv', DetachedAreLast' DEF DispatchInv, DetachedAreLast
      <4> QED
        BY <1>c, <4>1, CallerCuts
    <3>3. FanAsked \subseteq FanLate
      <4>1. \A u \in Task : task[u] = "inflight" => u \in detached
        BY <2>1, <2>3, CallerChangesTasks DEF DispatchInv, DetachedAreLast
      <4> QED
        BY <4>1 DEF FanAsked, FanLate, InFlight
    <3>4. Fan!AbandonDispatch
      BY <1>a, <1>b, <2>2, <3>1, <3>2, <3>3 DEF Fan!AbandonDispatch
    <3> QED
      BY <3>4 DEF Fan!FanOutNext
  <2>4. CASE ~abandoned'
    <3>1. FanPhase' = "failed"
      BY <1>2, <2>4 DEF FanPhase
    <3>2. FanLate = {}
      BY <2>1, <2>4 DEF FanLate
    <3>3. Fan!FailDispatch
      BY <1>a, <1>b, <2>2, <3>1, <3>2 DEF Fan!FailDispatch
    <3> QED
      BY <3>3 DEF Fan!FanOutNext
  <2> QED
    BY <2>3, <2>4
<1>3. CASE pc' \notin {"idle", "raised"} /\ reported' # reported
  <2>1. PICK t \in pending \cup batch, res \in Results : ReportsIts(t, res)
    BY <1>3, CallerReportsOnce
  <2>2. /\ t \in Task /\ t = <<call, t[2]>> /\ t[1] = call /\ t[2] \in scope
        /\ t[2] \in Targets
    BY <1>b, OwnFuture, TaskParts
  <2>3. FanPhase' = "running"
    BY <1>3 DEF FanPhase
  <2>4. detached' = detached
    BY <1>3, CallerDetaches
  <2>5. task[t] # "inflight" /\ res # "refused" /\ (res = "skipped" => CutOff(call))
        /\ (res # "skipped" => attempt[t] > 0)
    <3>1. CASE IsDone(t) /\ res = latest[t]
      BY <2>2, <3>1, DispatchParts DEF ResultsAreEarned, IsDone, Settled, Callback, TaskCutOff
    <3>2. CASE /\ res = "skipped" /\ CutOff(call)
               /\ task[t] \in {"none", "queued", "launched"}
      BY <3>2
    <3> QED
      BY <2>1, <3>1, <3>2 DEF ReportsIts
  <2>6. t[2] \in FanWaiting \ FanAsked
    BY <1>b, <2>1, <2>2, <2>5, AskedIsTask DEF FanWaiting, ReportsIts
  <2>7. IF res = "skipped" THEN FanCut ELSE t[2] \in FanTried
    BY <1>c, <2>2, <2>5 DEF FanTried
  <2>8. FanWaiting' = FanWaiting \ {t[2]}
    BY <1>a, <1>b, <1>3, <2>1, <2>2, FirstReportLeaves DEF ReportsIts
  <2>9. Fan!ReportResult(t[2], res)
    BY <1>a, <1>b, <2>3, <2>4, <2>5, <2>6, <2>7, <2>8 DEF Fan!ReportResult, FanLate
  <2> QED
    BY <2>2, <2>9 DEF Fan!FanOutNext, Fan!Results
<1>4. CASE pc' \notin {"idle", "raised"} /\ reported' = reported
  <2>1. UNCHANGED <<FanWaiting, FanPhase>>
    BY <1>a, <1>b, <1>4 DEF FanWaiting, FanPhase
  <2>2. CASE detached' = detached
    BY <1>a, <2>1, <2>2 DEF FanLate, Fan!fanOutVars
  <2>3. ASSUME NEW t \in pending, detached' = detached \cup {t}, pc = "detach"
        PROVE  [Fan!FanOutNext]_(Fan!fanOutVars)
    <3>1. t[2] \in Targets
      BY <1>b, OwnFuture, TaskParts
    <3>2. FanLate' = FanLate \cup {t[2]}
      BY <2>3 DEF FanLate
    <3>3. FanCut
      BY <1>c, <2>3, DispatchParts DEF CallerKnowsWhoIsLeft, AfterCutoff
    <3>4. Fan!DetachRequest(t[2])
      BY <1>a, <1>b, <2>1, <3>2, <3>3 DEF Fan!DetachRequest
    <3> QED
      BY <3>1, <3>4 DEF Fan!FanOutNext
  <2> QED
    BY <1>4, <2>2, <2>3, CallerDetaches
<1> QED
  BY <1>1, <1>2, <1>3, <1>4

\* A new dispatch is the contract's; close and the monitor clean up, once;
\* a stop or a deadline is the cutoff.
LEMMA RestFan ==
    ASSUME DispatchInv, DispatchInv',
           \/ \E ts \in SUBSET Targets : Dispatch(ts)
           \/ Close \/ CloserStep \/ MonitorStep \/ Stop \/ DeadlinePasses
    PROVE  [Fan!FanOutNext]_(Fan!fanOutVars)
<1> USE DEF callerVars, taskVars, closeVars, CloseKeeps, EnvKeeps, CallerKeeps
<1>1. ASSUME NEW ts \in SUBSET Targets, Dispatch(ts) PROVE [Fan!FanOutNext]_(Fan!fanOutVars)
  <2>1. /\ pc = "idle" /\ pc' \in {"sequential", "precheck"}
        /\ scope' \in SUBSET Targets /\ call' = call + 1
        /\ detached = {} /\ UNCHANGED <<task, attempt, reported, detached, finalized>>
        /\ ~finalized
    BY <1>1, NobodyDetachedYet, DispatchParts DEF Dispatch, ClosingInTurn
  <2>2. \A d \in scope' : reported[<<call', d>>] = <<>> /\ attempt[<<call', d>>] = 0
    <3>1. \A d \in scope' : <<call', d>> \in Task /\ call' > call
      BY <1>1, <2>1, DispatchParts, ConstantTypes DEF Dispatch, Task, TypeOK
    <3> QED
      BY <3>1, DispatchParts DEF TasksInTurn
  <2>3. FanPhase = "idle" /\ FanPhase' = "running"
    BY <2>1 DEF FanPhase
  <2>4. FanWaiting' = scope' /\ FanTried' = {}
    BY <2>1, <2>2 DEF FanWaiting, FanTried
  <2>5. UNCHANGED <<FanAsked, FanLate>>
    BY <2>1 DEF FanAsked, FanLate, InFlight
  <2>6. FanCut' \in BOOLEAN
    BY DEF FanCut
  <2>7. Fan!StartDispatch(scope')
    BY <2>1, <2>3, <2>4, <2>5, <2>6 DEF Fan!StartDispatch
  <2> QED
    BY <2>1, <2>7 DEF Fan!FanOutNext
<1>2. CASE Close
  <2>1. UNCHANGED <<stop, expired, pc, call, scope, attempt, reported, abandoned, detached,
                    finalized>>
        /\ \A u \in Task : task'[u] = "inflight" <=> task[u] = "inflight"
    BY <1>2 DEF Close, Cancelled
  <2> QED
    BY <2>1 DEF Fan!fanOutVars, FanPhase, FanWaiting, FanAsked, FanTried, FanLate, FanCut,
       InFlight
<1>3. CASE CloserStep \/ MonitorStep
  <2>1. UNCHANGED <<stop, expired, pc, call, scope, task, attempt, reported, abandoned,
                    detached>>
    BY <1>3 DEF CloserStep, CloseJoined, CloseUnlessDetached, MonitorStep, MonitorDone,
       MonitorTimeout, MonitorForce
  <2>2. UNCHANGED <<FanPhase, FanWaiting, FanAsked, FanTried, FanLate, FanCut>>
    BY <2>1 DEF FanPhase, FanWaiting, FanAsked, FanTried, FanLate, FanCut, InFlight
  <2>3. CASE finalized' = finalized
    BY <2>2, <2>3 DEF Fan!fanOutVars
  <2>4. CASE finalized' # finalized
    <3>1. finalized' = TRUE
      BY <1>3, <2>4 DEF CloserStep, CloseJoined, CloseUnlessDetached, MonitorStep,
         MonitorDone, MonitorTimeout, MonitorForce, CloseAndFinalize
    <3>2. FanPhase # "running"
      BY <1>3, DispatchParts DEF CloserStep, CloseJoined, CloseUnlessDetached, MonitorStep,
         MonitorDone, MonitorTimeout, MonitorForce, ClosingInTurn, DetachedAreLast, FanPhase
    <3>3. FanPhase = "abandoned" \/ (FanAsked = {} /\ FanLate = {})
      <4>1. CASE abandoned
        BY <4>1, DispatchParts DEF DetachedAreLast, FanPhase
      <4>2. CASE ~abandoned
        <5>1. finalized' /\ \A u \in Task : task'[u] \notin Attached
          BY <2>1, <3>1, <4>2 DEF DispatchInv, ClosingInTurn
        <5>2. FanAsked = {}
          BY <2>1, <5>1 DEF FanAsked, InFlight, Attached
        <5>3. detached = {}
          BY <3>2, <4>2, DispatchParts DEF DetachedAreLast, FanPhase
        <5> QED
          BY <5>2, <5>3 DEF FanLate
      <4> QED
        BY <4>1, <4>2
    <3> QED
      BY <2>2, <3>1, <3>2, <3>3, CleansUp, DispatchParts DEF TypeOK
  <2> QED
    BY <2>3, <2>4
<1>4. CASE Stop \/ DeadlinePasses
  <2>1. /\ UNCHANGED <<pc, call, scope, task, attempt, reported, abandoned, detached,
                       finalized>>
        /\ FanCut'
    <3>1. CASE Stop
      BY <1>4, <3>1 DEF Stop, FanCut
    <3>2. CASE DeadlinePasses
      <4>1. call \in Calls
        BY <3>2, DispatchParts, ConstantTypes DEF DeadlinePasses, InCall, TypeOK, Calls
      <4>2. call # 0 /\ call' = call
        BY <3>2, DispatchParts DEF DeadlinePasses, InCall
      <4>3. expired'[call] = TRUE
        BY <3>2, <4>1, DispatchParts DEF DeadlinePasses, TypeOK
      <4> QED
        BY <3>2, <4>2, <4>3 DEF DeadlinePasses, FanCut
    <3> QED
      BY <1>4, <3>1, <3>2
  <2>2. UNCHANGED <<FanPhase, FanWaiting, FanAsked, FanTried, FanLate, finalized>>
    BY <2>1 DEF FanPhase, FanWaiting, FanAsked, FanTried, FanLate, InFlight
  <2>3. CASE FanCut
    <3>1. FanCut' = FanCut
      BY <2>1, <2>3 DEF FanCut
    <3> QED
      BY <2>2, <3>1 DEF Fan!fanOutVars
  <2>4. CASE ~FanCut
    BY <2>1, <2>2, <2>4 DEF Fan!CutDispatch, Fan!FanOutNext
  <2> QED
    BY <2>3, <2>4
<1> QED
  BY <1>1, <1>2, <1>3, <1>4

\* The dispatcher implements the contract: a destination is reported at most
\* once and not while a request to it is under way, no request follows its
\* report or the cutoff, none is under way when dispatch returns, and whoever
\* reports late is detached and not after the clean-up.
THEOREM DispatcherImplementsFanOut == Spec => ImplementsFanOut
<1>1. Init => Fan!FanOutInit
  BY DEF Init, Fan!FanOutInit, FanPhase, FanWaiting, FanAsked, FanTried, FanLate, FanCut,
     InFlight
<1>2. DispatchInv /\ DispatchInv' /\ [Next]_dispatchVars
         => [Fan!FanOutNext]_(Fan!fanOutVars)
  <2> SUFFICES ASSUME DispatchInv, DispatchInv', [Next]_dispatchVars
               PROVE  [Fan!FanOutNext]_(Fan!fanOutVars)
    OBVIOUS
  <2>1. CASE Next
    BY <2>1, TaskFan, CallbackFan, CallerFan, RestFan DEF Next
  <2>2. CASE UNCHANGED dispatchVars
    BY <2>2 DEF dispatchVars, callerVars, taskVars, closeVars, Fan!fanOutVars, FanPhase,
       FanWaiting, FanAsked, FanTried, FanLate, FanCut, InFlight
  <2> QED
    BY <2>1, <2>2
<1> QED
  BY <1>1, <1>2, DispatchInvariant, PTL DEF Spec, ImplementsFanOut, Fan!FanOutSpec

===============================================================================
