-------------------------- MODULE AlertServiceProofs --------------------------
(***************************************************************************)
(* Proofs about AlertService, for every value of its constants: the        *)
(* service uses the queue the way PersistentQueue specifies, so that       *)
(* everything proved of the queue holds of it, and on top of that the      *)
(* inductive invariant ServiceInv with the safety properties it contains.  *)
(***************************************************************************)
EXTENDS AlertService, PersistentQueueProofs

-----------------------------------------------------------------------------
(* The inductive invariant.                                                *)

\* What a process that does not run has left is its table.
DownMeansBlank ==
    /\ up => worker # "off" /\ main # "off"
    /\ ~up => /\ ~open /\ ~cleaned /\ late = {}
              /\ phase = "idle" /\ worker = "off" /\ main = "off"

\* The dispatch, the worker and the main thread agree: a dispatch runs inside
\* the worker, a record is held from its claim to its end, and shutdown closes
\* nothing under a live worker.
ThreadsAgree ==
    /\ WorkerAlive => open /\ main \in {"serving", "joining", "gaveUp"}
    /\ worker \in {"looking", "claiming"} => held = NoRecord
    /\ worker = "finalizing" => held # NoRecord
    /\ phase = "running" <=> worker = "dispatching"
    /\ phase \in {"abandoned", "failed"} => worker \in {"crashing", "dead"}
    /\ phase = "failed" /\ worker = "dead" => cut
    /\ open /\ phase # "idle" => held # NoRecord /\ ~finalizing
    /\ late # {} => phase \in {"running", "abandoned"}
    /\ cleaned => ~open

\* A dispatch is about the targets its record still has, and what it has tried
\* was a send for that record.
DispatchOfTheRecord ==
    /\ asked \subseteq waiting
    /\ phase = "idle" => waiting = {}
    /\ open => \A d \in waiting : d \in rows[held].targets
    /\ open /\ phase # "idle" => \A d \in tried : <<held, d>> \in attempted

\* The inductive invariant of the proofs.
ServiceInv ==
    /\ IndInv
    /\ ServiceTypeOK
    /\ DownMeansBlank
    /\ ThreadsAgree
    /\ DispatchOfTheRecord
    /\ StoreOutlivesReporters


-----------------------------------------------------------------------------
(* Lemmas about the operators.                                             *)

\* The powers of two compute_retry_delay_seconds uses, up to its exponent's limit.
LEMMA PowersAreNatural ==
    ASSUME NEW e \in 0 .. 16
    PROVE  2 ^ e \in Nat
<1>1. /\ 2^0 \in Nat /\ 2^1 \in Nat /\ 2^2 \in Nat /\ 2^3 \in Nat /\ 2^4 \in Nat
      /\ 2^5 \in Nat /\ 2^6 \in Nat /\ 2^7 \in Nat /\ 2^8 \in Nat /\ 2^9 \in Nat
      /\ 2^10 \in Nat /\ 2^11 \in Nat /\ 2^12 \in Nat /\ 2^13 \in Nat
      /\ 2^14 \in Nat /\ 2^15 \in Nat /\ 2^16 \in Nat
  OBVIOUS
<1>2. \/ e = 0 \/ e = 1 \/ e = 2 \/ e = 3 \/ e = 4 \/ e = 5 \/ e = 6 \/ e = 7
      \/ e = 8 \/ e = 9 \/ e = 10 \/ e = 11 \/ e = 12 \/ e = 13 \/ e = 14
      \/ e = 15 \/ e = 16
  OBVIOUS
<1> QED
  BY <1>1, <1>2

\* compute_retry_delay_seconds stays between 0 and the configured maximum.
LEMMA RetryDelayBounded ==
    ASSUME NEW n \in Nat
    PROVE  RetryDelay(n) \in 0 .. RetryMax
<1> DEFINE exponent == IF n - 1 > 0 THEN n - 1 ELSE 0
           e == IF exponent < 16 THEN exponent ELSE 16
           delay == RetryBase * 2 ^ e
<1>1. CASE RetryMax = 0 \/ RetryBase = 0
  BY <1>1, RetryAssumption DEF RetryDelay
<1>2. CASE ~(RetryMax = 0 \/ RetryBase = 0)
  <2>1. RetryDelay(n) = IF delay < RetryMax THEN delay ELSE RetryMax
    BY <1>2 DEF RetryDelay
  <2>2. e \in 0 .. 16
    OBVIOUS
  <2> HIDE DEF e
  <2>3. 2 ^ e \in Nat
    BY <2>2, PowersAreNatural
  <2>4. ASSUME NEW m \in Nat PROVE RetryBase * m \in Nat
    BY RetryAssumption
  <2>5. delay \in Nat
    BY <2>3, <2>4
  <2> HIDE DEF delay
  <2> QED
    BY <2>1, <2>5, RetryAssumption
<1> QED
  BY <1>1, <1>2

\* A step of the service that leaves table, clock and worker's memory alone is a
\* stutter of the queue.
LEMMA QueueUntouched ==
    ASSUME UNCHANGED <<rows, nextId, clock, open, held, finalizing, targetsRead>>
    PROVE  UNCHANGED vars
  BY DEF vars

\* Closing the store is what the queue calls Close, or nothing if it is closed.
LEMMA StoreCloses ==
    ASSUME IndInv, open' = FALSE, Forget, UNCHANGED <<rows, nextId, clock>>
    PROVE  [Next]_vars
<1>1. CASE open
  BY <1>1 DEF Close, Next
<1>2. CASE ~open
  BY <1>2 DEF IndInv, TypeOK, WorkerConsistent, Forget, vars, NoRecord
<1> QED
  BY <1>1, <1>2

-----------------------------------------------------------------------------
(* The service uses the queue the way PersistentQueue says.                *)

\* A press is an enqueue or nothing.
LEMMA PressRefines ==
    ASSUME ServiceInv, NEW p \in Presses, PressStep(p)
    PROVE  [Next]_vars
<1>1. CASE PressAccepted(p)
  <2>1. enabled \in SUBSET Targets
    BY DEF ServiceInv, ServiceTypeOK
  <2> QED
    BY <1>1, <2>1 DEF PressAccepted, PressKeeps, Press, Next
<1>2. CASE PressArrives(p) \/ PressLocks(p) \/ PressIgnored(p) \/ PressFails(p)
  <2>1. UNCHANGED <<rows, nextId>>
    BY <1>2 DEF PressArrives, PressLocks, PressIgnored, PressFails
  <2>2. UNCHANGED <<clock, open, held, finalizing, targetsRead>>
    BY <1>2 DEF PressArrives, PressLocks, PressIgnored, PressFails, PressKeeps, workerVars
  <2> QED
    BY <2>1, <2>2, QueueUntouched
<1> QED
  BY <1>1, <1>2 DEF PressStep

\* A report marks a destination of the record the worker claimed and has not
\* begun to finalize, also when it comes from a detached request.
LEMMA ReportRefines ==
    ASSUME ServiceInv, NEW d \in Targets, NEW res \in Results, DispatchReports(d, res)
    PROVE  Mark
<1>1. open /\ phase # "idle"
  BY DEF DispatchReports, ReportResult
<1>2. held # NoRecord /\ ~finalizing
  BY <1>1 DEF ServiceInv, ThreadsAgree
<1>3. KeepForRetry(res) \in BOOLEAN
  BY DEF KeepForRetry
<1>4. /\ MarkProcessedDestination(held, d, KeepForRetry(res))
      /\ UNCHANGED <<clock, open, workerVars>>
  BY DEF DispatchReports, DispatchKeeps, WorkerKeeps, workerVars
<1> QED
  BY <1>1, <1>2, <1>3, <1>4 DEF Mark

\* The worker reads the targets, completes and requeues while the queue is open.
LEMMA WorkerRefines ==
    ASSUME ServiceInv, WorkerStep
    PROVE  [Next]_vars
<1> USE DEF WorkerKeeps
<1>1. WorkerAlive => open
  BY DEF ServiceInv, ThreadsAgree
<1>2. CASE WorkerLooks \/ WorkerFindsNone \/ WorkerCrashes
  BY <1>2, QueueUntouched DEF WorkerLooks, WorkerFindsNone, WorkerCrashes, tableVars, workerVars
<1>3. CASE WorkerClaims
  <2>1. open /\ held = NoRecord
    BY <1>1, <1>3 DEF WorkerClaims, WorkerAlive, ServiceInv, ThreadsAgree
  <2>2. PICK r \in Records : ClaimNextReady(r) /\ held' = r
    BY <1>3 DEF WorkerClaims
  <2>3. UNCHANGED <<clock, open, finalizing, targetsRead>>
    BY <1>3 DEF WorkerClaims
  <2> QED
    BY <2>1, <2>2, <2>3 DEF Claim, Next
<1>4. CASE WorkerReadsTargets
  <2>1. open /\ held # NoRecord
    BY <1>1, <1>4 DEF WorkerReadsTargets, WorkerAlive, ServiceInv, ThreadsAgree
  <2> QED
    BY <1>4, <2>1 DEF WorkerReadsTargets, tableVars, ReadTargets, Next
<1>5. CASE WorkerCompletes
  <2>1. open
    BY <1>1, <1>5 DEF WorkerCompletes, WorkerAlive
  <2> QED
    BY <1>5, <2>1 DEF WorkerCompletes, Complete, Next
<1>6. CASE WorkerRequeues
  <2>1. open /\ held # NoRecord
    BY <1>1, <1>6 DEF WorkerRequeues, WorkerAlive, ServiceInv, ThreadsAgree
  <2>2. rows[held].attempts + 1 \in Nat
    BY <2>1 DEF ServiceInv, IndInv, TypeOK, TableTypeOK, Row, Attempts
  <2> DEFINE delay == IF stop THEN 0 ELSE RetryDelay(rows[held].attempts + 1)
  <2>3. delay \in 0 .. RetryMax /\ delay \in {0, RetryDelay(rows[held].attempts + 1)}
    BY <2>2, RetryDelayBounded, RetryAssumption
  <2>4. /\ finalizing /\ targetsRead # {} /\ Requeue(held, targetsRead, delay)
        /\ Forget
        /\ UNCHANGED <<clock, open>>
    BY <1>6 DEF WorkerRequeues
  <2> HIDE DEF delay
  <2> QED
    BY <2>1, <2>3, <2>4 DEF PutBack, Next
<1> QED
  BY <1>2, <1>3, <1>4, <1>5, <1>6 DEF WorkerStep

\* The dispatch touches the table by its reports only.
LEMMA DispatchRefines ==
    ASSUME ServiceInv,
           \/ \E d \in Targets : DispatchStep(d)
           \/ DispatchEnd \/ DeadlinePasses \/ ReportFails \/ WorkerStatementFails
    PROVE  [Next]_vars
<1> USE DEF DispatchKeeps, WorkerKeeps, tableVars, workerVars
<1>1. ASSUME NEW d \in Targets, NEW res \in Results, DispatchReports(d, res)
      PROVE  [Next]_vars
  BY <1>1, ReportRefines DEF Next
<1>2. ASSUME NEW d \in Targets,
             DispatchSends(d) \/ RequestEnds(d) \/ DispatchDetaches(d) \/ DetachedLeaves(d)
      PROVE  [Next]_vars
  BY <1>2, QueueUntouched DEF DispatchSends, RequestEnds, DispatchDetaches, DetachedLeaves
<1>3. CASE DispatchEnd \/ DeadlinePasses \/ ReportFails \/ WorkerStatementFails
  BY <1>3, QueueUntouched DEF DispatchEnd, DispatchReturns, DispatchRaises, DeadlinePasses,
     ReportFails, WorkerStatementFails
<1> QED
  BY <1>1, <1>2, <1>3 DEF DispatchStep

\* The main thread closes the store once.
LEMMA MainRefines ==
    ASSUME ServiceInv, MainStep \/ CleanUpDetached \/ Signal
    PROVE  [Next]_vars
<1> USE DEF MainKeeps, QueueKept, CloseStore, tableVars, workerVars, queueVars
<1>1. IndInv
  BY DEF ServiceInv
<1>2. CASE MainStops \/ JoinReturns \/ JoinTimesOut \/ Signal
  BY <1>2, QueueUntouched DEF MainStops, JoinReturns, JoinTimesOut, Signal
<1>3. CASE CloseDispatcher \/ ShutdownCloses \/ CleanUpDetached
  <2>1. UNCHANGED <<rows, nextId, clock>>
    BY <1>3 DEF CloseDispatcher, ShutdownCloses, CleanUpDetached
  <2>2. \/ UNCHANGED <<open, held, finalizing, targetsRead>>
        \/ open' = FALSE /\ Forget
    BY <1>3 DEF CloseDispatcher, ShutdownCloses, CleanUpDetached
  <2> QED
    BY <1>1, <2>1, <2>2, QueueUntouched, StoreCloses
<1> QED
  BY <1>2, <1>3 DEF MainStep

\* The end of a process closes the store, the next one opens it, and a
\* validation is the other process.
LEMMA ProcessRefines ==
    ASSUME ServiceInv,
           MainExits \/ Crash \/ Restart \/ ValidationRecovers \/ Tick \/ CooldownEnds
    PROVE  [Next]_vars
<1> USE DEF tableVars, workerVars
<1>1. CASE MainExits \/ Crash
  BY <1>1, StoreCloses DEF MainExits, Crash, ProcessEnds, ServiceInv
<1>2. CASE Restart
  <2>1. ~open
    BY <1>2 DEF Restart, ServiceInv, DownMeansBlank
  <2> QED
    BY <1>2, <2>1 DEF Restart, Reopen, Next
<1>3. CASE ValidationRecovers
  BY <1>3 DEF ValidationRecovers, OtherProcessOpens, Next
<1>4. CASE Tick
  <2>1. clock' \in Times \ {clock}
    BY <1>4, BoundsAssumption DEF Tick, ServiceInv, IndInv, TypeOK, TableTypeOK, Times
  <2> QED
    BY <1>4, <2>1 DEF Tick, ClockMoves, Next
<1>5. CASE CooldownEnds
  BY <1>5, QueueUntouched DEF CooldownEnds, PressKeeps
<1> QED
  BY <1>1, <1>2, <1>3, <1>4, <1>5

\* Every step of the service is a step of the queue, or leaves it alone.
LEMMA ServiceRefinesQueue ==
    ASSUME ServiceInv, [ServiceNext]_serviceVars
    PROVE  [Next]_vars
<1>1. CASE UNCHANGED serviceVars
  BY <1>1, QueueUntouched DEF serviceVars, queueVars, workerVars
<1>2. CASE ServiceNext
  BY <1>2, PressRefines, WorkerRefines, DispatchRefines, MainRefines, ProcessRefines
     DEF ServiceNext
<1> QED
  BY <1>1, <1>2

-----------------------------------------------------------------------------
(* Types.                                                                  *)

\* The types of what is not the queue's.
RestTypeOK ==
    /\ FanOutTypeOK
    /\ up \in BOOLEAN
    /\ enabled \in SUBSET Targets
    /\ stop \in BOOLEAN
    /\ fatal \in BOOLEAN
    /\ worker \in WorkerStates
    /\ main \in MainStates
    /\ keepStore \in BOOLEAN
    /\ press \in [Presses -> {"idle", "checked", "locked"}]
    /\ cooling \in BOOLEAN
    /\ attempted \in SUBSET (Records \X Targets)
    /\ mishaps \in 0 .. MaxMishaps

\* A mishap is counted within its bound.
LEMMA MishapTypes ==
    ASSUME RestTypeOK, Mishap \/ UNCHANGED mishaps
    PROVE  mishaps' \in 0 .. MaxMishaps
  BY ServiceAssumption DEF RestTypeOK, Mishap

\* A press keeps the types: Enqueue's by QueueTypesKept, the rest as they are.
LEMMA PressTypes ==
    ASSUME RestTypeOK, (\E p \in Presses : PressStep(p)) \/ CooldownEnds
    PROVE  RestTypeOK'
<1> USE DEF RestTypeOK, FanOutTypeOK, PressKeeps, SetStop
<1>1. ASSUME NEW p \in Presses, PressArrives(p) PROVE RestTypeOK'
  BY <1>1 DEF PressArrives
<1>2. ASSUME NEW p \in Presses, PressLocks(p) PROVE RestTypeOK'
  BY <1>2 DEF PressLocks
<1>3. ASSUME NEW p \in Presses, PressAccepted(p) PROVE RestTypeOK'
  BY <1>3 DEF PressAccepted
<1>4. ASSUME NEW p \in Presses, PressIgnored(p) PROVE RestTypeOK'
  BY <1>4 DEF PressIgnored
<1>5. ASSUME NEW p \in Presses, PressFails(p) PROVE RestTypeOK'
  BY <1>5, MishapTypes DEF PressFails, Mishap
<1>6. CASE CooldownEnds
  BY <1>6 DEF CooldownEnds
<1> QED
  BY <1>1, <1>2, <1>3, <1>4, <1>5, <1>6 DEF PressStep

\* The alert worker keeps the types.
LEMMA WorkerTypes ==
    ASSUME RestTypeOK, WorkerStep
    PROVE  RestTypeOK'
<1> USE DEF RestTypeOK, FanOutTypeOK, WorkerStates, WorkerKeeps, SetStop, fanOutVars
<1>1. CASE WorkerLooks
  BY <1>1 DEF WorkerLooks
<1>2. CASE WorkerFindsNone
  BY <1>2 DEF WorkerFindsNone
<1>3. CASE WorkerClaims
  <2>1. PICK r \in Records : StartDispatch(Addressees(r))
    BY <1>3 DEF WorkerClaims
  <2>2. Addressees(r) \in SUBSET Targets
    BY DEF Addressees
  <2> QED
    BY <1>3, <2>1, <2>2 DEF WorkerClaims, StartDispatch
<1>4. CASE WorkerReadsTargets
  BY <1>4 DEF WorkerReadsTargets
<1>5. CASE WorkerCompletes
  BY <1>5 DEF WorkerCompletes
<1>6. CASE WorkerRequeues
  BY <1>6 DEF WorkerRequeues
<1>7. CASE WorkerCrashes
  BY <1>7 DEF WorkerCrashes
<1> QED
  BY <1>1, <1>2, <1>3, <1>4, <1>5, <1>6, <1>7 DEF WorkerStep

\* A request is made while its record is held.
LEMMA RequestHasRecord ==
    ASSUME ServiceInv, NEW d \in Targets, DispatchSends(d)
    PROVE  held \in Records /\ open
<1>1. phase \in {"running", "failed"} /\ ~cut
  BY DEF DispatchSends, SendRequest
<1>2. WorkerAlive
  BY <1>1 DEF ServiceInv, ThreadsAgree, WorkerAlive
<1>3. open
  BY <1>2 DEF ServiceInv, ThreadsAgree
<1> QED
  BY <1>1, <1>3 DEF ServiceInv, ThreadsAgree, IndInv, TypeOK

\* The dispatch keeps the types.
LEMMA DispatchTypes ==
    ASSUME ServiceInv, RestTypeOK,
           \/ \E d \in Targets : DispatchStep(d)
           \/ DispatchEnd \/ DeadlinePasses \/ ReportFails \/ WorkerStatementFails
    PROVE  RestTypeOK'
<1> USE DEF DispatchKeeps, WorkerKeeps, WorkerRaises, fanOutVars
<1>1. mishaps' \in 0 .. MaxMishaps
  BY MishapTypes
     DEF DispatchStep, DispatchSends, RequestEnds, DispatchReports, DispatchDetaches,
         DetachedLeaves, DispatchEnd, DispatchReturns, DispatchRaises, DeadlinePasses,
         ReportFails, WorkerStatementFails
<1> USE <1>1 DEF RestTypeOK, FanOutTypeOK, WorkerStates
<1>2. ASSUME NEW d \in Targets, DispatchSends(d) PROVE RestTypeOK'
  BY <1>2, RequestHasRecord DEF DispatchSends, SendRequest
<1>3. ASSUME NEW d \in Targets, RequestEnds(d) PROVE RestTypeOK'
  BY <1>3 DEF RequestEnds, EndRequest
<1>4. ASSUME NEW d \in Targets, NEW res \in Results, DispatchReports(d, res)
      PROVE  RestTypeOK'
  BY <1>4 DEF DispatchReports, ReportResult
<1>5. ASSUME NEW d \in Targets, DispatchDetaches(d) PROVE RestTypeOK'
  BY <1>5 DEF DispatchDetaches, DetachRequest
<1>6. ASSUME NEW d \in Targets, DetachedLeaves(d) PROVE RestTypeOK'
  BY <1>6 DEF DetachedLeaves, LeaveDetached
<1>7. CASE DispatchReturns
  BY <1>7 DEF DispatchReturns, ReturnDispatch
<1>8. CASE DispatchRaises
  BY <1>8 DEF DispatchRaises, AbandonDispatch
<1>9. CASE DeadlinePasses
  BY <1>9 DEF DeadlinePasses, CutDispatch
<1>10. CASE ReportFails
  BY <1>10 DEF ReportFails, FailDispatch
<1>11. CASE WorkerStatementFails
  BY <1>11 DEF WorkerStatementFails
<1> QED
  BY <1>2, <1>3, <1>4, <1>5, <1>6, <1>7, <1>8, <1>9, <1>10, <1>11
     DEF DispatchStep, DispatchEnd

\* The main thread keeps the types: it is where the backoff is computed.
LEMMA MainTypes ==
    ASSUME RestTypeOK,
           \/ MainStep \/ CleanUpDetached \/ Signal
           \/ MainExits \/ Crash \/ Restart \/ ValidationRecovers \/ Tick
    PROVE  RestTypeOK'
<1>1. mishaps' \in 0 .. MaxMishaps
  BY MishapTypes
     DEF MainStep, MainStops, JoinReturns, JoinTimesOut, CloseDispatcher, ShutdownCloses,
         CleanUpDetached, Signal, MainExits, Crash, Restart, ValidationRecovers, Tick,
         MainKeeps
<1> USE <1>1 DEF RestTypeOK, FanOutTypeOK, WorkerStates, MainStates, MainKeeps, SetStop,
        fanOutVars, threadVars
<1>2. CASE MainStep
  <2>1. CASE MainStops \/ JoinTimesOut
    BY <2>1 DEF MainStops, JoinTimesOut
  <2>2. CASE JoinReturns
    <3>1. keepStore' \in BOOLEAN
      BY <2>2 DEF JoinReturns
    <3> QED
      BY <2>2, <3>1 DEF JoinReturns
  <2>3. CASE CloseDispatcher
    <3>1. UNCHANGED <<phase, waiting, asked, tried, late, cut>>
      BY <2>3 DEF CloseDispatcher, CleanUp
    <3>2. cleaned' \in BOOLEAN
      BY <2>3 DEF CloseDispatcher, CleanUp
    <3> QED
      BY <2>3, <3>1, <3>2 DEF CloseDispatcher
  <2>4. CASE ShutdownCloses
    BY <2>4 DEF ShutdownCloses
  <2> QED
    BY <1>2, <2>1, <2>2, <2>3, <2>4 DEF MainStep
<1>3. CASE CleanUpDetached
  BY <1>3 DEF CleanUpDetached, CleanUp
<1>4. CASE Signal
  BY <1>4 DEF Signal
<1>5. CASE ProcessEnds
  BY <1>5 DEF ProcessEnds
<1>6. CASE Restart
  BY <1>6 DEF Restart
<1>7. CASE ValidationRecovers \/ Tick
  BY <1>7 DEF ValidationRecovers, Tick
<1> QED
  BY <1>2, <1>3, <1>4, <1>5, <1>6, <1>7 DEF MainExits, Crash

\* Every step of the service keeps the types, the queue's as its own.
LEMMA ServiceTypesKept ==
    ASSUME ServiceInv, [ServiceNext]_serviceVars
    PROVE  IndInv' /\ ServiceTypeOK'
<1>1. IndInv'
  BY ServiceRefinesQueue, NextIndInv DEF ServiceInv
<1>2. RestTypeOK
  BY DEF ServiceInv, ServiceTypeOK, RestTypeOK
<1>3. RestTypeOK'
  <2>1. CASE UNCHANGED serviceVars
    BY <1>2, <2>1 DEF serviceVars, threadVars, fanOutVars, RestTypeOK, FanOutTypeOK
  <2>2. CASE ServiceNext
    BY <1>2, <2>2, PressTypes, WorkerTypes, DispatchTypes, MainTypes DEF ServiceNext
  <2> QED
    BY <2>1, <2>2
<1> QED
  BY <1>1, <1>3 DEF IndInv, ServiceTypeOK, RestTypeOK

-----------------------------------------------------------------------------
(* Who runs when: the process, its threads, the dispatch and the store.    *)

Order == DownMeansBlank /\ ThreadsAgree /\ StoreOutlivesReporters

\* A press changes the stop event and the fatal error, and neither thread.
LEMMA PressOrder ==
    ASSUME ServiceInv, (\E p \in Presses : PressStep(p)) \/ CooldownEnds
    PROVE  Order'
<1>1. UNCHANGED <<open, held, finalizing, phase, late, cleaned, up, worker, main>>
  BY DEF PressStep, PressArrives, PressLocks, PressAccepted, PressIgnored, PressFails,
         CooldownEnds, PressKeeps, workerVars
<1>2. cut' \in {cut, TRUE}
  BY DEF PressStep, PressArrives, PressLocks, PressAccepted, PressIgnored, PressFails,
         CooldownEnds, SetStop
<1> QED
  BY <1>1, <1>2 DEF Order, ServiceInv, DownMeansBlank, ThreadsAgree, StoreOutlivesReporters,
     WorkerAlive

\* The worker keeps DownMeansBlank and ThreadsAgree.
LEMMA WorkerOrder ==
    ASSUME ServiceInv, WorkerStep
    PROVE  Order'
<1> USE DEF Order, ServiceInv, DownMeansBlank, ThreadsAgree, StoreOutlivesReporters,
        WorkerAlive, WorkerKeeps
<1>1. CASE WorkerLooks
  BY <1>1 DEF WorkerLooks, fanOutVars, workerVars
<1>2. CASE WorkerFindsNone
  BY <1>2 DEF WorkerFindsNone, fanOutVars, workerVars
<1>3. CASE WorkerClaims
  <2>1. /\ worker = "claiming" /\ worker' = "dispatching"
        /\ phase' = "running" /\ UNCHANGED <<late, cleaned, finalizing, open, up, main>>
        /\ held' \in Records
    BY <1>3 DEF WorkerClaims, StartDispatch
  <2>2. held' # NoRecord
    BY <2>1 DEF Records, NoRecord
  <2>3. ~finalizing
    BY <2>1 DEF IndInv, WorkerConsistent
  <2> QED
    BY <2>1, <2>2, <2>3
<1>4. CASE WorkerReadsTargets
  BY <1>4 DEF WorkerReadsTargets, fanOutVars, ServiceTypeOK, FanOutTypeOK
<1>5. CASE WorkerCompletes
  BY <1>5 DEF WorkerCompletes, Forget, fanOutVars
<1>6. CASE WorkerRequeues
  BY <1>6 DEF WorkerRequeues, Forget, fanOutVars
<1>7. CASE WorkerCrashes
  BY <1>7 DEF WorkerCrashes, SetStop, workerVars
<1> QED
  BY <1>1, <1>2, <1>3, <1>4, <1>5, <1>6, <1>7 DEF WorkerStep

\* So does the dispatch: only a cut-off one raises.
LEMMA DispatchOrder ==
    ASSUME ServiceInv,
           \/ \E d \in Targets : DispatchStep(d)
           \/ DispatchEnd \/ DeadlinePasses \/ ReportFails \/ WorkerStatementFails
    PROVE  Order'
<1> USE DEF Order, ServiceInv, DownMeansBlank, ThreadsAgree, StoreOutlivesReporters,
        WorkerAlive, DispatchKeeps, WorkerKeeps, WorkerRaises
<1>1. ASSUME NEW d \in Targets, DispatchSends(d) PROVE Order'
  BY <1>1 DEF DispatchSends, SendRequest
<1>2. ASSUME NEW d \in Targets, RequestEnds(d) PROVE Order'
  BY <1>2 DEF RequestEnds, EndRequest
<1>3. ASSUME NEW d \in Targets, NEW res \in Results, DispatchReports(d, res)
      PROVE  Order'
  BY <1>3 DEF DispatchReports, ReportResult
<1>4. ASSUME NEW d \in Targets, DispatchDetaches(d) PROVE Order'
  BY <1>4 DEF DispatchDetaches, DetachRequest
<1>5. ASSUME NEW d \in Targets, DetachedLeaves(d) PROVE Order'
  BY <1>5 DEF DetachedLeaves, LeaveDetached
<1>6. CASE DispatchReturns
  BY <1>6 DEF DispatchReturns, ReturnDispatch
<1>7. CASE DispatchRaises
  BY <1>7 DEF DispatchRaises, AbandonDispatch
<1>8. CASE DeadlinePasses
  BY <1>8 DEF DeadlinePasses, CutDispatch
<1>9. CASE ReportFails
  BY <1>9 DEF ReportFails, FailDispatch
<1>10. CASE WorkerStatementFails
  BY <1>10 DEF WorkerStatementFails, fanOutVars, workerVars
<1> QED
  BY <1>1, <1>2, <1>3, <1>4, <1>5, <1>6, <1>7, <1>8, <1>9, <1>10
     DEF DispatchStep, DispatchEnd

\* So does the main thread: it stops the worker before it cleans up.
LEMMA MainOrder ==
    ASSUME ServiceInv, MainStep \/ CleanUpDetached \/ Signal
    PROVE  Order'
<1> USE DEF Order, ServiceInv, DownMeansBlank, ThreadsAgree, StoreOutlivesReporters,
        WorkerAlive, MainKeeps, QueueKept, CloseStore, workerVars, fanOutVars
<1>1. CASE MainStops \/ JoinReturns \/ JoinTimesOut
  BY <1>1 DEF MainStops, JoinReturns, JoinTimesOut
<1>2. CASE CloseDispatcher
  BY <1>2 DEF CloseDispatcher, CleanUp, ServiceTypeOK, WorkerStates
<1>3. CASE ShutdownCloses
  BY <1>3 DEF ShutdownCloses, KeepStore, ServiceTypeOK, WorkerStates
<1>4. CASE CleanUpDetached
  BY <1>4 DEF CleanUpDetached, CleanUp, ServiceTypeOK, WorkerStates
<1>5. CASE Signal
  BY <1>5 DEF Signal, SetStop, queueVars
<1> QED
  BY <1>1, <1>2, <1>3, <1>4, <1>5 DEF MainStep

\* So do a crash, which blanks the threads, and the next process.
LEMMA ProcessOrder ==
    ASSUME ServiceInv,
           MainExits \/ Crash \/ Restart \/ ValidationRecovers \/ Tick
    PROVE  Order'
<1> USE DEF Order, ServiceInv, DownMeansBlank, ThreadsAgree, StoreOutlivesReporters,
        WorkerAlive, workerVars, fanOutVars, threadVars
<1>1. CASE ProcessEnds
  BY <1>1 DEF ProcessEnds
<1>2. CASE Restart
  <2>1. held = NoRecord
    BY <1>2 DEF Restart, IndInv, WorkerConsistent
  <2> QED
    BY <1>2, <2>1 DEF Restart
<1>3. CASE ValidationRecovers \/ Tick
  BY <1>3 DEF ValidationRecovers, Tick
<1> QED
  BY <1>1, <1>2, <1>3 DEF MainExits, Crash

-----------------------------------------------------------------------------
(* The dispatch and its record.                                            *)

\* While somebody is waited for and the queue is open, the record is a real one.
LEMMA WaitingHasRecord ==
    ASSUME ServiceInv, open, phase # "idle"
    PROVE  held \in Records /\ held < nextId
<1>1. held # NoRecord
  BY DEF ServiceInv, ThreadsAgree
<1> QED
  BY <1>1 DEF ServiceInv, IndInv, TypeOK, WorkerConsistent

\* A step that neither touches the dispatch nor removes a target of the record
\* keeps the two in line.
LEMMA DispatchUntouched ==
    ASSUME ServiceInv, UNCHANGED <<phase, waiting, asked, tried>>,
           attempted' = attempted,
           \/ ~open'
           \/ phase = "idle"
           \/ open /\ held' = held /\ rows'[held].targets = rows[held].targets
    PROVE  DispatchOfTheRecord'
  BY DEF ServiceInv, DispatchOfTheRecord

\* A press keeps DispatchOfTheRecord: enqueue leaves a held record alone.
LEMMA PressRecord ==
    ASSUME ServiceInv, (\E p \in Presses : PressStep(p)) \/ CooldownEnds
    PROVE  DispatchOfTheRecord'
<1>1. UNCHANGED <<open, held, phase, waiting, asked, tried, attempted>>
  BY DEF PressStep, PressArrives, PressLocks, PressAccepted, PressIgnored, PressFails,
         CooldownEnds, PressKeeps, workerVars
<1>2. \/ rows' = rows
      \/ open /\ \E ts \in SUBSET enabled : Enqueue(ts)
  BY DEF PressStep, PressArrives, PressLocks, PressAccepted, PressIgnored, PressFails,
         CooldownEnds
<1>3. ASSUME open, phase # "idle" PROVE rows'[held] = rows[held]
  <2>1. held \in Records /\ held # nextId
    BY <1>3, WaitingHasRecord DEF ServiceInv, IndInv, TypeOK, TableTypeOK, Records
  <2>2. rows \in [Records -> Row]
    BY DEF ServiceInv, IndInv, TypeOK, TableTypeOK
  <2> QED
    BY <1>2, <2>1, <2>2 DEF Enqueue
<1> QED
  BY <1>1, <1>3, DispatchUntouched

\* The worker keeps it: it starts a dispatch to the targets it has just read.
LEMMA WorkerRecord ==
    ASSUME ServiceInv, WorkerStep
    PROVE  DispatchOfTheRecord'
<1> USE DEF WorkerKeeps, fanOutVars, tableVars, workerVars
<1>1. phase \in {"idle", "running", "abandoned", "failed"}
  BY DEF ServiceInv, ServiceTypeOK, FanOutTypeOK
<1>2. CASE WorkerLooks \/ WorkerFindsNone \/ WorkerCrashes \/ WorkerReadsTargets
  <2>1. UNCHANGED <<open, held, rows, phase, waiting, asked, tried, attempted>>
    BY <1>2 DEF WorkerLooks, WorkerFindsNone, WorkerCrashes, WorkerReadsTargets
  <2> QED
    BY <2>1, DispatchUntouched
<1>3. CASE WorkerClaims
  <2>1. PICK r \in Records : ClaimNextReady(r) /\ held' = r /\ StartDispatch(Addressees(r))
    BY <1>3 DEF WorkerClaims
  <2>2. rows \in [Records -> Row]
    BY DEF ServiceInv, IndInv, TypeOK, TableTypeOK
  <2>3. rows'[held'].targets = rows[r].targets
    BY <2>1, <2>2 DEF ClaimNextReady, Row
  <2>4. waiting' \subseteq rows[r].targets
    BY <2>1 DEF StartDispatch, Addressees
  <2>5. asked' = {} /\ tried' = {} /\ phase' = "running"
    BY <2>1 DEF StartDispatch, ServiceInv, DispatchOfTheRecord
  <2> QED
    BY <2>3, <2>4, <2>5 DEF DispatchOfTheRecord
<1>4. CASE WorkerCompletes \/ WorkerRequeues
  <2>1. UNCHANGED <<phase, waiting, asked, tried, attempted>> /\ worker = "finalizing"
    BY <1>4 DEF WorkerCompletes, WorkerRequeues
  <2>2. phase = "idle"
    BY <1>1, <2>1 DEF ServiceInv, ThreadsAgree
  <2> QED
    BY <2>1, <2>2, DispatchUntouched
<1> QED
  BY <1>2, <1>3, <1>4 DEF WorkerStep

\* The dispatch keeps it: a report takes the target off both sets.
LEMMA DispatchRecord ==
    ASSUME ServiceInv,
           \/ \E d \in Targets : DispatchStep(d)
           \/ DispatchEnd \/ DeadlinePasses \/ ReportFails \/ WorkerStatementFails
    PROVE  DispatchOfTheRecord'
<1> USE DEF DispatchKeeps, WorkerKeeps, tableVars, workerVars
<1>1. ASSUME NEW d \in Targets, DispatchSends(d) PROVE DispatchOfTheRecord'
  BY <1>1 DEF DispatchSends, SendRequest, ServiceInv, DispatchOfTheRecord
<1>2. ASSUME NEW d \in Targets, RequestEnds(d) PROVE DispatchOfTheRecord'
  BY <1>2 DEF RequestEnds, EndRequest, ServiceInv, DispatchOfTheRecord
<1>3. ASSUME NEW d \in Targets, NEW res \in Results, DispatchReports(d, res)
      PROVE  DispatchOfTheRecord'
  <2>1. /\ UNCHANGED <<open, held, phase, asked, tried, attempted>>
        /\ waiting' = waiting \ {d} /\ d \notin asked
        /\ open /\ phase # "idle"
        /\ rows' = [rows EXCEPT ![held] = MarkedRow(rows[held], d, KeepForRetry(res))]
    BY <1>3 DEF DispatchReports, ReportResult, MarkProcessedDestination
  <2>2. held \in Records /\ rows \in [Records -> Row]
    BY <2>1, WaitingHasRecord DEF ServiceInv, IndInv, TypeOK, TableTypeOK
  <2>3. KeepForRetry(res) \in BOOLEAN
    BY DEF KeepForRetry
  <2>4. rows[held] \in Row
    BY <2>2
  <2>5. rows[held].targets \ {d} \subseteq rows'[held].targets
    BY <2>1, <2>2, <2>3, <2>4, MarkedRowType
  <2> QED
    BY <2>1, <2>5 DEF ServiceInv, DispatchOfTheRecord
<1>4. ASSUME NEW d \in Targets, DispatchDetaches(d) \/ DetachedLeaves(d)
      PROVE  DispatchOfTheRecord'
  <2>1. UNCHANGED <<open, held, rows, phase, waiting, asked, tried, attempted>>
    BY <1>4 DEF DispatchDetaches, DetachedLeaves, DetachRequest, LeaveDetached
  <2> QED
    BY <2>1, DispatchUntouched
<1>5. CASE DispatchReturns
  BY <1>5 DEF DispatchReturns, ReturnDispatch, ServiceInv, DispatchOfTheRecord
<1>6. CASE DispatchRaises \/ ReportFails
  <2>1. UNCHANGED <<open, held, rows, waiting, asked, tried, attempted>>
    BY <1>6 DEF DispatchRaises, ReportFails, AbandonDispatch, FailDispatch
  <2>2. phase = "running" /\ phase' # "idle"
    BY <1>6 DEF DispatchRaises, ReportFails, AbandonDispatch, FailDispatch
  <2> QED
    BY <2>1, <2>2 DEF ServiceInv, DispatchOfTheRecord
<1>7. CASE DeadlinePasses \/ WorkerStatementFails
  <2>1. UNCHANGED <<open, held, rows, phase, waiting, asked, tried, attempted>>
    BY <1>7 DEF DeadlinePasses, WorkerStatementFails, CutDispatch, fanOutVars
  <2> QED
    BY <2>1, DispatchUntouched
<1> QED
  BY <1>1, <1>2, <1>3, <1>4, <1>5, <1>6, <1>7 DEF DispatchStep, DispatchEnd

\* The main thread keeps it: it does not touch what is owed.
LEMMA MainRecord ==
    ASSUME ServiceInv, MainStep \/ CleanUpDetached \/ Signal
    PROVE  DispatchOfTheRecord'
<1> USE DEF MainKeeps, QueueKept, CloseStore, tableVars, workerVars, queueVars, fanOutVars
<1>1. UNCHANGED <<rows, phase, waiting, asked, tried, attempted>>
  BY DEF MainStep, MainStops, JoinReturns, JoinTimesOut, CloseDispatcher, ShutdownCloses,
         CleanUpDetached, Signal, CleanUp
<1>2. UNCHANGED <<open, held>> \/ ~open'
  BY DEF MainStep, MainStops, JoinReturns, JoinTimesOut, CloseDispatcher, ShutdownCloses,
         CleanUpDetached, Signal
<1> QED
  BY <1>1, <1>2, DispatchUntouched

\* A crash and a new process keep it: nobody is waited for any more.
LEMMA ProcessRecord ==
    ASSUME ServiceInv,
           MainExits \/ Crash \/ Restart \/ ValidationRecovers \/ Tick
    PROVE  DispatchOfTheRecord'
<1> USE DEF tableVars, workerVars, fanOutVars
<1>1. CASE ProcessEnds
  BY <1>1 DEF ProcessEnds, DispatchOfTheRecord
<1>2. CASE Restart
  <2>1. phase = "idle"
    BY <1>2 DEF Restart, ServiceInv, DownMeansBlank
  <2> QED
    BY <1>2, <2>1, DispatchUntouched DEF Restart
<1>3. CASE ValidationRecovers
  <2>1. /\ UNCHANGED <<open, held, phase, waiting, asked, tried, attempted>>
        /\ rows' = [r \in Records |-> RecoveredRow(rows[r])]
    BY <1>3 DEF ValidationRecovers, RecoverProcessingRows
  <2>2. ASSUME open, phase # "idle" PROVE rows'[held].targets = rows[held].targets
    BY <2>1, <2>2, WaitingHasRecord, RecoveredRowType
       DEF ServiceInv, IndInv, TypeOK, TableTypeOK
  <2> QED
    BY <2>1, <2>2, DispatchUntouched
<1>4. CASE Tick
  BY <1>4, DispatchUntouched DEF Tick
<1> QED
  BY <1>1, <1>2, <1>3, <1>4 DEF MainExits, Crash

-----------------------------------------------------------------------------
(* What a step may take from a record.                                     *)

\* A report takes a target off only when it settles it, and a target that is
\* settled had its send for this record get past its preflight.
LEMMA ReportTakesTried ==
    ASSUME ServiceInv, NEW e \in Targets, NEW res \in Results, DispatchReports(e, res),
           NEW r \in Records, NEW d \in rows[r].targets, d \notin rows'[r].targets
    PROVE  <<r, d>> \in attempted
<1> DEFINE keep == KeepForRetry(res)
<1>1. /\ open /\ phase # "idle" /\ res # "refused"
      /\ IF res = "skipped" THEN cut ELSE e \in tried
      /\ rows' = [rows EXCEPT ![held] = MarkedRow(rows[held], e, keep)]
  BY DEF DispatchReports, ReportResult, MarkProcessedDestination
<1>2. held \in Records /\ rows \in [Records -> Row]
  BY <1>1, WaitingHasRecord DEF ServiceInv, IndInv, TypeOK, TableTypeOK
<1>3. r = held
  BY <1>1, <1>2
<1>4. rows'[r] = MarkedRow(rows[held], e, keep) /\ rows[held] \in Row
  BY <1>1, <1>2, <1>3
<1>5. keep \in BOOLEAN
  BY DEF KeepForRetry
<1>6. d = e
  BY <1>3, <1>4, <1>5, MarkedRowType
<1>7. ~keep
  BY <1>3, <1>4 DEF MarkedRow
<1>8. e \in tried
  BY <1>1, <1>7 DEF KeepForRetry
<1> QED
  BY <1>1, <1>3, <1>6, <1>8 DEF ServiceInv, DispatchOfTheRecord

\* The worker's own statements take nothing: a record is done when it owes
\* nobody, and requeue writes back what it owes.
LEMMA WorkerTakesNothing ==
    ASSUME ServiceInv, WorkerStep, NEW r \in Records
    PROVE  rows[r].targets \subseteq rows'[r].targets
<1> USE DEF tableVars
<1>1. rows \in [Records -> Row]
  BY DEF ServiceInv, IndInv, TypeOK, TableTypeOK
<1>2. CASE WorkerLooks \/ WorkerFindsNone \/ WorkerCrashes \/ WorkerReadsTargets
  BY <1>2 DEF WorkerLooks, WorkerFindsNone, WorkerCrashes, WorkerReadsTargets
<1>3. CASE WorkerClaims
  BY <1>1, <1>3 DEF WorkerClaims, ClaimNextReady, Row
<1>4. CASE WorkerCompletes
  <2>1. rows[held].targets = {} /\ rows' = [rows EXCEPT ![held] = NoRow]
    BY <1>4 DEF WorkerCompletes, CompleteSuccess, ServiceInv, IndInv, SnapshotIsCurrent
  <2> QED
    BY <1>1, <2>1
<1>5. CASE WorkerRequeues
  <2>1. PICK delay : rows' = [rows EXCEPT ![held] = RequeuedRow(rows[held], targetsRead, delay)]
    BY <1>5 DEF WorkerRequeues, Requeue
  <2>2. targetsRead = rows[held].targets
    BY <1>5 DEF WorkerRequeues, ServiceInv, IndInv, SnapshotIsCurrent
  <2>3. CASE r = held
    <3>1. rows[held] \in Row /\ rows'[r] = RequeuedRow(rows[held], targetsRead, delay)
      BY <1>1, <2>1, <2>3
    <3> QED
      BY <2>2, <2>3, <3>1 DEF RequeuedRow, Row
  <2>4. CASE r # held
    BY <1>1, <2>1, <2>4
  <2> QED
    BY <2>3, <2>4
<1> QED
  BY <1>2, <1>3, <1>4, <1>5 DEF WorkerStep

\* Nor does a press, a shutdown, a crash, a recovery or the rest of a dispatch.
LEMMA OthersTakeNothing ==
    ASSUME ServiceInv, NEW r \in Records,
           \/ \E p \in Presses : PressStep(p)
           \/ \E d \in Targets :
                 DispatchSends(d) \/ RequestEnds(d) \/ DispatchDetaches(d) \/ DetachedLeaves(d)
           \/ DispatchEnd \/ DeadlinePasses \/ ReportFails \/ WorkerStatementFails
           \/ MainStep \/ CleanUpDetached \/ Signal
           \/ MainExits \/ Crash \/ Restart \/ ValidationRecovers \/ Tick \/ CooldownEnds
    PROVE  rows[r].targets \subseteq rows'[r].targets
<1> USE DEF tableVars
<1>1. rows \in [Records -> Row]
  BY DEF ServiceInv, IndInv, TypeOK, TableTypeOK
<1>2. ASSUME NEW p \in Presses, PressStep(p)
      PROVE  rows[r].targets \subseteq rows'[r].targets
  <2>1. \/ rows' = rows
        \/ \E ts \in SUBSET enabled : Enqueue(ts)
    BY <1>2 DEF PressStep, PressArrives, PressLocks, PressAccepted, PressIgnored, PressFails
  <2>2. nextId \in Records => rows[nextId].targets = {}
    BY DEF ServiceInv, IndInv, RowsWellFormed, NoRow, Records
  <2> QED
    BY <1>1, <2>1, <2>2 DEF Enqueue
<1>3. CASE Restart \/ ValidationRecovers
  <2>1. rows' = [q \in Records |-> RecoveredRow(rows[q])]
    BY <1>3 DEF Restart, ValidationRecovers, RecoverProcessingRows
  <2> QED
    BY <1>1, <2>1, RecoveredRowType
<1>4. ASSUME NEW d \in Targets,
             DispatchSends(d) \/ RequestEnds(d) \/ DispatchDetaches(d) \/ DetachedLeaves(d)
      PROVE  rows' = rows
  BY <1>4 DEF DispatchSends, RequestEnds, DispatchDetaches, DetachedLeaves
<1>5. ASSUME DispatchEnd \/ DeadlinePasses \/ ReportFails \/ WorkerStatementFails
      PROVE  rows' = rows
  BY <1>5 DEF DispatchEnd, DispatchReturns, DispatchRaises, DeadlinePasses, ReportFails,
     WorkerStatementFails
<1>6. ASSUME MainStep \/ CleanUpDetached \/ Signal
      PROVE  rows' = rows
  BY <1>6 DEF MainStep, MainStops, JoinReturns, JoinTimesOut, CloseDispatcher,
     ShutdownCloses, CleanUpDetached, Signal, MainKeeps, queueVars
<1>7. ASSUME MainExits \/ Crash \/ Tick \/ CooldownEnds
      PROVE  rows' = rows
  BY <1>7 DEF MainExits, Crash, ProcessEnds, Tick, CooldownEnds
<1> QED
  BY <1>2, <1>3, <1>4, <1>5, <1>6, <1>7

-----------------------------------------------------------------------------
(* The theorems.                                                           *)

\* A new process with an empty table satisfies the invariant.
LEMMA InitService == ServiceInit => ServiceInv
<1> SUFFICES ASSUME ServiceInit PROVE ServiceInv
  OBVIOUS
<1> USE DEF ServiceInit, FanOutInit
<1>1. IndInv
  BY InitIndInv
<1>2. ServiceTypeOK
  <2>1. TypeOK
    BY <1>1 DEF IndInv
  <2>2. FanOutTypeOK
    BY DEF FanOutTypeOK
  <2>3. press \in [Presses -> {"idle", "checked", "locked"}] /\ mishaps \in 0 .. MaxMishaps
    BY ServiceAssumption
  <2> QED
    BY <2>1, <2>2, <2>3 DEF ServiceTypeOK, WorkerStates, MainStates
<1>3. DownMeansBlank /\ StoreOutlivesReporters /\ DispatchOfTheRecord
  BY DEF DownMeansBlank, StoreOutlivesReporters, DispatchOfTheRecord
<1>4. ThreadsAgree
  BY DEF ThreadsAgree, WorkerAlive, Init
<1> QED
  BY <1>1, <1>2, <1>3, <1>4 DEF ServiceInv

\* Every step keeps it.
LEMMA NextService == ServiceInv /\ [ServiceNext]_serviceVars => ServiceInv'
<1> SUFFICES ASSUME ServiceInv, [ServiceNext]_serviceVars PROVE ServiceInv'
  OBVIOUS
<1>1. IndInv' /\ ServiceTypeOK'
  BY ServiceTypesKept
<1>2. Order'
  <2>1. CASE UNCHANGED serviceVars
    BY <2>1 DEF serviceVars, queueVars, workerVars, threadVars, fanOutVars, ServiceInv,
       Order, DownMeansBlank, ThreadsAgree, StoreOutlivesReporters, WorkerAlive
  <2>2. CASE ServiceNext
    BY <2>2, PressOrder, WorkerOrder, DispatchOrder, MainOrder, ProcessOrder
       DEF ServiceNext
  <2> QED
    BY <2>1, <2>2
<1>3. DispatchOfTheRecord'
  <2>1. CASE UNCHANGED serviceVars
    BY <2>1, DispatchUntouched DEF serviceVars, queueVars, workerVars, fanOutVars
  <2>2. CASE ServiceNext
    BY <2>2, PressRecord, WorkerRecord, DispatchRecord, MainRecord, ProcessRecord
       DEF ServiceNext
  <2> QED
    BY <2>1, <2>2
<1> QED
  BY <1>1, <1>2, <1>3 DEF ServiceInv, Order

\* The invariant holds in every reachable state.
THEOREM ServiceInvariant == ServiceSpec => []ServiceInv
  BY InitService, NextService, PTL DEF ServiceSpec

\* Types.
THEOREM ServiceTypes == ServiceSpec => []ServiceTypeOK
<1>1. ServiceInv => ServiceTypeOK
  BY DEF ServiceInv
<1> QED
  BY <1>1, ServiceInvariant, PTL

\* AlertService uses its queue as PersistentQueue specifies, through claims,
\* late reports, a worker that raises, shutdowns, kills, restarts and a second
\* process.
THEOREM ServiceFollowsQueue == ServiceSpec => FollowsQueueContract
<1>1. ServiceInit => Init
  BY DEF ServiceInit
<1>2. ServiceInv /\ [ServiceNext]_serviceVars => [Next]_vars
  BY ServiceRefinesQueue
<1> QED
  BY <1>1, <1>2, ServiceInvariant, PTL DEF ServiceSpec, FollowsQueueContract, Spec

\* So what is proved of the queue holds of the service: no row is stranded, the
\* backlog is bounded, and no alert is forgotten nor a target brought back.
THEOREM ServiceKeepsQueuePromises ==
    ServiceSpec => [](NoStrandedRow /\ BacklogBounded) /\ ImplementsOutbox
  BY ServiceFollowsQueue, SpecNoStrandedRow, SpecBacklogBounded, SpecImplementsOutbox, PTL
     DEF FollowsQueueContract

\* _dispatch_single_destination for a record that was dispatched before: a
\* request is made only to a destination the record still owes.
THEOREM OnlyOwedAreAsked == ServiceSpec => []RequestsAreOwed
<1>1. ServiceInv => RequestsAreOwed
  BY DEF ServiceInv, DispatchOfTheRecord, RequestsAreOwed
<1> QED
  BY <1>1, ServiceInvariant, PTL

\* shutdown, keep_queue_store_open: the queue stays open for late reports.
THEOREM StoreKeptForReporters == ServiceSpec => []StoreOutlivesReporters
<1>1. ServiceInv => StoreOutlivesReporters
  BY DEF ServiceInv
<1> QED
  BY <1>1, ServiceInvariant, PTL

\* _persist_destination_progress and _finalize_record: an alert loses a
\* destination only after a call of its send for that alert got past its preflight
\* check, never by a cutoff, a crash, a recovery or a requeue.
THEOREM NobodyDropped == ServiceSpec => NothingDroppedUntried
<1> DEFINE Lossless == \A r \in Records : \A d \in rows[r].targets :
                          d \notin rows'[r].targets => <<r, d>> \in attempted
<1>1. ServiceInv /\ [ServiceNext]_serviceVars => [Lossless]_serviceVars
  <2> SUFFICES ASSUME ServiceInv, ServiceNext, NEW r \in Records,
                      NEW d \in rows[r].targets, d \notin rows'[r].targets
               PROVE  <<r, d>> \in attempted
    OBVIOUS
  <2>1. ASSUME NEW e \in Targets, NEW res \in Results, DispatchReports(e, res)
        PROVE  <<r, d>> \in attempted
    BY <2>1, ReportTakesTried
  <2>2. CASE WorkerStep
    BY <2>2, WorkerTakesNothing
  <2>3. ~WorkerStep => \E e \in Targets, res \in Results : DispatchReports(e, res)
    BY OthersTakeNothing DEF ServiceNext, DispatchStep
  <2> QED
    BY <2>1, <2>2, <2>3
<1> QED
  BY <1>1, ServiceInvariant, PTL DEF ServiceSpec, NothingDroppedUntried

=============================================================================
