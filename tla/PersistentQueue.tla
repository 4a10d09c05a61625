--------------------------- MODULE PersistentQueue ---------------------------
(***************************************************************************)
(* persistent_queue.py: the SQLite table pending_alerts that carries an    *)
(* alert from the button press to the last destination that answered it.   *)
(*                                                                         *)
(* Every operation of the class runs under the instance lock and commits   *)
(* one SQLite transaction, so each is one action (a mark reads the row     *)
(* before its transaction begins, but another process never changes the    *)
(* targets).  The table survives crashes; the instance, and what its       *)
(* caller remembers, do not.                                               *)
(*                                                                         *)
(* The operators up to the line "Standalone specification" take what they  *)
(* need as parameters and constrain only the variables of the table, so    *)
(* that AlertService can put them in its own, larger steps.  The           *)
(* standalone specification drives them the way alert_service.py does: one *)
(* worker claims, marks and then completes or requeues the record, while   *)
(* presses enqueue, the wall clock moves either way, and the program is    *)
(* closed, killed, restarted, or joined by a second process.               *)
(***************************************************************************)
EXTENDS DispatchResults, Integers, FiniteSets

CONSTANTS
    Capacity,     \* [delivery] queue_capacity
    RetryBase,    \* [delivery] persistent_retry_base_seconds
    RetryMax,     \* [delivery] persistent_retry_max_seconds
    MaxRecords,   \* bound: how many records are ever inserted
    AttemptCap,   \* bound: attempt_count saturates here
    Horizon       \* bound: times of day at or after it are not told apart

ASSUME CapacityAssumption == Capacity \in Nat \ {0}
ASSUME RetryAssumption == RetryBase \in Nat /\ RetryMax \in Nat
ASSUME BoundsAssumption ==
    /\ MaxRecords \in Nat \ {0}
    /\ AttemptCap \in Nat
    /\ Horizon \in Nat

VARIABLES
    rows,      \* the table: record id -> row, status "none" where no row is
    nextId,    \* the AUTOINCREMENT counter: ids are never used again
    clock      \* the wall clock _utcnow() reads

tableVars == <<rows, nextId>>

Records == 1 .. MaxRecords
Times == 0 .. Horizon
Attempts == 0 .. AttemptCap

NoRecord == 0

Row == [status   : {"none", "queued", "processing"},
        targets  : SUBSET Targets,
        created  : Times,
        due      : Times,
        attempts : Attempts]

NoRow == [status |-> "none", targets |-> {}, created |-> 0, due |-> 0,
          attempts |-> 0]

-----------------------------------------------------------------------------
(* What the SQL selects.                                                   *)

InState(st) == {r \in Records : rows[r].status = st}
Queued == InState("queued")
Processing == InState("processing")
Live == Queued \cup Processing

\* Mutant: the comparison lets one row too many in.
HasRoomOffByOne == Cardinality(Queued) <= Capacity

\* SELECT COUNT(*) ... WHERE status = 'queued', compared to the capacity.
HasRoom == Cardinality(Queued) < Capacity

Ready == {r \in Queued : rows[r].due <= clock}

\* ORDER BY next_attempt_at ASC, record_id ASC
Before(r, s) == \/ rows[r].due < rows[s].due
                \/ rows[r].due = rows[s].due /\ r <= s

IsFirstReady(r) == r \in Ready /\ \A s \in Ready : Before(r, s)

\* compute_retry_delay_seconds
RetryDelay(nextAttempt) ==
    IF RetryMax = 0 \/ RetryBase = 0
    THEN 0
    ELSE LET exponent == IF nextAttempt - 1 > 0 THEN nextAttempt - 1 ELSE 0
             delay == RetryBase * 2 ^ (IF exponent < 16 THEN exponent ELSE 16)
         IN  IF delay < RetryMax THEN delay ELSE RetryMax

AtMostHorizon(t) == IF t < Horizon THEN t ELSE Horizon
NextAttempt(n) == IF n < AttemptCap THEN n + 1 ELSE AttemptCap

-----------------------------------------------------------------------------
(* The operations.                                                         *)

\* The row enqueue inserts: nobody has been asked, due at once.
FreshRow(ts) == [status |-> "queued", targets |-> ts, created |-> clock,
                 due |-> clock, attempts |-> 0]

Enqueue(ts) ==
    /\ nextId \in Records                  \* bound MaxRecords
    /\ HasRoom                             \* else QueueFullError, rolled back
    /\ rows' = [rows EXCEPT ![nextId] = FreshRow(ts)]
    /\ nextId' = nextId + 1

ClaimNextReady(r) ==
    /\ IsFirstReady(r)
    /\ rows' = [rows EXCEPT ![r].status = "processing"]
    /\ UNCHANGED nextId

\* Mutant: a finished row is flagged instead of deleted.
MarkedRowFlagged(row, d, keep) ==
    IF row.status = "none" \/ keep
    THEN row
    ELSE IF row.targets \ {d} = {}
    THEN [row EXCEPT !.status = "done", !.targets = {}]
    ELSE [row EXCEPT !.targets = @ \ {d}]

\* Mutant: the last target is removed and the empty row stays.
MarkedRowKept(row, d, keep) ==
    IF row.status = "none" \/ keep
    THEN row
    ELSE [row EXCEPT !.targets = @ \ {d}]

\* Mutant: the first answer deletes the row.
MarkedRowDeleted(row, d, keep) ==
    IF row.status = "none" \/ keep THEN row ELSE NoRow

\* What mark_processed_destination leaves of the row: a target kept for retry
\* only changes last_error, and a row without targets is deleted.
MarkedRow(row, d, keep) ==
    IF row.status = "none" \/ keep
    THEN row
    ELSE IF row.targets \ {d} = {}
    THEN NoRow
    ELSE [row EXCEPT !.targets = @ \ {d}]

MarkProcessedDestination(r, d, keep) ==
    /\ rows' = [rows EXCEPT ![r] = MarkedRow(rows[r], d, keep)]
    /\ UNCHANGED nextId

\* Mutant: the query looks only at the row while it is in processing.
CurrentTargetsProcessing(r) ==
    IF rows[r].status = "processing" THEN rows[r].targets ELSE {}

\* current_targets: empty when the row is gone.
CurrentTargets(r) == rows[r].targets

CompleteSuccess(r) ==
    /\ rows' = [rows EXCEPT ![r] = NoRow]
    /\ UNCHANGED nextId

\* The row requeue writes; the UPDATE matches nothing when the row is gone.
RequeuedRow(row, ts, delay) ==
    IF row.status = "none"
    THEN row
    ELSE [row EXCEPT !.status = "queued",
                     !.targets = ts,
                     !.due = AtMostHorizon(clock + delay),
                     !.attempts = NextAttempt(@)]

Requeue(r, ts, delay) ==
    /\ rows' = [rows EXCEPT ![r] = RequeuedRow(rows[r], ts, delay)]
    /\ UNCHANGED nextId

\* Mutant: only the bookkeeping is reset, the status is not.
RecoveredRowStays(row) ==
    IF row.status = "processing" THEN [row EXCEPT !.due = row.created] ELSE row

RecoveredRow(row) ==
    IF row.status = "processing"
    THEN [row EXCEPT !.status = "queued", !.due = row.created]
    ELSE row

\* _recover_processing_rows, run by every constructor that is not told not to.
RecoverProcessingRows ==
    /\ rows' = [r \in Records |-> RecoveredRow(rows[r])]
    /\ UNCHANGED nextId

TableInit ==
    /\ rows = [r \in Records |-> NoRow]
    /\ nextId = 1
    /\ clock = 0

TableTypeOK ==
    /\ rows \in [Records -> Row]
    /\ nextId \in 1 .. MaxRecords + 1
    /\ clock \in Times

-----------------------------------------------------------------------------
(* Standalone specification: the table and the one worker that uses it.    *)

VARIABLES
    open,         \* this process holds an open instance
    held,         \* the record the worker claimed and is not done with
    finalizing,   \* the worker is inside _finalize_record
    targetsRead   \* what its call of current_targets returned there

workerVars == <<held, finalizing, targetsRead>>
vars == <<rows, nextId, clock, open, held, finalizing, targetsRead>>

\* What a worker that holds no record remembers.
Forget ==
    /\ held' = NoRecord
    /\ finalizing' = FALSE
    /\ targetsRead' = {}

Init ==
    /\ TableInit
    /\ open = TRUE
    /\ held = NoRecord
    /\ finalizing = FALSE
    /\ targetsRead = {}

\* config.py lets no button have an empty list of destinations.
Press ==
    /\ open
    /\ \E ts \in (SUBSET Targets) \ {{}} : Enqueue(ts)
    /\ UNCHANGED <<clock, open, workerVars>>

Claim ==
    /\ open
    /\ held = NoRecord
    /\ \E r \in Records : ClaimNextReady(r) /\ held' = r
    /\ UNCHANGED <<clock, open, finalizing, targetsRead>>

\* A destination answered: result_handler, in the worker's own thread or, when
\* the dispatch was cut off, in the thread that served the late request.
Mark ==
    /\ open
    /\ held # NoRecord
    /\ ~finalizing
    /\ \E d \in Targets, keep \in BOOLEAN :
          MarkProcessedDestination(held, d, keep)
    /\ UNCHANGED <<clock, open, workerVars>>

\* _finalize_record, first half.
ReadTargets ==
    /\ open
    /\ held # NoRecord
    /\ ~finalizing
    /\ finalizing' = TRUE
    /\ targetsRead' = CurrentTargets(held)
    /\ UNCHANGED <<rows, nextId, clock, open, held>>

\* _finalize_record, second half: done with the record, or back in the queue
\* (without a delay when the service is stopping).
Complete ==
    /\ open
    /\ finalizing
    /\ targetsRead = {}
    /\ CompleteSuccess(held)
    /\ Forget
    /\ UNCHANGED <<clock, open>>

PutBack ==
    /\ open
    /\ finalizing
    /\ targetsRead # {}
    /\ \E delay \in 0 .. RetryMax :
          /\ delay \in {0, RetryDelay(rows[held].attempts + 1)}
          /\ Requeue(held, targetsRead, delay)
    /\ Forget
    /\ UNCHANGED <<clock, open>>

\* close(), or the process dies: what the worker knew is gone, the table stays.
Close ==
    /\ open
    /\ open' = FALSE
    /\ Forget
    /\ UNCHANGED <<rows, nextId, clock>>

Reopen ==
    /\ ~open
    /\ RecoverProcessingRows
    /\ open' = TRUE
    /\ UNCHANGED <<clock, workerVars>>

\* app.py --validate-runtime and --validate-gpio open the same file from a
\* process of their own, while the service may be running.
OtherProcessOpens ==
    /\ RecoverProcessingRows
    /\ UNCHANGED <<clock, open, workerVars>>

\* The wall clock advances, or is stepped (no battery clock on the board).
ClockMoves ==
    /\ clock' \in Times \ {clock}
    /\ UNCHANGED <<rows, nextId, open, workerVars>>

Next ==
    \/ Press \/ Claim \/ Mark \/ ReadTargets \/ Complete \/ PutBack
    \/ Close \/ Reopen \/ OtherProcessOpens \/ ClockMoves

Spec == Init /\ [][Next]_vars

-----------------------------------------------------------------------------
(* Properties.                                                             *)

\* Type correctness.
TypeOK ==
    /\ TableTypeOK
    /\ open \in BOOLEAN
    /\ held \in Records \cup {NoRecord}
    /\ finalizing \in BOOLEAN
    /\ targetsRead \in SUBSET Targets

\* No row is stranded: while the queue is open, a row is "processing" only if
\* it is the one the worker holds.  Any other such row would never be claimed
\* again (claim_next_ready looks at "queued" rows only) and its alert would be
\* lost until the next restart.
NoStrandedRow == open => Processing \subseteq {held}

\* enqueue counts the queued rows and not the one in processing, so capacity
\* rows can wait beside it: the backlog is bounded by Capacity + 1, whatever
\* recovery, requeue and a second process do to the statuses.
BacklogBounded == Cardinality(Live) <= Capacity + 1

\* The snapshot that requeue writes over target_names_json is the row's own
\* set at that moment, also when the other process changed the status between.
SnapshotIsCurrent == finalizing => targetsRead = rows[held].targets

\* The rows are as the statements leave them: nothing was written from the
\* counter on, a row that is gone is gone entirely, and no live row is left
\* without a target (it would be claimed, dispatched to nobody and shown as a
\* success).
RowsWellFormed ==
    \A r \in Records :
        /\ r >= nextId => rows[r].status = "none"
        /\ rows[r].status = "none" => rows[r] = NoRow
        /\ rows[r].status # "none" => rows[r].targets # {}

\* What the worker remembers belongs to an open queue and a claimed record.
WorkerConsistent ==
    /\ ~open => held = NoRecord
    /\ held < nextId
    /\ finalizing => held # NoRecord
    /\ ~finalizing => targetsRead = {}

OneProcessing == \A r, s \in Processing : r = s

\* The inductive invariant of the proofs.
IndInv ==
    /\ TypeOK
    /\ RowsWellFormed
    /\ WorkerConsistent
    /\ OneProcessing
    /\ NoStrandedRow
    /\ SnapshotIsCurrent
    /\ BacklogBounded

\* What each record still owes: the refinement mapping.
Owed == [r \in Records |-> rows[r].targets]

Outbox == INSTANCE AlertOutbox WITH
    MaxAlerts <- MaxRecords,
    issued <- nextId - 1,
    owed <- Owed

\* The queue implements the outbox: a target leaves a row by one answer at a
\* time, no row vanishes while it owes somebody, and neither requeue nor
\* recovery brings back a target that answered.
ImplementsOutbox == Outbox!OutboxSpec

=============================================================================
