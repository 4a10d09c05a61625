----------------------- MODULE PersistentQueueProofs -----------------------
(***************************************************************************)
(* Proofs about PersistentQueue, for every value of its constants:         *)
(* the inductive invariant IndInv, the properties it contains, and that    *)
(* the queue implements the outbox.                                        *)
(***************************************************************************)
EXTENDS PersistentQueue, FiniteSetTheorems, TLAPS

-----------------------------------------------------------------------------
(* Lemmas about the operators.                                             *)

\* Every set of records is finite.
LEMMA RecordsFinite ==
    ASSUME NEW S \in SUBSET Records
    PROVE  IsFiniteSet(S) /\ Cardinality(S) \in Nat
<1>1. IsFiniteSet(Records)
  BY FS_Interval, BoundsAssumption DEF Records
<1> QED
  BY <1>1, FS_Subset, FS_CardinalityType

\* A set of records does not grow by losing members.
LEMMA RecordsMonotone ==
    ASSUME NEW S \in SUBSET Records, NEW T \in SUBSET S
    PROVE  Cardinality(T) <= Cardinality(S)
  BY RecordsFinite, FS_Subset

\* The row types: what each statement writes is a row.
LEMMA NoRowType == NoRow \in Row
  BY BoundsAssumption DEF NoRow, Row, Times, Attempts

\* What mark_processed_destination leaves is a row.
LEMMA MarkedRowType ==
    ASSUME NEW row \in Row, NEW d, NEW keep \in BOOLEAN
    PROVE  /\ MarkedRow(row, d, keep) \in Row
           /\ MarkedRow(row, d, keep).targets \in {row.targets, row.targets \ {d}}
  BY NoRowType DEF MarkedRow, Row, NoRow

\* What recovery leaves is a row, with the same targets and never in processing.
LEMMA RecoveredRowType ==
    ASSUME NEW row \in Row
    PROVE  /\ RecoveredRow(row) \in Row
           /\ RecoveredRow(row).targets = row.targets
           /\ RecoveredRow(row).status # "processing"
           /\ RecoveredRow(row).status = "none" <=> row.status = "none"
           /\ row.status # "processing" => RecoveredRow(row) = row
  BY DEF RecoveredRow, Row

\* What requeue leaves is a row: its due time and its count stay within the bounds.
LEMMA RequeuedRowType ==
    ASSUME NEW row \in Row, NEW ts \in SUBSET Targets, NEW delay \in Nat,
           clock \in Times
    PROVE  RequeuedRow(row, ts, delay) \in Row
<1>1. AtMostHorizon(clock + delay) \in Times
  BY BoundsAssumption DEF AtMostHorizon, Times
<1>2. NextAttempt(row.attempts) \in Attempts
  BY BoundsAssumption DEF NextAttempt, Attempts, Row
<1> QED
  BY <1>1, <1>2 DEF RequeuedRow, Row

-----------------------------------------------------------------------------
(* The inductive invariant.                                                *)

\* An empty table satisfies the inductive invariant.
LEMMA InitIndInv == Init => IndInv
<1> SUFFICES ASSUME Init PROVE IndInv
  OBVIOUS
<1> USE DEF Init, TableInit
<1>1. TypeOK
  <2>1. rows \in [Records -> Row]
    BY NoRowType
  <2>2. nextId \in 1 .. MaxRecords + 1 /\ clock \in Times
    BY BoundsAssumption DEF Times
  <2> QED
    BY <2>1, <2>2 DEF TypeOK, TableTypeOK
<1>2. Live = {} /\ Processing = {}
  BY DEF Live, Queued, Processing, InState, NoRow
<1>3. BacklogBounded
  BY <1>2, FS_EmptySet, CapacityAssumption DEF BacklogBounded
<1>4. RowsWellFormed /\ WorkerConsistent
  BY DEF RowsWellFormed, WorkerConsistent, NoRow, NoRecord
<1> QED
  BY <1>1, <1>2, <1>3, <1>4
     DEF IndInv, OneProcessing, NoStrandedRow, SnapshotIsCurrent

\* A step that makes no row live keeps the backlog bounded.
LEMMA BacklogKept ==
    ASSUME TypeOK, BacklogBounded, Live' \subseteq Live
    PROVE  BacklogBounded'
<1>1. Live \in SUBSET Records
  BY DEF Live, Queued, Processing, InState
<1>2. Cardinality(Live') <= Cardinality(Live)
  BY <1>1, RecordsMonotone
<1>3. Cardinality(Live) \in Nat /\ Cardinality(Live') \in Nat
  BY <1>1, RecordsFinite
<1> QED
  BY <1>2, <1>3, CapacityAssumption DEF BacklogBounded

\* One row is processed at a time, so a table with room for one more queued
\* row has at most Capacity live rows.
LEMMA RoomLeft ==
    ASSUME TypeOK, OneProcessing, HasRoom
    PROVE  Cardinality(Live) <= Capacity
<1>1. Queued \in SUBSET Records /\ IsFiniteSet(Queued) /\ Cardinality(Queued) \in Nat
  BY RecordsFinite DEF Queued, InState
<1>2. CASE Processing = {}
  BY <1>1, <1>2, CapacityAssumption DEF Live, HasRoom
<1>3. CASE Processing # {}
  <2>1. PICK p : Processing = {p}
    BY <1>3 DEF OneProcessing
  <2>2. Live = Queued \cup {p}
    BY <2>1 DEF Live
  <2>3. Cardinality(Live) <= Cardinality(Queued) + 1
    BY <1>1, <2>2, FS_AddElement
  <2> QED
    BY <1>1, <2>2, <2>3, RecordsFinite, FS_AddElement, CapacityAssumption DEF HasRoom
<1> QED
  BY <1>2, <1>3

\* enqueue adds a fresh row where none was, and only while there is room.
LEMMA PressIndInv ==
    ASSUME IndInv, Press
    PROVE  IndInv'
<1> USE DEF IndInv, TypeOK, TableTypeOK
<1>1. PICK ts \in (SUBSET Targets) \ {{}} : Enqueue(ts)
  BY DEF Press
<1>2. FreshRow(ts) \in Row
  BY BoundsAssumption DEF FreshRow, Row, Times, Attempts
<1>3. /\ nextId \in Records
      /\ rows' = [rows EXCEPT ![nextId] = FreshRow(ts)]
      /\ nextId' = nextId + 1
      /\ UNCHANGED <<clock, open, held, finalizing, targetsRead>>
  BY <1>1 DEF Press, Enqueue, workerVars
<1>4. TypeOK'
  BY <1>2, <1>3, BoundsAssumption DEF Records
<1>5. rows[nextId].status = "none"
  BY <1>3 DEF RowsWellFormed, Records
<1>6. RowsWellFormed'
  BY <1>2, <1>3, BoundsAssumption DEF RowsWellFormed, FreshRow, Records
<1>7. Processing' = Processing
  BY <1>3, <1>5 DEF Processing, InState, FreshRow
<1>8. SnapshotIsCurrent'
  <2> SUFFICES ASSUME finalizing PROVE targetsRead = rows'[held].targets
    BY <1>3 DEF SnapshotIsCurrent
  <2>1. held \in Records
    BY DEF WorkerConsistent
  <2>2. held # nextId
    BY <1>3 DEF WorkerConsistent, Records
  <2> QED
    BY <1>3, <2>1, <2>2 DEF SnapshotIsCurrent
<1>9. BacklogBounded'
  <2>1. Live' = Live \cup {nextId}
    BY <1>3, <1>5 DEF Live, Queued, Processing, InState, FreshRow
  <2>2. Cardinality(Live) <= Capacity
    BY <1>1, RoomLeft DEF Enqueue
  <2>3. Live \in SUBSET Records
    BY DEF Live, Queued, Processing, InState
  <2> QED
    BY <2>1, <2>2, <2>3, RecordsFinite, FS_AddElement, CapacityAssumption
       DEF BacklogBounded
<1>10. WorkerConsistent' /\ OneProcessing' /\ NoStrandedRow'
  BY <1>3, <1>7 DEF WorkerConsistent, OneProcessing, NoStrandedRow
<1> QED
  BY <1>4, <1>6, <1>8, <1>9, <1>10

\* A claim makes one queued row the only one in processing.
LEMMA ClaimIndInv ==
    ASSUME IndInv, Claim
    PROVE  IndInv'
<1> USE DEF IndInv, TypeOK, TableTypeOK
<1>1. PICK r \in Records : ClaimNextReady(r) /\ held' = r
  BY DEF Claim
<1>2. /\ open
      /\ held = NoRecord
      /\ rows[r].status = "queued"
      /\ rows' = [rows EXCEPT ![r] = [@ EXCEPT !.status = "processing"]]
      /\ UNCHANGED <<nextId, clock, open, finalizing, targetsRead>>
  BY <1>1 DEF Claim, ClaimNextReady, IsFirstReady, Ready, Queued, InState
<1>3. rows'[r] \in Row /\ rows'[r].status = "processing" /\ rows'[r].targets = rows[r].targets
  BY <1>2 DEF Row
<1>4. TypeOK'
  BY <1>1, <1>2, <1>3
<1>5. RowsWellFormed'
  BY <1>2, <1>3 DEF RowsWellFormed
<1>6. ~finalizing'
  BY <1>2 DEF WorkerConsistent
<1>7. WorkerConsistent'
  BY <1>1, <1>2, <1>6 DEF WorkerConsistent, RowsWellFormed, Records
<1>8. Processing = {}
  BY <1>2 DEF NoStrandedRow, Processing, InState, Records, NoRecord
<1>9. Processing' = {r}
  BY <1>2, <1>3, <1>8 DEF Processing, InState
<1>10. OneProcessing' /\ NoStrandedRow' /\ SnapshotIsCurrent'
  BY <1>1, <1>6, <1>9 DEF OneProcessing, NoStrandedRow, SnapshotIsCurrent
<1>11. Live' \subseteq Live
  BY <1>2 DEF Live, Queued, Processing, InState
<1> QED
  BY <1>4, <1>5, <1>7, <1>10, <1>11, BacklogKept

\* A step that only rewrites the row the worker holds, and not to "processing"
\* unless it was, keeps the table in order.
LEMMA HeldRowStep ==
    ASSUME IndInv, open, held \in Records, NEW row \in Row,
           rows' = [rows EXCEPT ![held] = row],
           nextId' = nextId, clock' = clock, open' = open,
           row.status = "none" => row = NoRow,
           row.status # "none" => row.targets # {},
           rows[held].status = "none" => row.status = "none",
           row.status = "processing" => rows[held].status = "processing",
           held' = held \/ (held' = NoRecord /\ row.status # "processing")
    PROVE  /\ TableTypeOK'
           /\ RowsWellFormed'
           /\ OneProcessing'
           /\ NoStrandedRow'
           /\ BacklogBounded'
<1> USE DEF IndInv, TypeOK, TableTypeOK
<1>1. TableTypeOK'
  OBVIOUS
<1>2. RowsWellFormed'
  BY DEF RowsWellFormed
<1>3. Processing' \subseteq Processing
  BY DEF Processing, InState
<1>4. NoStrandedRow'
  <2>1. held' = held \/ held \notin Processing'
    BY DEF Processing, InState
  <2> QED
    BY <1>3, <2>1 DEF NoStrandedRow
<1>5. Live' \subseteq Live
  BY DEF Live, Queued, Processing, InState, Row
<1> QED
  BY <1>1, <1>2, <1>3, <1>4, <1>5, BacklogKept DEF OneProcessing

\* A result removes a target of the held row, or the row with its last one.
LEMMA MarkIndInv ==
    ASSUME IndInv, Mark
    PROVE  IndInv'
<1> USE DEF IndInv, TypeOK, TableTypeOK
<1>1. PICK d \in Targets, keep \in BOOLEAN :
         MarkProcessedDestination(held, d, keep)
  BY DEF Mark
<1> DEFINE row == MarkedRow(rows[held], d, keep)
<1>2. /\ open
      /\ held \in Records
      /\ ~finalizing
      /\ rows' = [rows EXCEPT ![held] = row]
      /\ UNCHANGED <<nextId, clock, open, held, finalizing, targetsRead>>
  BY <1>1 DEF Mark, MarkProcessedDestination, workerVars
<1>3. rows[held] \in Row
  BY <1>2
<1>4. row \in Row
  BY <1>3, MarkedRowType
<1>5. /\ row.status = "none" => row = NoRow
      /\ row.status # "none" => row.targets # {}
      /\ rows[held].status = "none" => row.status = "none"
      /\ row.status = "processing" => rows[held].status = "processing"
  BY <1>2, <1>3 DEF MarkedRow, RowsWellFormed, NoRow, Row
<1> HIDE DEF row
<1>6. TableTypeOK' /\ RowsWellFormed' /\ OneProcessing' /\ NoStrandedRow' /\ BacklogBounded'
  BY <1>2, <1>4, <1>5, HeldRowStep
<1> QED
  BY <1>2, <1>6 DEF WorkerConsistent, SnapshotIsCurrent

\* The snapshot is taken from the row itself.
LEMMA ReadTargetsIndInv ==
    ASSUME IndInv, ReadTargets
    PROVE  IndInv'
<1> USE DEF IndInv, TypeOK, TableTypeOK
<1>1. /\ open /\ held # NoRecord
      /\ finalizing' = TRUE
      /\ targetsRead' = rows[held].targets
      /\ UNCHANGED <<rows, nextId, clock, open, held>>
  BY DEF ReadTargets, CurrentTargets
<1>2. rows[held] \in Row
  BY <1>1
<1>3. TypeOK' /\ SnapshotIsCurrent' /\ WorkerConsistent' /\ RowsWellFormed'
  BY <1>1, <1>2 DEF SnapshotIsCurrent, WorkerConsistent, RowsWellFormed, Row
<1>4. Processing' = Processing /\ Live' = Live
  BY <1>1 DEF Live, Queued, Processing, InState
<1> QED
  BY <1>1, <1>3, <1>4 DEF OneProcessing, NoStrandedRow, BacklogBounded

\* An empty snapshot means that the row is gone already.
LEMMA CompleteIndInv ==
    ASSUME IndInv, Complete
    PROVE  IndInv'
<1> USE DEF IndInv, TypeOK, TableTypeOK
<1>1. /\ open /\ held \in Records
      /\ rows' = [rows EXCEPT ![held] = NoRow]
      /\ held' = NoRecord /\ finalizing' = FALSE /\ targetsRead' = {}
      /\ UNCHANGED <<nextId, clock, open>>
  BY DEF Complete, CompleteSuccess, Forget, WorkerConsistent
<1>2. NoRow.status = "none"
  BY DEF NoRow
<1>3. TableTypeOK' /\ RowsWellFormed' /\ OneProcessing' /\ NoStrandedRow' /\ BacklogBounded'
  BY <1>1, <1>2, NoRowType, HeldRowStep
<1>4. NoRecord < nextId
  BY DEF NoRecord
<1> QED
  BY <1>1, <1>3, <1>4 DEF WorkerConsistent, SnapshotIsCurrent

\* requeue writes back the targets the row has.
LEMMA PutBackIndInv ==
    ASSUME IndInv, PutBack
    PROVE  IndInv'
<1> USE DEF IndInv, TypeOK, TableTypeOK
<1>1. PICK delay \in 0 .. RetryMax : Requeue(held, targetsRead, delay)
  BY DEF PutBack
<1> DEFINE row == RequeuedRow(rows[held], targetsRead, delay)
<1>2. /\ open /\ held \in Records /\ targetsRead # {}
      /\ rows' = [rows EXCEPT ![held] = row]
      /\ held' = NoRecord /\ finalizing' = FALSE /\ targetsRead' = {}
      /\ UNCHANGED <<nextId, clock, open>>
  BY <1>1 DEF PutBack, Requeue, Forget, WorkerConsistent
<1>3. delay \in Nat
  BY RetryAssumption
<1>4. rows[held] \in Row
  BY <1>2
<1>5. row \in Row
  BY <1>3, <1>4, RequeuedRowType
<1>6. /\ row.status = "none" => row = NoRow
      /\ row.status # "none" => row.targets # {}
      /\ rows[held].status = "none" => row.status = "none"
      /\ row.status # "processing"
  BY <1>2, <1>4 DEF RequeuedRow, RowsWellFormed, Row
<1> HIDE DEF row
<1>7. TableTypeOK' /\ RowsWellFormed' /\ OneProcessing' /\ NoStrandedRow' /\ BacklogBounded'
  BY <1>2, <1>5, <1>6, HeldRowStep
<1>8. NoRecord < nextId
  BY DEF NoRecord
<1> QED
  BY <1>2, <1>7, <1>8 DEF WorkerConsistent, SnapshotIsCurrent

\* Closing touches no row; nothing is claimed about the rows of a closed queue.
LEMMA CloseIndInv ==
    ASSUME IndInv, Close
    PROVE  IndInv'
<1> USE DEF IndInv, TypeOK, TableTypeOK
<1>1. /\ open' = FALSE
      /\ held' = NoRecord /\ finalizing' = FALSE /\ targetsRead' = {}
      /\ UNCHANGED <<rows, nextId, clock>>
  BY DEF Close, Forget
<1>2. Processing' = Processing /\ Live' = Live
  BY <1>1 DEF Live, Queued, Processing, InState
<1>3. NoRecord < nextId
  BY DEF NoRecord
<1>4. TypeOK' /\ WorkerConsistent' /\ RowsWellFormed'
  BY <1>1, <1>3 DEF WorkerConsistent, RowsWellFormed
<1> QED
  BY <1>1, <1>2, <1>4
     DEF OneProcessing, NoStrandedRow, BacklogBounded, SnapshotIsCurrent

\* Recovery leaves nothing in processing and does not change what is owed.
LEMMA RecoveryStep ==
    ASSUME IndInv, RecoverProcessingRows, clock' = clock
    PROVE  /\ TableTypeOK'
           /\ RowsWellFormed'
           /\ Processing' = {}
           /\ BacklogBounded'
           /\ \A r \in Records : rows'[r].targets = rows[r].targets
<1> USE DEF IndInv, TypeOK, TableTypeOK
<1>1. rows' = [r \in Records |-> RecoveredRow(rows[r])] /\ nextId' = nextId
  BY DEF RecoverProcessingRows
<1>2. \A r \in Records :
         /\ rows'[r] = RecoveredRow(rows[r])
         /\ rows'[r] \in Row
         /\ rows'[r].targets = rows[r].targets
         /\ rows'[r].status # "processing"
         /\ rows'[r].status = "none" <=> rows[r].status = "none"
         /\ rows[r].status # "processing" => rows'[r] = rows[r]
  BY <1>1, RecoveredRowType
<1>3. TableTypeOK'
  BY <1>1, <1>2
<1>4. RowsWellFormed'
  BY <1>1, <1>2 DEF RowsWellFormed
<1>5. Processing' = {}
  BY <1>2 DEF Processing, InState
<1>6. Live' \subseteq Live
  BY <1>2 DEF Live, Queued, Processing, InState, Row
<1> QED
  BY <1>2, <1>3, <1>4, <1>5, <1>6, BacklogKept

\* Opening recovers every row before the worker looks at one.
LEMMA ReopenIndInv ==
    ASSUME IndInv, Reopen \/ OtherProcessOpens
    PROVE  IndInv'
<1> USE DEF IndInv, TypeOK, TableTypeOK
<1>1. /\ RecoverProcessingRows
      /\ open' \in BOOLEAN
      /\ open => open'
      /\ UNCHANGED <<clock, held, finalizing, targetsRead>>
  BY DEF Reopen, OtherProcessOpens, workerVars
<1>2. nextId' = nextId
  BY <1>1 DEF RecoverProcessingRows
<1>3. /\ TableTypeOK' /\ RowsWellFormed' /\ Processing' = {} /\ BacklogBounded'
      /\ \A r \in Records : rows'[r].targets = rows[r].targets
  BY <1>1, RecoveryStep
<1>4. WorkerConsistent' /\ SnapshotIsCurrent'
  BY <1>1, <1>2, <1>3 DEF WorkerConsistent, SnapshotIsCurrent
<1> QED
  BY <1>1, <1>3, <1>4 DEF OneProcessing, NoStrandedRow

\* A recovery by another process, a move of the clock and a stutter.
LEMMA QuietIndInv ==
    ASSUME IndInv, ClockMoves \/ UNCHANGED vars
    PROVE  IndInv'
<1> USE DEF IndInv, TypeOK, TableTypeOK
<1>1. /\ clock' \in Times
      /\ UNCHANGED <<rows, nextId, open, held, finalizing, targetsRead>>
  BY DEF ClockMoves, vars, workerVars
<1>2. Processing' = Processing /\ Live' = Live
  BY <1>1 DEF Live, Queued, Processing, InState
<1>3. TypeOK' /\ WorkerConsistent' /\ RowsWellFormed'
  BY <1>1 DEF WorkerConsistent, RowsWellFormed
<1> QED
  BY <1>1, <1>2, <1>3
     DEF OneProcessing, NoStrandedRow, BacklogBounded, SnapshotIsCurrent

\* Every step keeps the inductive invariant.
LEMMA NextIndInv == IndInv /\ [Next]_vars => IndInv'
  BY PressIndInv, ClaimIndInv, MarkIndInv, ReadTargetsIndInv, CompleteIndInv,
     PutBackIndInv, CloseIndInv, ReopenIndInv, QuietIndInv
     DEF Next

\* IndInv holds in every reachable state of the queue: whatever presses, marks,
\* requeues, crashes, restarts, second processes and clock steps do, the table
\* is well formed and agrees with what the worker remembers.
THEOREM SpecIndInv == Spec => []IndInv
  BY InitIndInv, NextIndInv, PTL DEF Spec

\* Type correctness.
THEOREM SpecTypeOK == Spec => []TypeOK
<1>1. IndInv => TypeOK
  BY DEF IndInv
<1> QED
  BY <1>1, SpecIndInv, PTL

\* No alert is stranded in "processing" while the queue is open (claim_next_ready
\* and _recover_processing_rows).
THEOREM SpecNoStrandedRow == Spec => []NoStrandedRow
<1>1. IndInv => NoStrandedRow
  BY DEF IndInv
<1> QED
  BY <1>1, SpecIndInv, PTL

\* The backlog never exceeds Capacity + 1 alerts, although enqueue counts only
\* the queued rows and requeue and recovery count nothing.
THEOREM SpecBacklogBounded == Spec => []BacklogBounded
<1>1. IndInv => BacklogBounded
  BY DEF IndInv
<1> QED
  BY <1>1, SpecIndInv, PTL

\* requeue writes back the row's own targets, never a stale set.
THEOREM SpecSnapshotIsCurrent == Spec => []SnapshotIsCurrent
<1>1. IndInv => SnapshotIsCurrent
  BY DEF IndInv
<1> QED
  BY <1>1, SpecIndInv, PTL

-----------------------------------------------------------------------------
(* The queue implements the outbox.                                        *)

\* A step that inserts nothing and changes no row's targets is a stutter of
\* the outbox.
LEMMA OutboxStutter ==
    ASSUME nextId' = nextId, \A r \in Records : rows'[r].targets = rows[r].targets
    PROVE  UNCHANGED Outbox!outboxVars
  BY DEF Outbox!outboxVars, Owed

\* A step that rewrites one row is a stutter or an answer, by what it does to
\* the targets of that row.
LEMMA OutboxRowStep ==
    ASSUME TypeOK, NEW r \in Records, NEW row \in Row, nextId' = nextId,
           rows' = [rows EXCEPT ![r] = row],
           \/ row.targets = rows[r].targets
           \/ \E d \in rows[r].targets : row.targets = rows[r].targets \ {d}
    PROVE  [Outbox!OutboxNext]_Outbox!outboxVars
<1> USE DEF TypeOK, TableTypeOK
<1>1. CASE row.targets = rows[r].targets
  BY <1>1, OutboxStutter
<1>2. ASSUME NEW d \in rows[r].targets, row.targets = rows[r].targets \ {d}
      PROVE  Outbox!OutboxNext
  <2>1. r \in Outbox!Alerts
    BY DEF Outbox!Alerts, Records
  <2>2. Owed[r] = rows[r].targets
    BY DEF Owed
  <2>3. Owed' = [Owed EXCEPT ![r] = rows[r].targets \ {d}]
    BY <1>2 DEF Owed
  <2>4. Outbox!Discharge(r, d)
    BY <2>2, <2>3 DEF Outbox!Discharge, Owed
  <2>5. d \in Targets
    BY DEF Row
  <2> QED
    BY <2>1, <2>4, <2>5 DEF Outbox!OutboxNext
<1> QED
  BY <1>1, <1>2

\* An empty table owes nobody.
LEMMA OutboxInitially == Init => Outbox!OutboxInit
  BY DEF Init, TableInit, Outbox!OutboxInit, Outbox!Alerts, Records, NoRow, Owed

\* Every step of the queue is a step of the outbox or a stutter.
LEMMA OutboxStep ==
    ASSUME IndInv, [Next]_vars
    PROVE  [Outbox!OutboxNext]_Outbox!outboxVars
<1> USE DEF IndInv, TypeOK, TableTypeOK
<1>1. CASE Press
  <2>1. PICK ts \in (SUBSET Targets) \ {{}} : Enqueue(ts)
    BY <1>1 DEF Press
  <2>2. /\ nextId \in Records /\ nextId' = nextId + 1
        /\ rows' = [rows EXCEPT ![nextId] = FreshRow(ts)]
    BY <2>1 DEF Enqueue
  <2>3. FreshRow(ts).targets = ts
    BY DEF FreshRow
  <2>4. Owed' = [Owed EXCEPT ![nextId] = ts]
    BY <2>2, <2>3 DEF Owed
  <2>5. /\ nextId \in Nat
        /\ nextId - 1 + 1 = nextId
        /\ nextId - 1 < MaxRecords
    BY <2>2, BoundsAssumption DEF Records
  <2>6. Outbox!Accept(ts)
    <3> HIDE DEF IndInv, TypeOK, TableTypeOK
    <3>1. nextId' - 1 = nextId - 1 + 1
      BY <2>2, <2>5
    <3>2. Owed' = [Owed EXCEPT ![nextId - 1 + 1] = ts]
      BY <2>4, <2>5, Zenon
    <3> QED
      BY <2>5, <3>1, <3>2, Zenon DEF Outbox!Accept
  <2> QED
    BY <2>6 DEF Outbox!OutboxNext
<1>2. CASE Claim
  <2>1. PICK r \in Records : ClaimNextReady(r)
    BY <1>2 DEF Claim
  <2>2. rows' = [rows EXCEPT ![r] = [@ EXCEPT !.status = "processing"]] /\ nextId' = nextId
    BY <2>1 DEF ClaimNextReady
  <2>3. [rows[r] EXCEPT !.status = "processing"] \in Row
    BY DEF Row
  <2>4. [rows[r] EXCEPT !.status = "processing"].targets = rows[r].targets
    BY DEF Row
  <2> QED
    BY <2>2, <2>3, <2>4, OutboxRowStep
<1>3. CASE Mark
  <2>1. PICK d \in Targets, keep \in BOOLEAN : MarkProcessedDestination(held, d, keep)
    BY <1>3 DEF Mark
  <2> DEFINE row == MarkedRow(rows[held], d, keep)
  <2>2. held \in Records /\ rows' = [rows EXCEPT ![held] = row] /\ nextId' = nextId
    BY <1>3, <2>1 DEF Mark, MarkProcessedDestination
  <2>3. row \in Row
    BY <2>2, MarkedRowType
  <2>4. \/ row.targets = rows[held].targets
        \/ \E e \in rows[held].targets : row.targets = rows[held].targets \ {e}
    <3>1. row.targets = rows[held].targets \/ row.targets = rows[held].targets \ {d}
      BY <2>2, MarkedRowType
    <3>2. d \notin rows[held].targets => rows[held].targets \ {d} = rows[held].targets
      OBVIOUS
    <3> QED
      BY <3>1, <3>2
  <2> QED
    BY <2>2, <2>3, <2>4, OutboxRowStep
<1>4. CASE ReadTargets
  BY <1>4, OutboxStutter DEF ReadTargets
<1>5. CASE Complete
  <2>1. held \in Records /\ rows' = [rows EXCEPT ![held] = NoRow] /\ nextId' = nextId
    BY <1>5 DEF Complete, CompleteSuccess, WorkerConsistent
  <2>2. NoRow.targets = rows[held].targets
    BY <1>5 DEF Complete, SnapshotIsCurrent, NoRow
  <2> QED
    BY <2>1, <2>2, NoRowType, OutboxRowStep
<1>6. CASE PutBack
  <2>1. PICK delay \in 0 .. RetryMax : Requeue(held, targetsRead, delay)
    BY <1>6 DEF PutBack
  <2>2. delay \in Nat
    BY RetryAssumption
  <2> DEFINE row == RequeuedRow(rows[held], targetsRead, delay)
  <2>3. held \in Records /\ rows' = [rows EXCEPT ![held] = row] /\ nextId' = nextId
    BY <1>6, <2>1 DEF PutBack, Requeue, WorkerConsistent
  <2>4. row \in Row
    BY <2>2, <2>3, RequeuedRowType
  <2>5. row.targets = rows[held].targets
    BY <1>6, <2>3 DEF PutBack, SnapshotIsCurrent, RequeuedRow, Row
  <2> QED
    BY <2>3, <2>4, <2>5, OutboxRowStep
<1>7. CASE Close
  BY <1>7, OutboxStutter DEF Close
<1>8. CASE Reopen \/ OtherProcessOpens
  <2>1. RecoverProcessingRows /\ clock' = clock
    BY <1>8 DEF Reopen, OtherProcessOpens
  <2> QED
    BY <2>1, RecoveryStep, OutboxStutter DEF RecoverProcessingRows
<1>9. CASE ClockMoves
  BY <1>9, OutboxStutter DEF ClockMoves
<1>10. CASE UNCHANGED vars
  BY <1>10, OutboxStutter DEF vars
<1> QED
  BY <1>1, <1>2, <1>3, <1>4, <1>5, <1>6, <1>7, <1>8, <1>9, <1>10 DEF Next

\* The table implements the outbox: an alert owes its destinations until each
\* has answered, one at a time; no statement loses one or brings one back.
THEOREM SpecImplementsOutbox == Spec => ImplementsOutbox
<1>1. Init => Outbox!OutboxInit
  BY OutboxInitially
<1>2. IndInv /\ [Next]_vars => [Outbox!OutboxNext]_Outbox!outboxVars
  BY OutboxStep
<1> QED
  BY <1>1, <1>2, SpecIndInv, PTL DEF Spec, ImplementsOutbox, Outbox!OutboxSpec

-----------------------------------------------------------------------------
(* The delay before a retry.                                               *)

\* The powers of two that a delay is multiplied by.
LEMMA PowersOfTwo ==
    /\ 2 ^ 0 = 1
    /\ \A j \in 0 .. 16 : 2 ^ j \in Nat /\ 2 ^ j >= 1
    /\ \A j, k \in 0 .. 16 : j <= k => 2 ^ j <= 2 ^ k
<1> DEFINE power == [j \in 0 .. 16 |-> 2 ^ j]
<1>1. /\ 2 ^ 0 = 1 /\ 2 ^ 1 = 2 /\ 2 ^ 2 = 4 /\ 2 ^ 3 = 8 /\ 2 ^ 4 = 16 /\ 2 ^ 5 = 32
      /\ 2 ^ 6 = 64 /\ 2 ^ 7 = 128 /\ 2 ^ 8 = 256 /\ 2 ^ 9 = 512 /\ 2 ^ 10 = 1024
      /\ 2 ^ 11 = 2048 /\ 2 ^ 12 = 4096 /\ 2 ^ 13 = 8192 /\ 2 ^ 14 = 16384
      /\ 2 ^ 15 = 32768 /\ 2 ^ 16 = 65536
  OBVIOUS
<1>2. \A j \in 0 .. 16 : j \in {0, 1, 2, 3, 4, 5, 6, 7, 8, 9, 10, 11, 12, 13, 14, 15, 16}
  OBVIOUS
<1>3. /\ power[0] = 1 /\ power[1] = 2 /\ power[2] = 4 /\ power[3] = 8 /\ power[4] = 16
      /\ power[5] = 32 /\ power[6] = 64 /\ power[7] = 128 /\ power[8] = 256
      /\ power[9] = 512 /\ power[10] = 1024 /\ power[11] = 2048 /\ power[12] = 4096
      /\ power[13] = 8192 /\ power[14] = 16384 /\ power[15] = 32768 /\ power[16] = 65536
  BY <1>1
<1>4. \A j \in 0 .. 16 : power[j] = 2 ^ j
  OBVIOUS
<1> HIDE DEF power
<1>5. \A j \in 0 .. 16 : power[j] \in Nat /\ power[j] >= 1
  BY <1>2, <1>3
<1>6. \A j, k \in 0 .. 16 : j <= k => power[j] <= power[k]
  BY <1>2, <1>3
<1> QED
  BY <1>1, <1>4, <1>5, <1>6

\* Multiplying keeps an order.
LEMMA TimesIsMonotone ==
    ASSUME NEW b \in Nat, NEW p \in Nat, NEW q \in Nat, p <= q
    PROVE  b * p \in Nat /\ b * q \in Nat /\ b * p <= b * q
  OBVIOUS

\* How often the delay before the n-th attempt is doubled.
Doubled(n) == IF n <= 1 THEN 0 ELSE IF n <= 17 THEN n - 1 ELSE 16

\* compute_retry_delay_seconds for any base, maximum and number of attempts: the
\* delay stays within the maximum, is not shorter than the one before it, is the
\* base at first if the maximum allows it, and is 0 only if one of them is.
THEOREM RetriesBackOff ==
    \A n \in Nat :
        /\ RetryDelay(n) \in 0 .. RetryMax
        /\ RetryDelay(n) <= RetryDelay(n + 1)
        /\ RetryDelay(1) = IF RetryBase < RetryMax THEN RetryBase ELSE RetryMax
        /\ RetryDelay(n) = 0 => RetryBase = 0 \/ RetryMax = 0
<1>1. CASE RetryMax = 0 \/ RetryBase = 0
  BY <1>1, RetryAssumption DEF RetryDelay
<1>2. CASE RetryMax # 0 /\ RetryBase # 0
  <2> DEFINE Scaled(n) == RetryBase * 2 ^ Doubled(n)
  <2>1. \A n \in Nat : /\ Doubled(n) \in 0 .. 16 /\ Doubled(n + 1) \in 0 .. 16
                        /\ Doubled(n) <= Doubled(n + 1)
    BY DEF Doubled
  <2>2. \A n \in Nat : RetryDelay(n) = IF Scaled(n) < RetryMax THEN Scaled(n) ELSE RetryMax
    <3> TAKE n \in Nat
    <3>1. (IF (IF n - 1 > 0 THEN n - 1 ELSE 0) < 16
           THEN (IF n - 1 > 0 THEN n - 1 ELSE 0) ELSE 16) = Doubled(n)
      BY DEF Doubled
    <3> QED
      BY <1>2, <3>1, Zenon DEF RetryDelay
  <2>3. ASSUME NEW n \in Nat
        PROVE  /\ Scaled(n) \in Nat /\ Scaled(n + 1) \in Nat
               /\ RetryBase <= Scaled(n) /\ Scaled(n) <= Scaled(n + 1)
    <3> DEFINE p == 2 ^ Doubled(n)
               q == 2 ^ Doubled(n + 1)
    <3>1. p \in Nat /\ q \in Nat /\ 1 <= p /\ p <= q
      BY <2>1, PowersOfTwo
    <3> HIDE DEF p, q
    <3>2. RetryBase * p \in Nat /\ RetryBase * q \in Nat /\ RetryBase * p <= RetryBase * q
      BY <3>1, RetryAssumption, TimesIsMonotone
    <3>3. RetryBase * 1 <= RetryBase * p /\ RetryBase * 1 = RetryBase
      BY <3>1, RetryAssumption, TimesIsMonotone
    <3> QED
      BY <3>2, <3>3 DEF p, q
  <2>4. Scaled(1) = RetryBase
    BY PowersOfTwo, RetryAssumption DEF Doubled
  <2> HIDE DEF Scaled
  <2> QED
    BY <1>2, <2>2, <2>3, <2>4, RetryAssumption
<1> QED
  BY <1>1, <1>2

=============================================================================
