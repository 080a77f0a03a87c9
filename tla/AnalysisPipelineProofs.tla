----------------------- MODULE AnalysisPipelineProofs -----------------------
(***************************************************************************)
(* Proofs about AnalysisPipeline, for any configurations and any bounds    *)
(* on retries, delete requests and faults.                                 *)
(***************************************************************************)
EXTENDS AnalysisPipeline, TLAPS

(* The inductive invariant, part by part. *)

\* Where the stage of an execution is not yet among those that ran, where it
\* is, and where the graph is through.
AtStart == {"start", "starting", "started"}
AtWork == {"agent", "complete", "completing", "completed", "fail", "failing", "failed"}
Through == {"final", "publish"}

\* A message, an execution and an ending exclude each other, and nothing of the
\* three exists before the request has enqueued the task.
TaskOnce ==
  /\ queued => pc = "idle"
  /\ queued \/ pc # "idle" => ending = "none"
  /\ createPc \in {"new", "created"} => ~queued /\ pc = "idle" /\ ending = "none"

\* Executions are counted before they start.
TriesBounded ==
  /\ createPc \in {"new", "created"} => attempts = 0
  /\ queued => attempts <= MaxRetries

\* The row is there from its creation to the end of a delete request.
RowLife ==
  /\ row = "none" <=> createPc = "new"
  /\ deletePc \in {"revoke", "cancel", "delete", "locking"} => Live
  /\ deletePc # "idle" => deletes > 0

\* Nobody has reported a status before the row exists.
Untouched == createPc = "new" => status = "pending"

\* An open transaction of the worker holds the locks that the row needs to go.
Locked == TxnOpen => Live

\* The status that an execution that failed, or was marked, shows.
MarkedFailed == pc = "raised" /\ Live /\ deletes = 0 => status = "failed"

\* A graph starts from its entry point with nothing behind it.
Fresh ==
  ending = "none" /\ pc \in {"idle", "begin", "run"} =>
    stage = "download" /\ wanted = {} /\ ran = {} /\ ~errors

\* The stages that precede s on the route that is wanted.
Before(s) ==
  CASE s = "download"   -> {}
    [] s = "eda"        -> {"download"}
    [] s = "discovery"  -> {"download", "eda"}
    [] s = "treatment"  -> {"download", "eda"} \cup (wanted \cap {"discovery"})
    [] s = "validation" -> {"download", "eda", "treatment"} \cup (wanted \cap {"discovery"})
    [] s = "reporting"  -> {"download", "eda"} \cup (wanted \cap {"discovery"})
                             \cup (IF "treatment" \in wanted
                                     THEN {"treatment", "validation"} ELSE {})

OnRoute ==
  /\ stage = "discovery" => "discovery" \in wanted
  /\ stage \in {"treatment", "validation"} => "treatment" \in wanted

Route ==
  /\ pc \in AtStart => OnRoute /\ ran = Before(stage)
  /\ pc \in AtWork => OnRoute /\ ran = Before(stage) \cup {stage}
  /\ pc \in Through => ran = Before("reporting") \cup {"reporting"}

\* The stages that the execution has left.
Closed == IF pc \in AtWork THEN ran \ {stage} ELSE ran

Verdict ==
  pc \in AtStart \cup AtWork \cup Through /\ Live =>
    /\ \A s \in Closed : rows[s].tracked \in {"completed", "failed"}
    /\ errors <=> \E s \in Closed : rows[s].tracked = "failed"

Base ==
  /\ TypeOK /\ TaskOnce /\ TriesBounded /\ RowLife /\ Untouched
  /\ Locked /\ NoOrphanStage

IInv ==
  /\ Base
  /\ AgentsRunUnderRunning /\ MarkedFailed /\ HandledEndingsSettle
  /\ Fresh /\ Route /\ Verdict

-----------------------------------------------------------------------------
(* Types *)

\* The operators on a stage's rows stay within the type.
LEMMA PairTypes ==
  ASSUME NEW r \in RowPair, NEW st \in StageStatus
  PROVE  Adopt(r) \in RowPair /\ Upsert(r, st) \in RowPair /\ Track(r, st) \in RowPair
BY DEF RowPair, Adopt, Upsert, Track

LEMMA EventType == Event \in StageStatus
BY DEF Event, StageStatus

LEMMA TypeInv == TypeOK /\ [Next]_vars => TypeOK'
<1> SUFFICES ASSUME TypeOK, [Next]_vars PROVE TypeOK'
  OBVIOUS
<1> USE DEF Statuses, Stages, Working, Flushed, Published, Leaving
<1>1. CASE CreateRow
  BY <1>1 DEF CreateRow, taskVars, stateVars, TypeOK
<1>2. CASE Enqueue
  BY <1>2 DEF Enqueue, rowVars, stateVars, TypeOK
<1>3. CASE SaveTaskId
  BY <1>3 DEF SaveTaskId, Live, taskVars, stateVars, TypeOK
<1>4. CASE CreateFails
  BY <1>4 DEF CreateFails, rowVars, taskVars, stateVars, TypeOK
<1>5. CASE DeleteRead
  BY <1>5 DEF DeleteRead, rowVars, taskVars, stateVars, TypeOK
<1>6. CASE DeleteRevoke
  <2>1. UNCHANGED <<rowVars, createPc, deletes, queued, attempts, softFired, rows, faults>>
    BY <1>6 DEF DeleteRevoke
  <2>2. revoked' \in BOOLEAN /\ deletePc' = "cancel"
    BY <1>6 DEF DeleteRevoke, TypeOK
  <2>3. CASE Lose
    <3>1. hasDataset' \in BOOLEAN /\ errors' \in BOOLEAN
      BY <2>3 DEF Lose, Forget
    <3> QED
      BY <2>1, <2>2, <2>3, <3>1 DEF Lose, Forget, rowVars, TypeOK
  <2>4. CASE UNCHANGED <<pc, ending, stateVars>>
    BY <2>1, <2>2, <2>4 DEF stateVars, rowVars, TypeOK
  <2> QED
    BY <1>6, <2>3, <2>4 DEF DeleteRevoke
<1>7. CASE DeleteCancel
  BY <1>7 DEF DeleteCancel, taskVars, stateVars, TypeOK
<1>8. CASE DeleteLocks
  BY <1>8 DEF DeleteLocks, rowVars, taskVars, stateVars, TypeOK
<1>9. CASE DeleteRow
  BY <1>9 DEF DeleteRow, NoRows, RowPair, taskVars, stateVars, TypeOK
<1>10. CASE DeleteFails
  BY <1>10 DEF DeleteFails, rowVars, taskVars, stateVars, TypeOK
<1>11. CASE Begin
  BY <1>11 DEF Begin, apiVars, stateVars, TypeOK
<1>12. CASE RunStart
  <2>1. /\ pc' \in {"start", "except"} /\ status' \in Statuses
        /\ wanted' \in SUBSET {"discovery", "treatment"}
    BY <1>12, ConfigsAssumption DEF RunStart, TypeOK
  <2>2. UNCHANGED <<row, taskIdSaved, apiVars, taskVars, stage, hasDataset, errors, ran,
                    rows, faults>>
    BY <1>12 DEF RunStart
  <2> QED
    BY <2>1, <2>2 DEF apiVars, taskVars, TypeOK
<1>13. CASE StartStage
  <2>1. Adopt(rows[stage]) \in RowPair
    BY <1>13, PairTypes DEF TypeOK, StageStatus
  <2> QED
    BY <1>13, <2>1 DEF StartStage, rowVars, apiVars, taskVars, stateVars, TypeOK
<1>14. CASE Publish
  <2>1. Upsert(rows[stage], Event) \in RowPair
    BY <1>14, PairTypes, EventType DEF TypeOK, StageStatus
  <2> QED
    BY <1>14, <2>1 DEF Publish, AfterPublish, rowVars, apiVars, taskVars, stateVars,
       TypeOK
<1>15. CASE PublishFails
    BY <1>15 DEF PublishFails, AfterPublish, Fault, rowVars, apiVars, taskVars,
       stateVars, TypeOK
<1>16. CASE StartCommit
  <2>1. Track(rows[stage], "running") \in RowPair
    BY <1>16, PairTypes DEF TypeOK, StageStatus
  <2> QED
    BY <1>16, <2>1 DEF StartCommit, rowVars, apiVars, taskVars, TypeOK
<1>17. CASE CompleteStage
    BY <1>17 DEF CompleteStage, Advance, Successor, SelectAfterEda,
       SelectAfterDiscovery, rowVars, apiVars, taskVars, TypeOK
<1>18. CASE CompleteCommit
  <2>1. Track(rows[stage], "completed") \in RowPair
    BY <1>18, PairTypes DEF TypeOK, StageStatus
  <2> QED
    BY <1>18, <2>1 DEF CompleteCommit, Advance, Successor, SelectAfterEda,
       SelectAfterDiscovery, rowVars, apiVars, taskVars, TypeOK
<1>19. CASE FailStage
  <2>1. errors' \in BOOLEAN
    BY <1>19 DEF FailStage, TypeOK
  <2> QED
    BY <1>19, <2>1 DEF FailStage, Advance, Successor, SelectAfterEda,
       SelectAfterDiscovery, rowVars, apiVars, taskVars, TypeOK
<1>20. CASE FailCommit
  <2>1. Track(rows[stage], "failed") \in RowPair
    BY <1>20, PairTypes DEF TypeOK, StageStatus
  <2> QED
    BY <1>20, <2>1 DEF FailCommit, Advance, Successor, SelectAfterEda,
       SelectAfterDiscovery, rowVars, apiVars, taskVars, TypeOK
<1>21. CASE RunAgent
  <2>1. hasDataset' \in BOOLEAN
    BY <1>21 DEF RunAgent, TypeOK
  <2>2. pc' \in {"complete", "fail"} /\ wanted' \in SUBSET {"discovery", "treatment"}
    BY <1>21 DEF RunAgent, EdaAugments, TypeOK
  <2>3. UNCHANGED <<rowVars, apiVars, taskVars, stage, errors, ran, rows, faults>>
    BY <1>21 DEF RunAgent
  <2> QED
    BY <2>1, <2>2, <2>3 DEF rowVars, apiVars, taskVars, TypeOK
<1>22. CASE FinalUpdate
  BY <1>22 DEF FinalUpdate, apiVars, taskVars, stateVars, TypeOK
<1>23. CASE PublishResult
  BY <1>23 DEF PublishResult, apiVars, stateVars, TypeOK
<1>24. CASE Deliver
  <2>1. queued' \in BOOLEAN /\ softFired' \in BOOLEAN
    BY <1>24 DEF Deliver, TypeOK
  <2> QED
    BY <1>24, <2>1 DEF Deliver, rowVars, apiVars, stateVars, TypeOK
<1>25. CASE WorkerError
  BY <1>25 DEF WorkerError, CatchAt, Fault, rowVars, apiVars, taskVars, stateVars,
     TypeOK
<1>26. CASE SoftLimit
    BY <1>26 DEF SoftLimit, CatchAt, AfterPublish, rowVars, apiVars, stateVars, TypeOK
<1>27. CASE HardLimit
  <2>1. hasDataset' \in BOOLEAN /\ errors' \in BOOLEAN
    BY <1>27 DEF HardLimit, Lose, Forget
  <2> QED
    BY <1>27, <2>1 DEF HardLimit, Lose, Forget, rowVars, apiVars, TypeOK
<1>28. CASE Crash
  <2>1. hasDataset' \in BOOLEAN /\ errors' \in BOOLEAN
    BY <1>28 DEF Crash, Lose, Forget
  <2> QED
    BY <1>28, <2>1 DEF Crash, Lose, Forget, rowVars, apiVars, TypeOK
<1>29. CASE MarkFailed
  BY <1>29 DEF MarkFailed, apiVars, taskVars, stateVars, TypeOK
<1>30. CASE Retry
  <2>1. queued' \in BOOLEAN /\ hasDataset' \in BOOLEAN /\ errors' \in BOOLEAN
    BY <1>30 DEF Retry, Forget, TypeOK
  <2> QED
    BY <1>30, <2>1 DEF Retry, Forget, rowVars, apiVars, TypeOK
<1>31. CASE RetryRejected
  <2>1. hasDataset' \in BOOLEAN /\ errors' \in BOOLEAN
    BY <1>31 DEF RetryRejected, Lose, Forget
  <2> QED
    BY <1>31, <2>1 DEF RetryRejected, Lose, Forget, Fault, rowVars, apiVars, TypeOK
<1>32. CASE UNCHANGED vars
  BY <1>32 DEF vars, rowVars, apiVars, taskVars, stateVars, TypeOK
<1> QED
  BY <1>1, <1>2, <1>3, <1>4, <1>5, <1>6, <1>7, <1>8, <1>9, <1>10, <1>11, <1>12, <1>13,
     <1>14, <1>15, <1>16, <1>17, <1>18, <1>19, <1>20, <1>21, <1>22, <1>23, <1>24, <1>25,
     <1>26, <1>27, <1>28, <1>29, <1>30, <1>31, <1>32 DEF Next, Create, Delete, Execute,
     StageSteps, Celery

-----------------------------------------------------------------------------
(* The task, the row and its locks *)

LEMMA TaskOnceInv ==
  TypeOK /\ TaskOnce /\ [Next]_vars => TaskOnce'
<1> SUFFICES ASSUME TypeOK /\ TaskOnce, [Next]_vars
             PROVE  TaskOnce'
  OBVIOUS
<1> USE DEF Flushed, Published, Working, Leaving
<1>1. CASE UNCHANGED <<createPc, queued, ending, pc>>
  BY <1>1 DEF TaskOnce
<1>2. CASE CreateRow
  BY <1>2 DEF CreateRow, taskVars, TaskOnce
<1>3. CASE Enqueue
  BY <1>3 DEF Enqueue, TaskOnce
<1>4. CASE SaveTaskId
  BY <1>4 DEF SaveTaskId, taskVars, TaskOnce
<1>5. CASE CreateFails
  BY <1>5 DEF CreateFails, taskVars, TaskOnce
<1>6. CASE DeleteRevoke
  BY <1>6 DEF DeleteRevoke, Lose, TaskOnce
<1>7. CASE Begin
  BY <1>7 DEF Begin, apiVars, TaskOnce
<1>8. CASE RunStart
  BY <1>8 DEF RunStart, apiVars, taskVars, TaskOnce
<1>9. CASE StartStage
  BY <1>9 DEF StartStage, apiVars, taskVars, TaskOnce
<1>10. CASE Publish
  BY <1>10 DEF Publish, apiVars, taskVars, TaskOnce
<1>11. CASE PublishFails
  BY <1>11 DEF PublishFails, apiVars, taskVars, TaskOnce
<1>12. CASE StartCommit
  BY <1>12 DEF StartCommit, apiVars, taskVars, TaskOnce
<1>13. CASE CompleteStage
  BY <1>13 DEF CompleteStage, apiVars, taskVars, TaskOnce
<1>14. CASE CompleteCommit
  BY <1>14 DEF CompleteCommit, apiVars, taskVars, TaskOnce
<1>15. CASE FailStage
  BY <1>15 DEF FailStage, apiVars, taskVars, TaskOnce
<1>16. CASE FailCommit
  BY <1>16 DEF FailCommit, apiVars, taskVars, TaskOnce
<1>17. CASE RunAgent
  BY <1>17 DEF RunAgent, apiVars, taskVars, TaskOnce
<1>18. CASE FinalUpdate
  BY <1>18 DEF FinalUpdate, apiVars, taskVars, TaskOnce
<1>19. CASE PublishResult
  BY <1>19 DEF PublishResult, apiVars, TaskOnce
<1>20. CASE Deliver
  BY <1>20 DEF Deliver, apiVars, TaskOnce
<1>21. CASE WorkerError
  BY <1>21 DEF WorkerError, apiVars, taskVars, TaskOnce
<1>22. CASE SoftLimit
  BY <1>22 DEF SoftLimit, apiVars, TaskOnce
<1>23. CASE HardLimit
  BY <1>23 DEF HardLimit, Lose, apiVars, TaskOnce
<1>24. CASE Crash
  BY <1>24 DEF Crash, Lose, apiVars, TaskOnce
<1>25. CASE MarkFailed
  BY <1>25 DEF MarkFailed, apiVars, taskVars, TaskOnce
<1>26. CASE Retry
  BY <1>26 DEF Retry, apiVars, TaskOnce
<1>27. CASE RetryRejected
  BY <1>27 DEF RetryRejected, Lose, apiVars, TaskOnce
<1> QED
  BY <1>1, <1>2, <1>3, <1>4, <1>5, <1>6, <1>7, <1>8, <1>9, <1>10, <1>11, <1>12, <1>13,
     <1>14, <1>15, <1>16, <1>17, <1>18, <1>19, <1>20, <1>21, <1>22, <1>23, <1>24, <1>25,
     <1>26, <1>27 DEF Next, Create, Delete, Execute, StageSteps, Celery, vars, apiVars,
     taskVars, DeleteRead, DeleteCancel, DeleteLocks, DeleteRow, DeleteFails

LEMMA TriesInv ==
  TypeOK /\ TaskOnce /\ TriesBounded /\ [Next]_vars => TriesBounded'
<1> SUFFICES ASSUME TypeOK /\ TaskOnce /\ TriesBounded, [Next]_vars
             PROVE  TriesBounded'
  OBVIOUS
<1> USE DEF Leaving
<1>1. CASE UNCHANGED <<createPc, queued, attempts>>
  BY <1>1 DEF TriesBounded
<1>2. CASE CreateRow
  BY <1>2, BoundsAssumption DEF CreateRow, taskVars, TriesBounded
<1>3. CASE Enqueue
  BY <1>3, BoundsAssumption DEF Enqueue, TriesBounded
<1>4. CASE SaveTaskId
  BY <1>4, BoundsAssumption DEF SaveTaskId, taskVars, TriesBounded
<1>5. CASE CreateFails
  BY <1>5, BoundsAssumption DEF CreateFails, taskVars, TriesBounded
<1>6. CASE Deliver
  BY <1>6, BoundsAssumption DEF Deliver, apiVars, TaskOnce, TriesBounded
<1>7. CASE Retry
  BY <1>7, BoundsAssumption DEF Retry, apiVars, TriesBounded
<1> QED
  BY <1>1, <1>2, <1>3, <1>4, <1>5, <1>6, <1>7 DEF Next, Create, Delete, Execute,
     StageSteps, Celery, vars, apiVars, taskVars, DeleteRead, DeleteRevoke,
     DeleteCancel, DeleteLocks, DeleteRow, DeleteFails, Begin, RunStart, StartStage,
     Publish, PublishFails, StartCommit, CompleteStage, CompleteCommit, FailStage,
     FailCommit, RunAgent, FinalUpdate, PublishResult, WorkerError, SoftLimit,
     HardLimit, Crash, MarkFailed, RetryRejected

LEMMA RowLifeInv ==
  TypeOK /\ RowLife /\ [Next]_vars => RowLife'
<1> SUFFICES ASSUME TypeOK /\ RowLife, [Next]_vars
             PROVE  RowLife'
  OBVIOUS
<1>1. CASE UNCHANGED <<row, createPc, deletePc, deletes>>
  BY <1>1 DEF RowLife, Live
<1>2. CASE CreateRow
  BY <1>2 DEF CreateRow, RowLife, Live
<1>3. CASE Enqueue
  BY <1>3 DEF Enqueue, rowVars, RowLife, Live
<1>4. CASE SaveTaskId
  BY <1>4 DEF SaveTaskId, RowLife, Live
<1>5. CASE CreateFails
  BY <1>5 DEF CreateFails, rowVars, RowLife, Live
<1>6. CASE DeleteRead
  BY <1>6 DEF DeleteRead, rowVars, RowLife, Live, TypeOK
<1>7. CASE DeleteRevoke
  BY <1>7 DEF DeleteRevoke, rowVars, RowLife, Live
<1>8. CASE DeleteCancel
  BY <1>8 DEF DeleteCancel, RowLife, Live
<1>9. CASE DeleteLocks
  BY <1>9 DEF DeleteLocks, rowVars, RowLife, Live
<1>10. CASE DeleteRow
  BY <1>10 DEF DeleteRow, RowLife, Live
<1>11. CASE DeleteFails
  BY <1>11 DEF DeleteFails, rowVars, RowLife
<1> QED
  BY <1>1, <1>2, <1>3, <1>4, <1>5, <1>6, <1>7, <1>8, <1>9, <1>10, <1>11 DEF Next,
     Create, Delete, Execute, StageSteps, Celery, vars, rowVars, apiVars, Begin,
     RunStart, StartStage, Publish, PublishFails, StartCommit, CompleteStage,
     CompleteCommit, FailStage, FailCommit, RunAgent, FinalUpdate, PublishResult,
     Deliver, WorkerError, SoftLimit, HardLimit, Crash, MarkFailed, Retry, RetryRejected

LEMMA UntouchedInv ==
  TypeOK /\ RowLife /\ TaskOnce /\ Untouched /\ [Next]_vars => Untouched'
<1> SUFFICES ASSUME TypeOK /\ RowLife /\ TaskOnce /\ Untouched, [Next]_vars
             PROVE  Untouched'
  OBVIOUS
<1> USE DEF Flushed, Published, Working, Leaving
<1>1. CASE UNCHANGED <<createPc, status>>
  BY <1>1 DEF Untouched
<1>2. CASE CreateRow
  BY <1>2 DEF CreateRow, Untouched
<1>3. CASE Enqueue
  BY <1>3 DEF Enqueue, Untouched
<1>4. CASE SaveTaskId
  BY <1>4 DEF SaveTaskId, Untouched
<1>5. CASE CreateFails
  BY <1>5 DEF CreateFails, Untouched
<1>6. CASE DeleteCancel
  BY <1>6 DEF DeleteCancel, RowLife, Untouched, Live
<1>7. CASE Begin
  BY <1>7 DEF Begin, apiVars, TaskOnce, Untouched
<1>8. CASE RunStart
  BY <1>8 DEF RunStart, apiVars, TaskOnce, Untouched
<1>9. CASE FinalUpdate
  BY <1>9 DEF FinalUpdate, apiVars, TaskOnce, Untouched
<1>10. CASE PublishResult
  BY <1>10 DEF PublishResult, apiVars, TaskOnce, Untouched
<1>11. CASE MarkFailed
  BY <1>11 DEF MarkFailed, apiVars, TaskOnce, Untouched
<1> QED
  BY <1>1, <1>2, <1>3, <1>4, <1>5, <1>6, <1>7, <1>8, <1>9, <1>10, <1>11 DEF Next,
     Create, Delete, Execute, StageSteps, Celery, vars, rowVars, apiVars, DeleteRead,
     DeleteRevoke, DeleteLocks, DeleteRow, DeleteFails, StartStage, Publish,
     PublishFails, StartCommit, CompleteStage, CompleteCommit, FailStage, FailCommit,
     RunAgent, Deliver, WorkerError, SoftLimit, HardLimit, Crash, Retry, RetryRejected

LEMMA LockedInv ==
  TypeOK /\ RowLife /\ TaskOnce /\ Locked /\ [Next]_vars => Locked'
<1> SUFFICES ASSUME TypeOK /\ RowLife /\ TaskOnce /\ Locked, [Next]_vars
             PROVE  Locked'
  OBVIOUS
<1> USE DEF Flushed, Published, Working, Leaving
<1>1. CASE UNCHANGED <<row, pc>>
  BY <1>1 DEF Locked, TxnOpen, Live
<1>2. CASE CreateRow
  BY <1>2 DEF CreateRow, TaskOnce, Locked, TxnOpen
<1>3. CASE DeleteRevoke
  BY <1>3 DEF DeleteRevoke, rowVars, RowLife, Locked, Live
<1>4. CASE DeleteRow
  BY <1>4 DEF DeleteRow, Locked, TxnOpen
<1>5. CASE Begin
  BY <1>5 DEF Begin, Locked, TxnOpen
<1>6. CASE RunStart
  BY <1>6 DEF RunStart, Locked, TxnOpen
<1>7. CASE StartStage
  BY <1>7 DEF StartStage, rowVars, Locked, TxnOpen, Live
<1>8. CASE Publish
  BY <1>8 DEF Publish, rowVars, Locked, TxnOpen, Live
<1>9. CASE PublishFails
  BY <1>9 DEF PublishFails, rowVars, Locked, TxnOpen, Live
<1>10. CASE StartCommit
  BY <1>10 DEF StartCommit, Locked, TxnOpen
<1>11. CASE CompleteStage
  BY <1>11 DEF CompleteStage, Advance, rowVars, Locked, TxnOpen, Live
<1>12. CASE CompleteCommit
  BY <1>12 DEF CompleteCommit, Advance, Locked, TxnOpen
<1>13. CASE FailStage
  BY <1>13 DEF FailStage, Advance, rowVars, Locked, TxnOpen, Live
<1>14. CASE FailCommit
  BY <1>14 DEF FailCommit, Advance, Locked, TxnOpen
<1>15. CASE RunAgent
  BY <1>15 DEF RunAgent, Locked, TxnOpen
<1>16. CASE FinalUpdate
  BY <1>16 DEF FinalUpdate, Locked, TxnOpen
<1>17. CASE PublishResult
  BY <1>17 DEF PublishResult, Locked, TxnOpen
<1>18. CASE Deliver
  BY <1>18 DEF Deliver, Locked, TxnOpen
<1>19. CASE WorkerError
  BY <1>19 DEF WorkerError, CatchAt, Locked, TxnOpen
<1>20. CASE SoftLimit
  BY <1>20 DEF SoftLimit, CatchAt, rowVars, Locked, TxnOpen, Live
<1>21. CASE HardLimit
  BY <1>21 DEF HardLimit, Lose, Locked, TxnOpen
<1>22. CASE Crash
  BY <1>22 DEF Crash, Lose, Locked, TxnOpen
<1>23. CASE MarkFailed
  BY <1>23 DEF MarkFailed, Locked, TxnOpen
<1>24. CASE Retry
  BY <1>24 DEF Retry, Locked, TxnOpen
<1>25. CASE RetryRejected
  BY <1>25 DEF RetryRejected, Lose, Locked, TxnOpen
<1> QED
  BY <1>1, <1>2, <1>3, <1>4, <1>5, <1>6, <1>7, <1>8, <1>9, <1>10, <1>11, <1>12, <1>13,
     <1>14, <1>15, <1>16, <1>17, <1>18, <1>19, <1>20, <1>21, <1>22, <1>23, <1>24, <1>25
     DEF Next, Create, Delete, Execute, StageSteps, Celery, vars, rowVars, Enqueue,
     SaveTaskId, CreateFails, DeleteRead, DeleteCancel, DeleteLocks, DeleteFails

LEMMA NoOrphanInv ==
  TypeOK /\ Locked /\ NoOrphanStage /\ [Next]_vars => NoOrphanStage'
<1> SUFFICES ASSUME TypeOK /\ Locked /\ NoOrphanStage, [Next]_vars
             PROVE  NoOrphanStage'
  OBVIOUS
<1> USE DEF Flushed, Published
<1>1. CASE UNCHANGED <<row, rows>>
  BY <1>1 DEF NoOrphanStage, Live
<1>2. CASE CreateRow
  BY <1>2 DEF CreateRow, NoOrphanStage, Live
<1>3. CASE DeleteRow
  BY <1>3 DEF DeleteRow, NoOrphanStage
<1>4. CASE StartStage
  BY <1>4 DEF StartStage, rowVars, NoOrphanStage, Live
<1>5. CASE Publish
  BY <1>5 DEF Publish, rowVars, Locked, NoOrphanStage, TxnOpen, Live
<1>6. CASE StartCommit
  BY <1>6 DEF StartCommit, rowVars, Locked, NoOrphanStage, TxnOpen, Live
<1>7. CASE CompleteCommit
  BY <1>7 DEF CompleteCommit, rowVars, Locked, NoOrphanStage, TxnOpen, Live
<1>8. CASE FailCommit
  BY <1>8 DEF FailCommit, rowVars, Locked, NoOrphanStage, TxnOpen, Live
<1> QED
  BY <1>1, <1>2, <1>3, <1>4, <1>5, <1>6, <1>7, <1>8 DEF Next, Create, Delete, Execute,
     StageSteps, Celery, vars, rowVars, Enqueue, SaveTaskId, CreateFails, DeleteRead,
     DeleteRevoke, DeleteCancel, DeleteLocks, DeleteFails, Begin, RunStart,
     PublishFails, CompleteStage, FailStage, RunAgent, FinalUpdate, PublishResult,
     Deliver, WorkerError, SoftLimit, HardLimit, Crash, MarkFailed, Retry, RetryRejected

-----------------------------------------------------------------------------
(* The status *)

LEMMA RunningInv ==
  TypeOK /\ RowLife /\ TaskOnce /\ AgentsRunUnderRunning /\ [Next]_vars => AgentsRunUnderRunning'
<1> SUFFICES ASSUME TypeOK /\ RowLife /\ TaskOnce /\ AgentsRunUnderRunning, [Next]_vars
             PROVE  AgentsRunUnderRunning'
  OBVIOUS
<1> USE DEF Flushed, Published, Working, Leaving
<1>1. CASE UNCHANGED <<row, status, deletes, pc>>
  BY <1>1 DEF AgentsRunUnderRunning, Live
<1>2. CASE CreateRow
  BY <1>2 DEF CreateRow, TaskOnce, AgentsRunUnderRunning
<1>3. CASE DeleteRead
  BY <1>3 DEF DeleteRead, rowVars, AgentsRunUnderRunning, TypeOK
<1>4. CASE DeleteRevoke
  BY <1>4 DEF DeleteRevoke, Lose, rowVars, RowLife, AgentsRunUnderRunning
<1>5. CASE DeleteCancel
  BY <1>5 DEF DeleteCancel, RowLife, AgentsRunUnderRunning
<1>6. CASE DeleteRow
  BY <1>6 DEF DeleteRow, RowLife, AgentsRunUnderRunning
<1>7. CASE Begin
  BY <1>7 DEF Begin, AgentsRunUnderRunning
<1>8. CASE RunStart
  BY <1>8 DEF RunStart, AgentsRunUnderRunning
<1>9. CASE StartStage
  BY <1>9 DEF StartStage, rowVars, apiVars, AgentsRunUnderRunning
<1>10. CASE Publish
  BY <1>10 DEF Publish, rowVars, apiVars, AgentsRunUnderRunning, Live
<1>11. CASE PublishFails
  BY <1>11 DEF PublishFails, rowVars, apiVars, AgentsRunUnderRunning, Live
<1>12. CASE StartCommit
  BY <1>12 DEF StartCommit, rowVars, apiVars, AgentsRunUnderRunning, Live
<1>13. CASE CompleteStage
  BY <1>13 DEF CompleteStage, rowVars, apiVars, AgentsRunUnderRunning, Live
<1>14. CASE CompleteCommit
  BY <1>14 DEF CompleteCommit, rowVars, apiVars, AgentsRunUnderRunning, Live
<1>15. CASE FailStage
  BY <1>15 DEF FailStage, rowVars, apiVars, AgentsRunUnderRunning, Live
<1>16. CASE FailCommit
  BY <1>16 DEF FailCommit, rowVars, apiVars, AgentsRunUnderRunning, Live
<1>17. CASE RunAgent
  BY <1>17 DEF RunAgent, rowVars, apiVars, AgentsRunUnderRunning, Live
<1>18. CASE FinalUpdate
  BY <1>18 DEF FinalUpdate, AgentsRunUnderRunning
<1>19. CASE PublishResult
  BY <1>19 DEF PublishResult, AgentsRunUnderRunning
<1>20. CASE Deliver
  BY <1>20 DEF Deliver, AgentsRunUnderRunning
<1>21. CASE WorkerError
  BY <1>21 DEF WorkerError, CatchAt, rowVars, apiVars, AgentsRunUnderRunning, Live
<1>22. CASE SoftLimit
  BY <1>22 DEF SoftLimit, CatchAt, rowVars, apiVars, AgentsRunUnderRunning, Live
<1>23. CASE HardLimit
  BY <1>23 DEF HardLimit, Lose, AgentsRunUnderRunning
<1>24. CASE Crash
  BY <1>24 DEF Crash, Lose, AgentsRunUnderRunning
<1>25. CASE MarkFailed
  BY <1>25 DEF MarkFailed, AgentsRunUnderRunning
<1>26. CASE Retry
  BY <1>26 DEF Retry, AgentsRunUnderRunning
<1>27. CASE RetryRejected
  BY <1>27 DEF RetryRejected, Lose, AgentsRunUnderRunning
<1> QED
  BY <1>1, <1>2, <1>3, <1>4, <1>5, <1>6, <1>7, <1>8, <1>9, <1>10, <1>11, <1>12, <1>13,
     <1>14, <1>15, <1>16, <1>17, <1>18, <1>19, <1>20, <1>21, <1>22, <1>23, <1>24, <1>25,
     <1>26, <1>27 DEF Next, Create, Delete, Execute, StageSteps, Celery, vars, rowVars,
     apiVars, Enqueue, SaveTaskId, CreateFails, DeleteLocks, DeleteFails

LEMMA MarkedFailedInv ==
  TypeOK /\ RowLife /\ TaskOnce /\ MarkedFailed /\ [Next]_vars => MarkedFailed'
<1> SUFFICES ASSUME TypeOK /\ RowLife /\ TaskOnce /\ MarkedFailed, [Next]_vars
             PROVE  MarkedFailed'
  OBVIOUS
<1> USE DEF Flushed, Published, Working, Leaving
<1>1. CASE UNCHANGED <<row, status, deletes, pc>>
  BY <1>1 DEF MarkedFailed, Live
<1>2. CASE CreateRow
  BY <1>2 DEF CreateRow, TaskOnce, MarkedFailed
<1>3. CASE DeleteRead
  BY <1>3 DEF DeleteRead, MarkedFailed, TypeOK
<1>4. CASE DeleteRevoke
  BY <1>4 DEF DeleteRevoke, RowLife, MarkedFailed
<1>5. CASE DeleteCancel
  BY <1>5 DEF DeleteCancel, RowLife, MarkedFailed
<1>6. CASE DeleteRow
  BY <1>6 DEF DeleteRow, RowLife, MarkedFailed
<1>7. CASE Begin
  BY <1>7 DEF Begin, MarkedFailed
<1>8. CASE RunStart
  BY <1>8 DEF RunStart, MarkedFailed
<1>9. CASE StartStage
  BY <1>9 DEF StartStage, MarkedFailed
<1>10. CASE Publish
  BY <1>10 DEF Publish, AfterPublish, MarkedFailed
<1>11. CASE PublishFails
  BY <1>11 DEF PublishFails, AfterPublish, MarkedFailed
<1>12. CASE StartCommit
  BY <1>12 DEF StartCommit, MarkedFailed
<1>13. CASE CompleteStage
  BY <1>13 DEF CompleteStage, Advance, MarkedFailed
<1>14. CASE CompleteCommit
  BY <1>14 DEF CompleteCommit, Advance, MarkedFailed
<1>15. CASE FailStage
  BY <1>15 DEF FailStage, Advance, MarkedFailed
<1>16. CASE FailCommit
  BY <1>16 DEF FailCommit, Advance, MarkedFailed
<1>17. CASE RunAgent
  BY <1>17 DEF RunAgent, MarkedFailed
<1>18. CASE FinalUpdate
  BY <1>18 DEF FinalUpdate, MarkedFailed
<1>19. CASE PublishResult
  BY <1>19 DEF PublishResult, MarkedFailed
<1>20. CASE Deliver
  BY <1>20 DEF Deliver, MarkedFailed
<1>21. CASE WorkerError
  BY <1>21 DEF WorkerError, CatchAt, MarkedFailed
<1>22. CASE SoftLimit
  BY <1>22 DEF SoftLimit, CatchAt, AfterPublish, MarkedFailed
<1>23. CASE HardLimit
  BY <1>23 DEF HardLimit, Lose, MarkedFailed
<1>24. CASE Crash
  BY <1>24 DEF Crash, Lose, MarkedFailed
<1>25. CASE MarkFailed
  BY <1>25 DEF MarkFailed, MarkedFailed, Live
<1>26. CASE Retry
  BY <1>26 DEF Retry, MarkedFailed
<1>27. CASE RetryRejected
  BY <1>27 DEF RetryRejected, Lose, MarkedFailed
<1> QED
  BY <1>1, <1>2, <1>3, <1>4, <1>5, <1>6, <1>7, <1>8, <1>9, <1>10, <1>11, <1>12, <1>13,
     <1>14, <1>15, <1>16, <1>17, <1>18, <1>19, <1>20, <1>21, <1>22, <1>23, <1>24, <1>25,
     <1>26, <1>27 DEF Next, Create, Delete, Execute, StageSteps, Celery, vars, rowVars,
     apiVars, Enqueue, SaveTaskId, CreateFails, DeleteLocks, DeleteFails

LEMMA EndingsInv ==
  TypeOK /\ RowLife /\ TaskOnce /\ MarkedFailed /\ HandledEndingsSettle /\ [Next]_vars => HandledEndingsSettle'
<1> SUFFICES ASSUME TypeOK /\ RowLife /\ TaskOnce /\ MarkedFailed /\ HandledEndingsSettle, [Next]_vars
             PROVE  HandledEndingsSettle'
  OBVIOUS
<1> USE DEF Flushed, Published, Working, Leaving
<1>1. CASE UNCHANGED <<row, status, deletes, ending>>
  BY <1>1 DEF HandledEndingsSettle, Live
<1>2. CASE CreateRow
  BY <1>2 DEF CreateRow, taskVars, TaskOnce, HandledEndingsSettle
<1>3. CASE DeleteRead
  BY <1>3 DEF DeleteRead, HandledEndingsSettle, TypeOK
<1>4. CASE DeleteRevoke
  BY <1>4 DEF DeleteRevoke, RowLife, HandledEndingsSettle
<1>5. CASE DeleteCancel
  BY <1>5 DEF DeleteCancel, RowLife, HandledEndingsSettle
<1>6. CASE DeleteRow
  BY <1>6 DEF DeleteRow, RowLife, HandledEndingsSettle
<1>7. CASE Begin
  BY <1>7 DEF Begin, TaskOnce, HandledEndingsSettle
<1>8. CASE RunStart
  BY <1>8 DEF RunStart, taskVars, TaskOnce, HandledEndingsSettle
<1>9. CASE FinalUpdate
  BY <1>9 DEF FinalUpdate, taskVars, TaskOnce, HandledEndingsSettle
<1>10. CASE PublishResult
  BY <1>10 DEF PublishResult, HandledEndingsSettle, Live
<1>11. CASE Deliver
  BY <1>11 DEF Deliver, TaskOnce, HandledEndingsSettle
<1>12. CASE HardLimit
  BY <1>12 DEF HardLimit, Lose, HandledEndingsSettle
<1>13. CASE Crash
  BY <1>13 DEF Crash, Lose, HandledEndingsSettle
<1>14. CASE MarkFailed
  BY <1>14 DEF MarkFailed, taskVars, TaskOnce, HandledEndingsSettle
<1>15. CASE Retry
  BY <1>15 DEF Retry, rowVars, apiVars, MarkedFailed, HandledEndingsSettle, Live
<1>16. CASE RetryRejected
  BY <1>16 DEF RetryRejected, Lose, HandledEndingsSettle
<1> QED
  BY <1>1, <1>2, <1>3, <1>4, <1>5, <1>6, <1>7, <1>8, <1>9, <1>10, <1>11, <1>12, <1>13,
     <1>14, <1>15, <1>16 DEF Next, Create, Delete, Execute, StageSteps, Celery, vars,
     rowVars, apiVars, taskVars, Enqueue, SaveTaskId, CreateFails, DeleteLocks,
     DeleteFails, StartStage, Publish, PublishFails, StartCommit, CompleteStage,
     CompleteCommit, FailStage, FailCommit, RunAgent, WorkerError, SoftLimit

-----------------------------------------------------------------------------
(* The route through the graph *)

LEMMA FreshInv ==
  TypeOK /\ TaskOnce /\ Fresh /\ [Next]_vars => Fresh'
<1> SUFFICES ASSUME TypeOK /\ TaskOnce /\ Fresh, [Next]_vars
             PROVE  Fresh'
  OBVIOUS
<1> USE DEF Flushed, Published, Working, Leaving
<1>1. CASE UNCHANGED <<ending, pc, stage, wanted, ran, errors>>
  BY <1>1 DEF Fresh
<1>2. CASE DeleteRevoke
  BY <1>2 DEF DeleteRevoke, Lose, stateVars, Fresh
<1>3. CASE Begin
  BY <1>3 DEF Begin, stateVars, Fresh
<1>4. CASE RunStart
  BY <1>4 DEF RunStart, Fresh
<1>5. CASE StartStage
  BY <1>5 DEF StartStage, Fresh
<1>6. CASE Publish
  BY <1>6 DEF Publish, AfterPublish, Fresh
<1>7. CASE PublishFails
  BY <1>7 DEF PublishFails, AfterPublish, Fresh
<1>8. CASE StartCommit
  BY <1>8 DEF StartCommit, Fresh
<1>9. CASE CompleteStage
  BY <1>9 DEF CompleteStage, Advance, Fresh
<1>10. CASE CompleteCommit
  BY <1>10 DEF CompleteCommit, Advance, Fresh
<1>11. CASE FailStage
  BY <1>11 DEF FailStage, Advance, Fresh
<1>12. CASE FailCommit
  BY <1>12 DEF FailCommit, Advance, Fresh
<1>13. CASE RunAgent
  BY <1>13 DEF RunAgent, Fresh
<1>14. CASE FinalUpdate
  BY <1>14 DEF FinalUpdate, Fresh
<1>15. CASE PublishResult
  BY <1>15 DEF PublishResult, Fresh
<1>16. CASE Deliver
  BY <1>16 DEF Deliver, stateVars, Fresh
<1>17. CASE WorkerError
  BY <1>17 DEF WorkerError, CatchAt, Fresh
<1>18. CASE SoftLimit
  BY <1>18 DEF SoftLimit, CatchAt, AfterPublish, Fresh
<1>19. CASE HardLimit
  BY <1>19 DEF HardLimit, Lose, Fresh
<1>20. CASE Crash
  BY <1>20 DEF Crash, Lose, Fresh
<1>21. CASE MarkFailed
  BY <1>21 DEF MarkFailed, Fresh
<1>22. CASE Retry
  BY <1>22 DEF Retry, Forget, Fresh
<1>23. CASE RetryRejected
  BY <1>23 DEF RetryRejected, Lose, Fresh
<1> QED
  BY <1>1, <1>2, <1>3, <1>4, <1>5, <1>6, <1>7, <1>8, <1>9, <1>10, <1>11, <1>12, <1>13,
     <1>14, <1>15, <1>16, <1>17, <1>18, <1>19, <1>20, <1>21, <1>22, <1>23 DEF Next,
     Create, Delete, Execute, StageSteps, Celery, vars, taskVars, stateVars, CreateRow,
     Enqueue, SaveTaskId, CreateFails, DeleteRead, DeleteCancel, DeleteLocks, DeleteRow,
     DeleteFails

LEMMA RouteInv ==
  TypeOK /\ TaskOnce /\ Fresh /\ Route /\ [Next]_vars => Route'
<1> SUFFICES ASSUME TypeOK /\ TaskOnce /\ Fresh /\ Route, [Next]_vars
             PROVE  Route'
  OBVIOUS
<1> USE DEF Flushed, Published, Working, Leaving, AtStart, AtWork, Through, Stages
<1>1. CASE UNCHANGED <<pc, stage, wanted, ran>>
  BY <1>1 DEF Route, OnRoute, Before
<1>2. CASE DeleteRevoke
  BY <1>2 DEF DeleteRevoke, Lose, stateVars, Route, OnRoute, Before
<1>3. CASE Begin
  BY <1>3 DEF Begin, Route
<1>4. CASE RunStart
  BY <1>4 DEF RunStart, TaskOnce, Fresh, Route, OnRoute, Before
<1>5. CASE StartStage
  BY <1>5 DEF StartStage, stateVars, Route, OnRoute, Before
<1>6. CASE Publish
  BY <1>6 DEF Publish, AfterPublish, stateVars, Route, OnRoute, Before
<1>7. CASE PublishFails
  BY <1>7 DEF PublishFails, AfterPublish, stateVars, Route, OnRoute, Before
<1>8. CASE StartCommit
  BY <1>8 DEF StartCommit, Route, OnRoute, Before
<1>9. CASE CompleteStage
  BY <1>9 DEF CompleteStage, Advance, Successor, SelectAfterEda, SelectAfterDiscovery,
     Route, OnRoute, Before, TypeOK
<1>10. CASE CompleteCommit
  BY <1>10 DEF CompleteCommit, Advance, Successor, SelectAfterEda, SelectAfterDiscovery,
     Route, OnRoute, Before, TypeOK
<1>11. CASE FailStage
  BY <1>11 DEF FailStage, Advance, Successor, SelectAfterEda, SelectAfterDiscovery,
     Route, OnRoute, Before, TypeOK
<1>12. CASE FailCommit
  BY <1>12 DEF FailCommit, Advance, Successor, SelectAfterEda, SelectAfterDiscovery,
     Route, OnRoute, Before, TypeOK
<1>13. CASE RunAgent
  BY <1>13 DEF RunAgent, EdaAugments, Route, OnRoute, Before
<1>14. CASE FinalUpdate
  BY <1>14 DEF FinalUpdate, stateVars, Route, Before
<1>15. CASE PublishResult
  BY <1>15 DEF PublishResult, Route
<1>16. CASE Deliver
  BY <1>16 DEF Deliver, Route
<1>17. CASE WorkerError
  BY <1>17 DEF WorkerError, CatchAt, stateVars, Route, OnRoute, Before
<1>18. CASE SoftLimit
  BY <1>18 DEF SoftLimit, CatchAt, AfterPublish, stateVars, Route, OnRoute, Before
<1>19. CASE HardLimit
  BY <1>19 DEF HardLimit, Lose, Route
<1>20. CASE Crash
  BY <1>20 DEF Crash, Lose, Route
<1>21. CASE MarkFailed
  BY <1>21 DEF MarkFailed, Route
<1>22. CASE Retry
  BY <1>22 DEF Retry, Route
<1>23. CASE RetryRejected
  BY <1>23 DEF RetryRejected, Lose, Route
<1> QED
  BY <1>1, <1>2, <1>3, <1>4, <1>5, <1>6, <1>7, <1>8, <1>9, <1>10, <1>11, <1>12, <1>13,
     <1>14, <1>15, <1>16, <1>17, <1>18, <1>19, <1>20, <1>21, <1>22, <1>23 DEF Next,
     Create, Delete, Execute, StageSteps, Celery, vars, stateVars, CreateRow, Enqueue,
     SaveTaskId, CreateFails, DeleteRead, DeleteCancel, DeleteLocks, DeleteRow,
     DeleteFails

-----------------------------------------------------------------------------
(* The verdict *)

LEMMA VerdictInv ==
  TypeOK /\ RowLife /\ TaskOnce /\ Locked /\ Fresh /\ Route /\ Verdict /\ [Next]_vars => Verdict'
<1> SUFFICES ASSUME TypeOK /\ RowLife /\ TaskOnce /\ Locked /\ Fresh /\ Route /\ Verdict, [Next]_vars
             PROVE  Verdict'
  OBVIOUS
<1> USE DEF Flushed, Published, Working, Leaving, AtStart, AtWork, Through, Stages,
   RowPair
<1>1. CASE UNCHANGED <<row, pc, stage, ran, errors, rows>>
  BY <1>1 DEF Verdict, Closed, Live
<1>2. CASE CreateRow
  BY <1>2 DEF CreateRow, TaskOnce, Verdict
<1>3. CASE DeleteRevoke
  BY <1>3 DEF DeleteRevoke, Lose, stateVars, RowLife, Verdict, Closed
<1>4. CASE DeleteRow
  BY <1>4 DEF DeleteRow, Verdict, Live
<1>5. CASE Begin
  BY <1>5 DEF Begin, Verdict
<1>6. CASE RunStart
  BY <1>6 DEF RunStart, TaskOnce, Fresh, Verdict, Closed
<1>7. CASE StartStage
  BY <1>7 DEF StartStage, Adopt, stateVars, Route, Before, Verdict, Closed, TypeOK
<1>8. CASE Publish
  BY <1>8 DEF Publish, AfterPublish, Upsert, stateVars, Locked, TxnOpen, Verdict, Closed
<1>9. CASE PublishFails
  BY <1>9 DEF PublishFails, AfterPublish, stateVars, Locked, TxnOpen, Verdict, Closed
<1>10. CASE StartCommit
  BY <1>10 DEF StartCommit, Track, Locked, TxnOpen, Route, Before, Verdict, Closed,
     TypeOK
<1>11. CASE CompleteStage
  BY <1>11 DEF CompleteStage, rowVars, Verdict, Closed, Live
<1>12. CASE CompleteCommit
  BY <1>12 DEF CompleteCommit, Advance, Track, Locked, TxnOpen, Verdict, Closed, TypeOK
<1>13. CASE FailStage
  BY <1>13 DEF FailStage, rowVars, Verdict, Closed, Live
<1>14. CASE FailCommit
  BY <1>14 DEF FailCommit, Advance, Track, Locked, TxnOpen, Route, Verdict, Closed,
     TypeOK
<1>15. CASE RunAgent
  BY <1>15 DEF RunAgent, rowVars, Verdict, Closed, Live
<1>16. CASE FinalUpdate
  BY <1>16 DEF FinalUpdate, stateVars, Verdict, Closed, Live
<1>17. CASE PublishResult
  BY <1>17 DEF PublishResult, Verdict
<1>18. CASE Deliver
  BY <1>18 DEF Deliver, Verdict
<1>19. CASE WorkerError
  BY <1>19 DEF WorkerError, CatchAt, rowVars, stateVars, Verdict, Closed, Live
<1>20. CASE SoftLimit
  BY <1>20 DEF SoftLimit, CatchAt, AfterPublish, rowVars, stateVars, Verdict, Closed,
     Live
<1>21. CASE HardLimit
  BY <1>21 DEF HardLimit, Lose, Verdict
<1>22. CASE Crash
  BY <1>22 DEF Crash, Lose, Verdict
<1>23. CASE MarkFailed
  BY <1>23 DEF MarkFailed, Verdict
<1>24. CASE Retry
  BY <1>24 DEF Retry, Verdict
<1>25. CASE RetryRejected
  BY <1>25 DEF RetryRejected, Lose, Verdict
<1> QED
  BY <1>1, <1>2, <1>3, <1>4, <1>5, <1>6, <1>7, <1>8, <1>9, <1>10, <1>11, <1>12, <1>13,
     <1>14, <1>15, <1>16, <1>17, <1>18, <1>19, <1>20, <1>21, <1>22, <1>23, <1>24, <1>25
     DEF Next, Create, Delete, Execute, StageSteps, Celery, vars, rowVars, stateVars,
     Enqueue, SaveTaskId, CreateFails, DeleteRead, DeleteCancel, DeleteLocks,
     DeleteFails

-----------------------------------------------------------------------------
(* The theorems *)

LEMMA InitInv == Init => IInv
<1> SUFFICES ASSUME Init PROVE IInv
  OBVIOUS
<1>1. TypeOK
  BY DEF Init, TypeOK, Statuses, Stages, RowPair, NoRows
<1>2. TaskOnce /\ RowLife /\ Untouched /\ Locked /\ NoOrphanStage
  BY DEF Init, TaskOnce, RowLife, Untouched, Locked, TxnOpen, Flushed, Published,
     NoOrphanStage
<1>3. TriesBounded
  BY DEF Init, TriesBounded
<1>4. AgentsRunUnderRunning /\ MarkedFailed /\ HandledEndingsSettle
  BY DEF Init, AgentsRunUnderRunning, MarkedFailed, HandledEndingsSettle, Working,
     Flushed, Published
<1>5. Fresh /\ Route /\ Verdict
  BY DEF Init, Fresh, Route, Verdict, AtStart, AtWork, Through
<1> QED
  BY <1>1, <1>2, <1>3, <1>4, <1>5 DEF IInv, Base

LEMMA NextInv == IInv /\ [Next]_vars => IInv'
BY TypeInv, TaskOnceInv, TriesInv, RowLifeInv, UntouchedInv, LockedInv, NoOrphanInv,
   RunningInv, MarkedFailedInv, EndingsInv, FreshInv, RouteInv, VerdictInv DEF IInv,
   Base

LEMMA Inductive == Spec => []IInv
BY InitInv, NextInv, PTL DEF Spec

\* Every variable keeps its type.
THEOREM PipelineTypes == Spec => []TypeOK
<1>1. IInv => TypeOK
  BY DEF IInv, Base
<1> QED
  BY <1>1, Inductive, PTL

\* Stage rows go with their analysis and none comes back: a worker can flush one
\* only while the row is there, and its open transaction keeps it there.
THEOREM NoOrphans == Spec => []NoOrphanStage
<1>1. IInv => NoOrphanStage
  BY DEF IInv, Base
<1> QED
  BY <1>1, Inductive, PTL

\* Agents work only under a running analysis, or one that is being deleted.
THEOREM AgentsUnderRunning == Spec => []AgentsRunUnderRunning
<1>1. IInv => AgentsRunUnderRunning
  BY DEF IInv
<1> QED
  BY <1>1, Inductive, PTL

\* Endings that Celery saw are what the status says.
THEOREM EndingsSettle == Spec => []HandledEndingsSettle
<1>1. IInv => HandledEndingsSettle
  BY DEF IInv
<1> QED
  BY <1>1, Inductive, PTL

\* The graph ends only over the whole route that is wanted by then.
THEOREM RoutesCovered == Spec => []RouteCovered
<1>1. IInv => RouteCovered
  BY DEF IInv, Route, Through, Before, RouteCovered
<1> QED
  BY <1>1, Inductive, PTL

\* The verdict of the state and that of the database agree.
THEOREM VerdictsMatch == Spec => []VerdictMatchesStages
<1>1. IInv => VerdictMatchesStages
  BY DEF IInv, Verdict, Closed, Through, AtWork, VerdictMatchesStages
<1> QED
  BY <1>1, Inductive, PTL

\* An agent starts only when a transaction that holds the row commits.
THEOREM DeletedQuiet == Spec => DeletedStaysQuiet
<1>1. ASSUME IInv, Next, pc # "agent", pc' = "agent"
      PROVE  Live
  <2>1. StartCommit
    BY <1>1 DEF Next, Create, Delete, Execute, StageSteps, Celery, CreateRow, Enqueue,
       SaveTaskId, CreateFails, DeleteRead, DeleteRevoke, DeleteCancel, DeleteLocks,
       DeleteRow, DeleteFails, Begin, RunStart, StartStage, Publish, PublishFails,
       StartCommit, CompleteStage, CompleteCommit, FailStage, FailCommit, RunAgent,
       FinalUpdate, PublishResult, Deliver, WorkerError, SoftLimit, HardLimit, Crash,
       MarkFailed, Retry, RetryRejected, Lose, Advance, AfterPublish, CatchAt, Flushed
  <2> QED
    BY <1>1, <2>1 DEF StartCommit, IInv, Base, Locked, TxnOpen, Published
<1>2. IInv /\ [Next]_vars => [~Live => ~(pc # "agent" /\ pc' = "agent")]_vars
  BY <1>1
<1> QED
  BY <1>2, Inductive, PTL DEF Spec, DeletedStaysQuiet

LEMMA ContractInit == Init => Contract!Init
BY DEF Init, Contract!Init

LEMMA ContractStep == Base /\ [Next]_vars => [Contract!Next]_(Contract!vars)
<1> SUFFICES ASSUME Base, [Next]_vars
             PROVE  [Contract!Next]_(Contract!vars)
  OBVIOUS
<1> USE DEF Base, Contract!Next, Contract!vars
<1>1. CASE UNCHANGED <<row, status, attempts, pc>>
  BY <1>1
<1>2. CASE CreateRow
  BY <1>2 DEF CreateRow, taskVars, Contract!Create, Untouched, RowLife
<1>3. CASE DeleteRevoke
  BY <1>3 DEF DeleteRevoke, rowVars, Contract!End
<1>4. CASE DeleteCancel
  BY <1>4 DEF DeleteCancel, taskVars, Contract!Cancel, RowLife, Live
<1>5. CASE DeleteRow
  BY <1>5 DEF DeleteRow, taskVars, Contract!Delete, RowLife, Live
<1>6. CASE Begin
  BY <1>6 DEF Begin, Contract!Report, Contract!End, Live
<1>7. CASE RunStart
  BY <1>7 DEF RunStart, taskVars, Contract!Report, Live
<1>8. CASE StartStage
  BY <1>8 DEF StartStage, rowVars, taskVars
<1>9. CASE Publish
  BY <1>9 DEF Publish, AfterPublish, rowVars, taskVars, Flushed
<1>10. CASE PublishFails
  BY <1>10 DEF PublishFails, AfterPublish, rowVars, taskVars, Flushed
<1>11. CASE StartCommit
  BY <1>11 DEF StartCommit, rowVars, taskVars
<1>12. CASE CompleteStage
  BY <1>12 DEF CompleteStage, Advance, rowVars, taskVars
<1>13. CASE CompleteCommit
  BY <1>13 DEF CompleteCommit, Advance, rowVars, taskVars
<1>14. CASE FailStage
  BY <1>14 DEF FailStage, Advance, rowVars, taskVars
<1>15. CASE FailCommit
  BY <1>15 DEF FailCommit, Advance, rowVars, taskVars
<1>16. CASE RunAgent
  BY <1>16 DEF RunAgent, rowVars, taskVars
<1>17. CASE FinalUpdate
  BY <1>17 DEF FinalUpdate, taskVars, Contract!Report, Live
<1>18. CASE PublishResult
  BY <1>18 DEF PublishResult, Contract!Report, Contract!End, Live
<1>19. CASE Deliver
  BY <1>19 DEF Deliver, rowVars, Contract!Begin, TriesBounded
<1>20. CASE WorkerError
  BY <1>20 DEF WorkerError, CatchAt, rowVars, taskVars, Working, Published
<1>21. CASE SoftLimit
  BY <1>21 DEF SoftLimit, CatchAt, AfterPublish, rowVars, Working, Flushed, Published
<1>22. CASE HardLimit
  BY <1>22 DEF HardLimit, rowVars, Contract!End, Working, Flushed, Published
<1>23. CASE Crash
  BY <1>23 DEF Crash, rowVars, Contract!End
<1>24. CASE MarkFailed
  BY <1>24 DEF MarkFailed, taskVars, Contract!Report, Live
<1>25. CASE Retry
  BY <1>25 DEF Retry, rowVars, Contract!End
<1>26. CASE RetryRejected
  BY <1>26 DEF RetryRejected, rowVars, Contract!End, Leaving
<1> QED
  BY <1>1, <1>2, <1>3, <1>4, <1>5, <1>6, <1>7, <1>8, <1>9, <1>10, <1>11, <1>12, <1>13,
     <1>14, <1>15, <1>16, <1>17, <1>18, <1>19, <1>20, <1>21, <1>22, <1>23, <1>24, <1>25,
     <1>26 DEF Next, Create, Delete, Execute, StageSteps, Celery, vars, rowVars,
     taskVars, Enqueue, SaveTaskId, CreateFails, DeleteRead, DeleteLocks, DeleteFails

\* Seen from outside, the pipeline is its contract: whatever fails inside, only
\* an execution reports, and only while the row is there.
THEOREM PipelineImplementsContract == Spec => ImplementsContract
<1>1. IInv => Base
  BY DEF IInv
<1> QED
  BY <1>1, ContractInit, ContractStep, Inductive, PTL DEF Spec, ImplementsContract,
     Contract!Spec

=============================================================================
