-------------------------- MODULE AnalysisPipeline --------------------------
(***************************************************************************)
(* The life of one analysis: the request that creates it and enqueues its  *)
(* Celery task, the worker that executes the task (the LangGraph pipeline  *)
(* of six agents, each with a row that tracks its stage), Celery's         *)
(* automatic retry, the two time limits, the loss of a worker, and the     *)
(* request that deletes the analysis while any of this is under way.       *)
(*                                                                         *)
(* A step is what happens between two points at which another process can  *)
(* see or change what it touches: a committed transaction, a row lock, a   *)
(* call to the broker, an agent's work. The checkpointer is None in the    *)
(* locked dependencies: a retry starts the graph from its entry point.     *)
(***************************************************************************)
EXTENDS Naturals, StageRows

CONSTANTS
  Configs,              \* the branch sets that configurations ask for
  MaxRetries,           \* retry_kwargs of run_analysis_task (3 in the code)
  MaxDeletes,           \* bound: how often the delete request is sent
  MaxFaults             \* bound: how often database or broker fail the worker

ASSUME ConfigsAssumption == Configs \subseteq SUBSET {"discovery", "treatment"}
ASSUME BoundsAssumption == MaxRetries \in Nat /\ MaxDeletes \in Nat /\ MaxFaults \in Nat

VARIABLES
  row,                  \* the row of table analyses: "none", "live", "deleted"
  status,               \* its column status
  taskIdSaved,          \* its column celery_task_id is set
  createPc,             \* where the request that creates the analysis is
  deletePc,             \* where the request that deletes it is
  deletes,              \* delete requests received so far
  queued,               \* a message for the task waits in the broker
  revoked,              \* the workers were told to discard the task
  attempts,             \* executions started, retries included
  softFired,            \* this execution has received its soft time limit
  ending,               \* how the task ended ("none": it has not)
  pc,                   \* where the execution is ("idle": nobody executes)
  stage,                \* the stage whose agent runs, or is about to
  wanted,               \* the optional branches that state.analysis_types asks for
  hasDataset,           \* state.dataset_id is set
  errors,               \* state.errors is not empty
  ran,                  \* the stages this execution has started
  rows,                 \* the rows of analysis_stages, by stage
  faults                \* failures of the database and the broker so far

rowVars   == <<row, status, taskIdSaved>>
apiVars   == <<createPc, deletePc, deletes>>
taskVars  == <<queued, revoked, attempts, softFired, ending>>
stateVars == <<stage, wanted, hasDataset, errors, ran>>
vars == <<rowVars, apiVars, taskVars, pc, stateVars, rows, faults>>

Stages == {"download", "eda", "discovery", "treatment", "validation", "reporting"}
Statuses == {"pending", "running", "completed", "failed", "cancelled"}

\* The caller's session has flushed a stage row ("Flushed") and publishes the
\* event, then ("Published") it is about to commit.
Flushed == {"starting", "completing", "failing"}
Published == {"started", "completed", "failed"}
TxnOpen == pc \in Flushed \cup Published

\* The points of an execution at which the coroutine of the task is alive.
Working == {"begin", "run", "start", "agent", "complete", "fail", "final",
            "publish", "except"} \cup Flushed \cup Published

\* The exception has left asyncio.run and Celery is about to retry, after
\* mark_analysis_failed has committed ("raised") or without it.
Leaving == {"raised", "unmarked"}

Live == row = "live"

Init ==
  /\ row = "none" /\ status = "pending" /\ taskIdSaved = FALSE
  /\ createPc = "new" /\ deletePc = "idle" /\ deletes = 0
  /\ queued = FALSE /\ revoked = FALSE /\ attempts = 0
  /\ softFired = FALSE /\ ending = "none" /\ pc = "idle"
  /\ stage = "download" /\ wanted = {} /\ hasDataset = FALSE
  /\ errors = FALSE /\ ran = {}
  /\ rows = [s \in Stages |-> NoRows] /\ faults = 0

-----------------------------------------------------------------------------
(* The request that creates the analysis: create_analysis *)

\* analysis_crud.create commits the row on its own.
CreateRow ==
  /\ createPc = "new"
  /\ row' = "live" /\ status' = "pending"
  /\ createPc' = "created"
  /\ UNCHANGED <<taskIdSaved, deletePc, deletes, taskVars, pc, stateVars, rows, faults>>

\* run_analysis_task.delay, after version 1 is committed.
Enqueue ==
  /\ createPc = "created"
  /\ queued' = TRUE
  /\ createPc' = "enqueued"
  /\ UNCHANGED <<rowVars, deletePc, deletes, revoked, attempts, softFired, ending,
                 pc, stateVars, rows, faults>>

\* The task id is stored once delay has returned. On a row deleted meanwhile
\* the UPDATE matches nothing and the request fails.
SaveTaskId ==
  /\ createPc = "enqueued"
  /\ taskIdSaved' = Live
  /\ createPc' = "done"
  /\ UNCHANGED <<row, status, deletePc, deletes, taskVars, pc, stateVars, rows, faults>>

\* A database error, a broker that refuses the message, or the end of the API
\* process: what was committed so far stays.
CreateFails ==
  /\ createPc \in {"created", "enqueued"}
  /\ createPc' = "done"
  /\ UNCHANGED <<rowVars, deletePc, deletes, taskVars, pc, stateVars, rows, faults>>

-----------------------------------------------------------------------------
(* The Celery task: delivery, failure, retry, time limits, loss *)

\* The state of the graph lives in the memory of the execution.
Forget ==
  /\ stage' = "download" /\ wanted' = {} /\ hasDataset' = FALSE
  /\ errors' = FALSE /\ ran' = {}

\* The execution is over without a return or an exception Celery could see.
\* The message was acknowledged when the execution began: the task is gone.
Lose ==
  /\ pc' = "idle"
  /\ ending' = "lost"
  /\ Forget

Fault ==
  /\ faults < MaxFaults
  /\ faults' = faults + 1

\* A worker takes the message, acknowledges it and starts asyncio.run, or
\* drops it because the task id is among those it was told to revoke.
Deliver ==
  /\ queued /\ pc = "idle"
  /\ queued' = FALSE
  /\ IF revoked
       THEN ending' = "lost" /\ UNCHANGED <<attempts, softFired, pc>>
       ELSE /\ pc' = "begin"
            /\ attempts' = attempts + 1
            /\ softFired' = FALSE
            /\ UNCHANGED ending
  /\ UNCHANGED <<rowVars, apiVars, revoked, stateVars, rows, faults>>

\* Mutant: the task's own errors are not marked.
CatchAtUnmarked(p) ==
  CASE p \in {"agent", "complete", "completing", "completed"} -> "fail"
    [] p = "except" -> "unmarked"
    [] OTHER -> "raised"

\* Where an exception raised at p is handled: by BaseAgent.run if p is inside
\* its try (the agent and complete_stage), else by _run_analysis.
CatchAt(p) ==
  CASE p \in {"agent", "complete", "completing", "completed"} -> "fail"
    [] p = "except" -> "unmarked"
    [] OTHER -> "except"

\* A statement or the commit of the execution's own session raises: the
\* connection, or a row deleted since it was read (StaleDataError).
WorkerError ==
  /\ pc \in Working \ ({"agent"} \cup Flushed)
  /\ pc' = CatchAt(pc)
  /\ Fault
  /\ UNCHANGED <<rowVars, apiVars, taskVars, stateVars, rows>>

\* Mutant: the event names the call instead of the status.
EventStarted == CASE pc = "starting" -> "started"
                  [] pc = "completing" -> "completed"
                  [] OTHER -> "failed"

\* The event that a flushed stage row is about to publish.
Event == CASE pc = "starting" -> "running"
           [] pc = "completing" -> "completed"
           [] OTHER -> "failed"

AfterPublish == CASE pc = "starting" -> "started"
                  [] pc = "completing" -> "completed"
                  [] pc = "failing" -> "failed"

\* The publisher's session waits for a lock. While it does, the caller waits
\* for the publisher: PostgreSQL sees no cycle and never breaks the wait.
PublisherWaits ==
  pc \in Flushed /\ UpsertWaits(rows[stage], Event, deletePc = "locking")

\* Mutant: the limit reaches only Python code.
SoftLimitInPython ==
  /\ pc \in Working /\ ~softFired /\ ~PublisherWaits
  /\ softFired' = TRUE
  /\ pc' \in {"unmarked", CatchAt(pc)}
  /\ UNCHANGED <<rowVars, apiVars, queued, revoked, attempts, ending, stateVars,
                 rows, faults>>

\* The soft time limit. The signal handler raises SoftTimeLimitExceeded where
\* the main thread is: in the event loop's select, and asyncio.run cancels
\* the task (CancelledError is no Exception, so nothing is marked); in Python
\* code of the task, where it is an Exception like any other; or in a part of
\* an agent, or of the publisher, whose own handler swallows it.
SoftLimit ==
  /\ pc \in Working /\ ~softFired
  /\ softFired' = TRUE
  /\ \/ pc' = "unmarked"
     \/ ~PublisherWaits /\ pc' = CatchAt(pc)
     \/ pc = "agent" /\ UNCHANGED pc
     \/ pc \in Flushed /\ ~PublisherWaits /\ pc' = AfterPublish
  /\ UNCHANGED <<rowVars, apiVars, queued, revoked, attempts, ending, stateVars,
                 rows, faults>>

\* Mutant: the limit covers the agents' work only.
HardLimitOfAgent ==
  /\ pc = "agent" /\ softFired
  /\ Lose
  /\ UNCHANGED <<rowVars, apiVars, queued, revoked, attempts, softFired, rows, faults>>

\* The hard time limit comes later and kills the process.
HardLimit ==
  /\ pc \in Working /\ softFired
  /\ Lose
  /\ UNCHANGED <<rowVars, apiVars, queued, revoked, attempts, softFired, rows, faults>>

\* The worker dies (memory, node, deployment). A retry that waits for its
\* countdown is not acknowledged yet and is delivered again.
Crash ==
  /\ pc # "idle"
  /\ Lose
  /\ UNCHANGED <<rowVars, apiVars, queued, revoked, attempts, softFired, rows, faults>>

\* _run_analysis, except Exception: mark_analysis_failed, then raise.
MarkFailed ==
  /\ pc = "except"
  /\ pc' = "raised"
  /\ status' = IF Live THEN "failed" ELSE status
  /\ UNCHANGED <<row, taskIdSaved, apiVars, taskVars, stateVars, rows, faults>>

\* Mutant: one retry too many.
RetryOnceMore ==
  /\ pc \in Leaving
  /\ pc' = "idle"
  /\ IF attempts <= MaxRetries + 1
       THEN queued' = TRUE /\ UNCHANGED ending
       ELSE /\ ending' = IF pc = "raised" THEN "failed" ELSE "abandoned"
            /\ UNCHANGED queued
  /\ Forget
  /\ UNCHANGED <<rowVars, apiVars, revoked, attempts, softFired, rows, faults>>

\* autoretry_for=(Exception,): publish the same task again, up to MaxRetries.
Retry ==
  /\ pc \in Leaving
  /\ pc' = "idle"
  /\ IF attempts <= MaxRetries
       THEN queued' = TRUE /\ UNCHANGED ending
       ELSE /\ ending' = IF pc = "raised" THEN "failed" ELSE "abandoned"
            /\ UNCHANGED queued
  /\ Forget
  /\ UNCHANGED <<rowVars, apiVars, revoked, attempts, softFired, rows, faults>>

\* The broker refuses the retry: Task.retry turns that into a Reject.
RetryRejected ==
  /\ pc \in Leaving /\ attempts <= MaxRetries
  /\ Lose
  /\ Fault
  /\ UNCHANGED <<rowVars, apiVars, queued, revoked, attempts, softFired, rows>>
-----------------------------------------------------------------------------
(* The body of the task: _run_analysis and run_causal_analysis *)

\* _run_analysis up to its first commit.
Begin ==
  /\ pc = "begin"
  /\ IF Live
       THEN status' = "running" /\ pc' = "run" /\ UNCHANGED ending
       ELSE ending' = "skipped" /\ pc' = "idle" /\ UNCHANGED status
  /\ UNCHANGED <<row, taskIdSaved, apiVars, queued, revoked, attempts, softFired,
                 stateVars, rows, faults>>

\* run_causal_analysis up to ainvoke: the analysis types of the configuration
\* decide which optional branches are wanted.
RunStart ==
  /\ pc = "run"
  /\ IF Live
       THEN /\ status' = "running" /\ pc' = "start"
            /\ wanted' \in Configs
       ELSE pc' = "except" /\ UNCHANGED <<status, wanted>>
  /\ UNCHANGED <<row, taskIdSaved, apiVars, taskVars, stage, hasDataset, errors, ran,
                 rows, faults>>

\* Mutant: the branch that EDA added is not looked at again.
SelectReport == "reporting"

SelectAfterDiscovery == IF "treatment" \in wanted THEN "treatment" ELSE "reporting"

SelectAfterEda == IF "discovery" \in wanted THEN "discovery" ELSE SelectAfterDiscovery

\* The edges of build_graph.
Successor(s) ==
  CASE s = "download"   -> "eda"
    [] s = "eda"        -> SelectAfterEda
    [] s = "discovery"  -> SelectAfterDiscovery
    [] s = "treatment"  -> "validation"
    [] s = "validation" -> "reporting"
    [] s = "reporting"  -> "end"

\* The graph goes on to the next node whether the agent failed or not.
Advance ==
  IF Successor(stage) = "end"
    THEN pc' = "final" /\ UNCHANGED stage
    ELSE pc' = "start" /\ stage' = Successor(stage)

\* Mutant: the stage row has no foreign key.
StartStageUnchecked ==
  /\ pc = "start"
  /\ IF ~Ambiguous(rows[stage])
       THEN pc' = "starting" /\ rows' = [rows EXCEPT ![stage] = Adopt(@)]
       ELSE pc' = "except" /\ UNCHANGED rows
  /\ UNCHANGED <<rowVars, apiVars, taskVars, stateVars, faults>>

\* start_stage, called by BaseAgent.run outside its try: the lookup and the
\* flush. The INSERT for a deleted analysis violates its foreign key.
StartStage ==
  /\ pc = "start"
  /\ IF Live /\ ~Ambiguous(rows[stage])
       THEN pc' = "starting" /\ rows' = [rows EXCEPT ![stage] = Adopt(@)]
       ELSE pc' = "except" /\ UNCHANGED rows
  /\ UNCHANGED <<rowVars, apiVars, taskVars, stateVars, faults>>

\* publish_progress: the event reaches the database in a session of its own.
Publish ==
  /\ pc \in Flushed /\ ~PublisherWaits
  /\ rows' = [rows EXCEPT ![stage] = Upsert(@, Event)]
  /\ pc' = AfterPublish
  /\ UNCHANGED <<rowVars, apiVars, taskVars, stateVars, faults>>

\* The publisher's session fails, waiting or not: the error is swallowed.
PublishFails ==
  /\ pc \in Flushed
  /\ pc' = AfterPublish
  /\ Fault
  /\ UNCHANGED <<rowVars, apiVars, taskVars, stateVars, rows>>

\* The session that called start_stage commits, and the agent starts.
StartCommit ==
  /\ pc = "started"
  /\ pc' = "agent"
  /\ ran' = ran \cup {stage}
  /\ rows' = [rows EXCEPT ![stage] = Track(@, "running")]
  /\ UNCHANGED <<rowVars, apiVars, taskVars, stage, wanted, hasDataset, errors, faults>>

\* EDA may add time_varying or mediation to the analysis types of the state,
\* before it succeeds or fails. Both ask for the treatment branch.
EdaAugments ==
  /\ stage = "eda" /\ hasDataset
  /\ wanted' = wanted \cup {"treatment"}

\* The agent's _run. Every agent between download and reporting reads
\* state.dataset_id and raises without it; download sets it in the state before
\* the last commit that can fail.
RunAgent ==
  /\ pc = "agent"
  /\ \/ /\ stage \in {"download", "reporting"} \/ hasDataset
        /\ pc' = "complete"
        /\ hasDataset' = (hasDataset \/ stage = "download")
     \/ /\ pc' = "fail"
        /\ hasDataset' \in {hasDataset, hasDataset \/ stage = "download"}
  /\ UNCHANGED wanted \/ EdaAugments
  /\ UNCHANGED <<rowVars, apiVars, taskVars, stage, errors, ran, rows, faults>>

\* complete_stage up to its flush; it returns without effect if the row is gone.
CompleteStage ==
  /\ pc = "complete"
  /\ IF Live THEN pc' = "completing" /\ UNCHANGED stage ELSE Advance
  /\ UNCHANGED <<rowVars, apiVars, taskVars, wanted, hasDataset, errors, ran, rows, faults>>

CompleteCommit ==
  /\ pc = "completed"
  /\ rows' = [rows EXCEPT ![stage] = Track(@, "completed")]
  /\ Advance
  /\ UNCHANGED <<rowVars, apiVars, taskVars, wanted, hasDataset, errors, ran, faults>>

\* BaseAgent.run, except Exception: fail_stage up to its flush.
FailStage ==
  /\ pc = "fail"
  /\ IF Live THEN pc' = "failing" /\ UNCHANGED <<stage, errors>>
             ELSE Advance /\ errors' = TRUE
  /\ UNCHANGED <<rowVars, apiVars, taskVars, wanted, hasDataset, ran, rows, faults>>

\* Mutant: the error does not reach the state.
FailCommitForgetsError ==
  /\ pc = "failed"
  /\ rows' = [rows EXCEPT ![stage] = Track(@, "failed")]
  /\ Advance
  /\ UNCHANGED <<rowVars, apiVars, taskVars, wanted, hasDataset, errors, ran, faults>>

\* Mutant: a failed stage fails the analysis at once.
FailCommitAtOnce ==
  /\ pc = "failed"
  /\ rows' = [rows EXCEPT ![stage] = Track(@, "failed")]
  /\ errors' = TRUE /\ status' = "failed"
  /\ Advance
  /\ UNCHANGED <<row, taskIdSaved, apiVars, taskVars, wanted, hasDataset, ran, faults>>

\* Its session commits, then the error joins the state.
FailCommit ==
  /\ pc = "failed"
  /\ rows' = [rows EXCEPT ![stage] = Track(@, "failed")]
  /\ errors' = TRUE
  /\ Advance
  /\ UNCHANGED <<rowVars, apiVars, taskVars, wanted, hasDataset, ran, faults>>

\* run_causal_analysis after ainvoke.
FinalUpdate ==
  /\ pc = "final"
  /\ pc' = "publish"
  /\ status' = IF ~Live THEN status ELSE IF errors THEN "failed" ELSE "completed"
  /\ UNCHANGED <<row, taskIdSaved, apiVars, taskVars, stateVars, rows, faults>>

\* _run_analysis after run_causal_analysis: completed, whatever that decided.
PublishResult ==
  /\ pc = "publish"
  /\ pc' = "idle"
  /\ ending' = "succeeded"
  /\ status' = IF Live THEN "completed" ELSE status
  /\ UNCHANGED <<row, taskIdSaved, apiVars, queued, revoked, attempts, softFired,
                 stateVars, rows, faults>>

-----------------------------------------------------------------------------
(* The request that deletes the analysis: delete_analysis *)

\* It reads the row, and revokes only what it sees running.
DeleteRead ==
  /\ deletePc = "idle" /\ Live /\ deletes < MaxDeletes
  /\ deletes' = deletes + 1
  /\ deletePc' = IF status = "running" /\ taskIdSaved THEN "revoke" ELSE "cancel"
  /\ UNCHANGED <<rowVars, createPc, taskVars, pc, stateVars, rows, faults>>

\* control.revoke(terminate=True) is a broadcast nobody confirms: the workers
\* hear it, and the process that executes the task is terminated, or not.
DeleteRevoke ==
  /\ deletePc = "revoke"
  /\ deletePc' = "cancel"
  /\ \/ /\ revoked' = TRUE
        /\ IF pc = "idle" THEN UNCHANGED <<pc, ending, stateVars>> ELSE Lose
     \/ UNCHANGED <<revoked, pc, ending, stateVars>>
  /\ UNCHANGED <<rowVars, createPc, deletes, queued, attempts, softFired, rows, faults>>

\* The audit entry and the status, in one commit.
DeleteCancel ==
  /\ deletePc = "cancel"
  /\ deletePc' = "delete"
  /\ status' = "cancelled"
  /\ UNCHANGED <<row, taskIdSaved, createPc, deletes, taskVars, pc, stateVars, rows, faults>>

\* The DELETEs of analysis_crud.delete, child rows first, have locked an echo
\* and now wait for the row that the worker's open transaction has locked.
DeleteLocks ==
  /\ deletePc = "delete" /\ TxnOpen
  /\ deletePc' = "locking"
  /\ UNCHANGED <<rowVars, createPc, deletes, taskVars, pc, stateVars, rows, faults>>

\* Mutant: the DELETE does not wait for the worker's transaction.
DeleteRowUnlocked ==
  /\ deletePc \in {"delete", "locking"}
  /\ deletePc' = "done"
  /\ row' = "deleted"
  /\ rows' = [s \in Stages |-> NoRows]
  /\ UNCHANGED <<status, taskIdSaved, createPc, deletes, taskVars, pc, stateVars, faults>>

\* The row goes and its stages with it, once no transaction holds their locks.
DeleteRow ==
  /\ deletePc \in {"delete", "locking"} /\ ~TxnOpen
  /\ deletePc' = "done"
  /\ row' = "deleted"
  /\ rows' = [s \in Stages |-> NoRows]
  /\ UNCHANGED <<status, taskIdSaved, createPc, deletes, taskVars, pc, stateVars, faults>>

\* An error, or the end of the API process; the client may ask again.
DeleteFails ==
  /\ deletePc \in {"revoke", "cancel", "delete", "locking"}
  /\ deletePc' = "idle"
  /\ UNCHANGED <<rowVars, createPc, deletes, taskVars, pc, stateVars, rows, faults>>

-----------------------------------------------------------------------------

Create == CreateRow \/ Enqueue \/ SaveTaskId \/ CreateFails
Delete == DeleteRead \/ DeleteRevoke \/ DeleteCancel \/ DeleteLocks \/ DeleteRow \/ DeleteFails
StageSteps == StartStage \/ Publish \/ PublishFails \/ StartCommit \/ CompleteStage
           \/ CompleteCommit \/ FailStage \/ FailCommit
Execute == Begin \/ RunStart \/ StageSteps \/ RunAgent \/ FinalUpdate \/ PublishResult
Celery == Deliver \/ WorkerError \/ SoftLimit \/ HardLimit \/ Crash \/ MarkFailed
            \/ Retry \/ RetryRejected

Next == Create \/ Delete \/ Execute \/ Celery

Spec == Init /\ [][Next]_vars

\* What is certain to happen: the broker delivers, the time limits fire, Celery
\* handles an exception, an API process goes on with a request it has begun.
\* Nothing is assumed of the agents, the database or the worker.
Fairness ==
  /\ WF_vars(Deliver) /\ WF_vars(SoftLimit) /\ WF_vars(HardLimit) /\ WF_vars(Retry)
  /\ WF_vars(Enqueue) /\ WF_vars(DeleteRevoke) /\ WF_vars(DeleteCancel) /\ WF_vars(DeleteRow)

FairSpec == Spec /\ Fairness

-----------------------------------------------------------------------------
(* Properties *)

TypeOK ==
  /\ row \in {"none", "live", "deleted"} /\ status \in Statuses
  /\ taskIdSaved \in BOOLEAN
  /\ createPc \in {"new", "created", "enqueued", "done"}
  /\ deletePc \in {"idle", "revoke", "cancel", "delete", "locking", "done"}
  /\ deletes \in Nat
  /\ queued \in BOOLEAN /\ revoked \in BOOLEAN /\ attempts \in Nat
  /\ softFired \in BOOLEAN
  /\ ending \in {"none", "skipped", "succeeded", "failed", "abandoned", "lost"}
  /\ pc \in {"idle"} \cup Working \cup Leaving
  /\ stage \in Stages /\ ran \in SUBSET Stages
  /\ wanted \in SUBSET {"discovery", "treatment"}
  /\ hasDataset \in BOOLEAN /\ errors \in BOOLEAN
  /\ rows \in [Stages -> RowPair]
  /\ faults \in Nat

\* No stage row exists without its analysis: a worker that goes on after the
\* deletion, in whatever step the deletion found it, leaves no orphan
\* (start_stage and the foreign keys against delete_analysis).
NoOrphanStage == ~Live => \A s \in Stages : rows[s] = NoRows

\* When the graph is through, what the state remembers is what the database
\* shows: every stage that ran is closed, and there are errors exactly if a
\* stage is failed, also when complete_stage itself failed after the agent had
\* succeeded (BaseAgent.run against run_causal_analysis).
VerdictMatchesStages ==
  pc \in {"final", "publish"} /\ Live =>
    /\ \A s \in ran : rows[s].tracked \in {"completed", "failed"}
    /\ errors <=> \E s \in ran : rows[s].tracked = "failed"

\* The graph reaches its end only over the route that the analysis types ask
\* for, those that EDA added included, and always over the report.
RouteCovered ==
  pc \in {"final", "publish"} =>
    ran = {"download", "eda", "reporting"} \cup (wanted \cap {"discovery"})
            \cup (IF "treatment" \in wanted THEN {"treatment", "validation"} ELSE {})

\* While agents work the analysis reads as running, or as cancelled by a
\* delete request that is not through: a client never sees a terminal verdict
\* of an earlier execution next to stages that move.
AgentsRunUnderRunning ==
  pc \in Working \ {"begin", "run", "publish", "except"} /\ Live =>
    \/ status = "running"
    \/ status = "cancelled" /\ deletes > 0

\* A task that Celery saw end, by a return or by an exception that was marked,
\* leaves a terminal status that says so, unless a delete request came.
HandledEndingsSettle ==
  Live /\ deletes = 0 =>
    /\ ending = "succeeded" => status = "completed"
    /\ ending = "failed" => status = "failed"

\* Once the row is gone, no further agent starts: a task that was not revoked
\* (pending, waiting for its retry, or revoked in vain) stops at the next
\* start_stage or before.
DeletedStaysQuiet == [][~Live => ~(pc # "agent" /\ pc' = "agent")]_vars

\* The task ends, whatever hangs or dies: every execution is ended by itself or
\* by a time limit, also when the publisher waits for a row its own caller has
\* locked, and the retries are bounded.
TaskSettles == (queued \/ pc # "idle") ~> [](~queued /\ pc = "idle")

\* The delete request returns although its DELETE waits for the locks of a
\* worker's open transaction, which may wait for the DELETE in turn.
DeleteReturns == (deletePc \notin {"idle", "done"}) ~> (deletePc \in {"idle", "done"})

\* The pipeline implements what the rest of the system relies on.
Contract == INSTANCE AnalysisContract WITH tries <- attempts, active <- pc # "idle"
ImplementsContract == Contract!Spec

\* "Critical errors exist - mark analysis as failed" (run_causal_analysis): an
\* execution that ends with errors leaves the analysis failed.
FailedRunEndsFailed ==
  Live /\ deletes = 0 /\ ending = "succeeded" /\ errors => status = "failed"

\* "On worker restart, workflow resumes from last checkpoint": an analysis that
\* is running does not stay so for ever.
RunningIsResumed == (Live /\ status = "running") ~> (~Live \/ status # "running")

=============================================================================
