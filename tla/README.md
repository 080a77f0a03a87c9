# Verification of the causal analysis agent

This directory holds TLA+ models of the backend in `src/backend/app`, the TLC
configurations that check them on small instances, and TLAPS proofs of their
main properties for every value of the constants. `PROJECT.json` maps every
definition to the lines it models and lists runs, mutants, findings, hazards and
theorems.

## 1. The system

A user posts a Kaggle URL. The API admits the request against the user's limits,
stores an *analysis*, and queues a Celery task. A worker runs the task: a
LangGraph pipeline of six agents (download, EDA, discovery, treatment,
validation, reporting). Each agent is bracketed by a row that tracks its stage;
each change of a stage is published to the database and to Redis, from where
clients stream it. The user can delete the analysis at any time.

| component (`src/backend/app/...`) | state | operations | interacts with | what makes it correct |
|---|---|---|---|---|
| analysis task: `tasks/analysis.py`, `worker.py` | message, attempts, `analyses.status` | deliver, retry (3), soft and hard time limit, mark failed | orchestrator (call), broker, delete request (revoke) | one execution at a time, bounded retries, a status that says how it ended |
| orchestrator: `orchestrator/` | `AnalysisState` in memory | route between agents, verdict | agents (calls), database | route follows the analysis types, also those added on the way; verdict follows the stages |
| agents: `agents/` | results in the database and in the state | `run` (start, work, complete or fail) | stages, LLM router, Kaggle, storage | an agent's failure is recorded and does not stop the graph |
| stage tracking: `services/stages.py` | `analysis_stages` | start, complete, fail | publisher (called with the row flushed, not committed) | no stage left open, none without its analysis |
| progress: `services/progress.py`, SSE in `api/v1/analyses.py` | the same rows, a Redis channel, clients | publish, stream, fall back to polling | stages, clients | events in order, none twice, none before it is stored; polling catches up |
| create and delete: `api/v1/analyses.py`, `crud/` | `analyses`, task id | create, delete | limits, broker, worker | deletion ends the work and leaves nothing behind |
| limits: `services/rate_limiter.py`, `services/quota_manager.py`, `api/dependencies.py` | two sorted sets per user in Redis, count of running rows | reserve, read, reset | API requests, administrators | of the requests that pass the check, never more than the windows allow (a hypothesis test goes around it, see 5); no refusal without cause |
| LLM access: `llm/`, `services/circuit_breaker.py`, `services/llm_cache.py`, `agents/llm_utils.py` | circuit per provider, cache, token account | complete, structured output, retry, fall over, count tokens | agents | failing providers are left alone and tried again, attempts are bounded, usage adds up |
| analysis work: `agents/*.py`, `services/data_preprocessing.py`, `services/data_quality.py`, `services/storage.py`, `crud/dataset.py` | datasets, understandings, graphs, effects, reports; files on disks and in the bucket | download, explore, preprocess, search, estimate, report | base class, LLM access, Kaggle, bucket | later agents compute with the analysis' own complete data; results are whole, retries included |
| versions: `crud/analysis_version.py`, `crud/analysis.py`, `api/v1/versions.py`, `crud/audit_log.py` | numbered configurations, audit log | first version, EDA's update, snapshot, revert | create, delete, EDA | numbers without gaps or repeats, the present configuration is in the history, the log tells of every version after the first |
| collaboration: `api/v1/comments.py`, `api/v1/sharing.py`, `api/v1/results.py` | comments, share links with view counts, edited graphs | comment, reply, resolve, delete; share, revoke, view; edit | users, delete | what was deleted or revoked does not come back, views are counted, no cycle is stored, nothing outlives the analysis |
| accounts: `api/v1/auth.py`, `api/v1/users.py`, `core/auth.py` | users, reset tokens in memory, access tokens | register, log in, change the profile, reset the password | everything (identity) | one account per email, a reset token works once, no change undoes another |

The behaviours that are hard to test: a retry that runs over the rows of the
execution before it; time limits whose exception surfaces anywhere; the loss of
a worker between any two commits; a delete request that interleaves with every
step of the worker; two sessions of one coroutine that write the same row;
requests that read a clock and use it later; two requests that check, then
write, on the strength of what both have read; files and rows that an attempt
leaves half done to the next one on another worker's disk. `PROJECT.json` lists each of these
hazards at its line, with the property that would catch it going wrong.

## 2. Modules

| module | models |
|---|---|
| `StageRows` | the pair of rows a stage can have, and what start, publish and commit do to it |
| `AnalysisPipeline` | one analysis from its creation to its deletion: both requests, the task, Celery, the graph, the stages |
| `AnalysisContract` | the abstract specification: what the rest of the system may rely on |
| `AnalysisPipelineProofs` | the theorems about `AnalysisPipeline` |
| `Admission` | one user's requests against the concurrent limit and the sliding windows |
| `AdmissionProofs` | the theorems about `Admission` |
| `ProgressStream` | the events of one analysis on their way from the worker to a client |
| `ProgressStreamProofs` | the theorems about `ProgressStream` |
| `CircuitBreaker` | one circuit, as a value: used by the router and by the download agent |
| `LlmRouter` | the LLM calls of one worker: retries, circuits, cache, token account |
| `LlmRouterProofs` | the theorems about `LlmRouter` |
| `Preprocessing` | what the quality gate, EDA and the later agents compute from a table |
| `PreprocessingProofs` | what these operators give for every table |
| `AgentWork` | the work of the six agents over the attempts at one analysis: rows, files, results |
| `AgentWorkProofs` | the theorems about `AgentWork` |
| `AnalysisRecords` | versions, audit log, comments, links and edited graphs of one analysis under concurrent requests and deletion |
| `AnalysisRecordsProofs` | the theorems about `AnalysisRecords` |
| `Accounts` | registration, login, profile and password reset under concurrent requests |
| `AccountsProofs` | the theorems about `Accounts` |
| `MC...` | values of constants for TLC |

### AnalysisPipeline

A step is what happens between two points at which another process can see or
change what it touches. The worker's execution is the control point `pc`:

    idle - begin - run - start - starting - started - agent -+- complete - completing - completed -+- final - publish - idle
                           ^                                 +- fail ----- failing ---- failed ----+
                           +---------------- next stage (Advance) ---------------------------------+
    any of these: except - raised - idle (retry or end), or unmarked - idle

`starting`, `completing`, `failing` (`Flushed`) are the points at which
`services/stages.py` has flushed a row and awaits the publisher, which writes
the same table in a session of its own; `started`, `completed`, `failed`
(`Published`) are those before the caller's commit. `StageRows` keeps both rows
that come of it: the *tracked* one, and the *echo* that the publisher inserts
because it cannot see the caller's. The next `start_stage` of a stage with both
raises `MultipleResultsFound`, so a retry stops at the first stage an earlier
execution had started.

What is read once and used later is kept apart: the delete request reads status
and task id (`DeleteRead`), then revokes, cancels and deletes in three further
steps; the create request commits the row, queues the task, and stores the task
id. Row locks are modelled where they make someone wait: `PublisherWaits` (the
publisher waits for its own caller, or for the DELETE) and `DeleteLocks` /
`DeleteRow` (the DELETE waits for the worker's transaction).

Faults: `WorkerError` (a statement or commit fails, at most `MaxFaults` times),
`PublishFails`, `RetryRejected` (same bound), `CreateFails` and `DeleteFails`
(the request or its process ends), `SoftLimit`, `HardLimit`, `Crash` and the
loss of a message that was revoked (each of which the retries bound by
themselves). The state of the graph is in memory and `Forget` resets it. The
checkpointer is `None`: `langgraph-checkpoint-postgres` is not among the locked
dependencies.

Abstractions. The list of errors is whether it is empty; of the analysis types,
which optional branches they ask for; of a stage row, its status. An agent's
work is one step that succeeds or fails. That a commit succeeds and the refresh
after it fails is not a step of its own: for the statuses it equals a failure of
the next statement. One delete request is under way at a time.

### Admission

A request counts the running analyses, reads its clock, and later runs the
reservation script; then the analysis is created, started and ended. The sorted
set of a kind is the set of its stamps, because the member is made of the stamp
and the user: equal stamps share an entry. A script may run up to `MaxDelay`
ticks after its clock was read, and so in another order than the stamps. The
readers (`GetRemaining`) prune with old clocks, too. Redis failures admit the
request before or after the script took effect. `RATE_LIMIT_ENABLED = false` and
several users are left out: the first checks nothing, the second share no key.

### ProgressStream

The worker goes through its stages: `StartStage` and `CloseStage` flush a row,
`StageStored` / `StoreFails` are the first half of `publish_progress`,
`RedisPublish` / `RedisFails` the second, `Commit` / `CommitFails` the caller's
transaction. It shares `StageRows` with the pipeline, so that a publisher that
has to wait for its own caller stores nothing, and a retry raises at the first
stage with two rows (`StartRaises`). The client's stream is `mode`: `opened`
(the first message is sent), `redis`, `database` (after `FallBack`), `last` (a
terminal event has been yielded), `ended`. `channel` is what Redis has for the
subscription; it is lost with the connection.

An event is its place in `log`; `_event_hash` is stage and status, so a repeated
event can equal an earlier one. The poller reads one row, the one updated last:
`visible` is the event it shows. `last_event_hash` is not a variable: it is the
hash of the last event that the stream delivered. Left out: the heartbeats,
the count of clients (only logged), Redis errors that are neither connection
errors nor timeouts other than as `StreamError`. The poller's own deadline
starts later than that of the generator and has the same length, so `Timeout`
is the one that counts.

### LlmRouter

A call walks over the providers in `_ordered_providers`: `Choose` looks at the
circuit, `CacheHit` / `CacheMiss` at Redis, then come up to `Attempts` attempts
(`AttemptFails`, `AnswerComplete`, `AnswerStructured`, `AnswerUnparsed`) and
`Store`. `call_llm_with_retry` goes round again when `structured_output` returns
None. The router counts the tokens in background tasks (`TaskReads`,
`TaskWrites`, `TaskFails`), the agent counts them once more itself
(`AgentReads`, `AgentWrites`): both read the account, add and write it back, and
`overlap` observes whether two did at once. `EndRun` cancels what is under way
and begins with a new account; circuits (`CircuitBreaker`) and the cache stay.

One prompt stands for all, an answer costs one token, and a provider resolves to
one model. `streak` is observed: the attempts since the circuit was last closed.

### AgentWork and Preprocessing

A step of `AgentWork` ends where a transaction commits or a file is written. The
control point `pc` goes through the stages: `download - fetch - raw - register`,
`eda - quality - explore - write - metadata - understand`, `discovery - search`,
`treatment - estimate`, `validation`, `reporting` and one point per
format. The gate ends in three ways: `QualityPasses`; `QualityFails`, the
`AgentFailure` of a table with errors, which fails the stage; and
`QualityRaises`, any other exception, which `eda.py:140` logs and after which EDA
goes on with whatever table it has. `ungated` observes the last, also where the
file that comes of it is another analysis' and is found by `Lookup`. `NoPair` is
treatment's return without a result when there are no two columns to compare.
`Fail` is the handler of `BaseAgent.run` (`StageFails`, and the errors
that the code itself raises); `Interrupt` ends the attempt, `Retry` begins the
next one with an empty state on any disk. What the stages leave is kept as rows
(`dataset`, `understanding`, `graphs`, `effects`, `reports`) and files (`local`
by disk, `remote` in the bucket). The composition with the task is by these
attempts: which statuses and stage rows go with them is in `AnalysisPipeline`.

`Preprocessing` says what happens to a column: its kind, its missing values, how
many of its values differ. The checks of the gate (`Passes`), candidates, the five steps
of preprocessing and the search for treatment and outcome columns are operators
over these facts; loops over columns are recursive functions (`Keep`, `Encoded`,
`Engineered`). Which estimate a method gives is not
followed, only whether it gives one.

The state is that of one analysis. Others of the same address appear as the
cached row (`Lookup`), with a copy in the bucket and perhaps the path of their
own preprocessed file.

### AnalysisRecords

Each request is a session: `...Begin` is what its checks have read, `...Write`
the commit, with what the database enforces: `Fits` is the unique key of
analysis and number, `There` the foreign key, `DeleteRemove` the cascade. A
version, the configuration and the audit entry are one commit (`SnapshotWrite`,
`RevertWrite`, `PersistWrite`); the first version and the entry about the
creation are two (`CreateVersion`, `Enqueue`). An audit entry has an action, a
number and a configuration, as far as the code logs them: EDA's update has the
configuration alone (`crud/analysis.py:169-172`), and `Bare` entries (a task id, a
cancellation, the deletion) have neither. `Logged` says which entry belongs to
which version. A configuration is `empty`,
`given` by the user or `typed` by EDA. `HasCycle` is `_has_cycle` with its
depth-first search: `Visit` is its body for one edge, `Folded` a loop, and the
recursion a function of the depth, which the number of nodes bounds. `Cyclic` says
without a search which graphs have a cycle.

Texts, roles and the expiry of links are left out: they decide whether a request
is made, not what it does to the others.

### Accounts

A request goes through `check`, `flush`, `use` (the reset token is deleted) and
`commit`. `Written` says which columns SQLAlchemy writes: those set to another
value than was loaded. `Waits` is the lock that a flush waits for, of a row or of
a place in the unique index of emails. `Restart` loses the reset tokens, which
are kept in the memory of the process. A password is named by the request that
set it.

## 3. Runs

| run | what it shows | instance |
|---|---|---|
| `pipeline_safety` | the six invariants, no agent after deletion, and the refinement of `AnalysisContract` | one retry, one delete request, one fault, discovery configured, treatment added by EDA or not; 4.9 million states |
| `pipeline_liveness` | every task ends, every delete request returns | one retry, one delete request, the short route; 350 thousand states |
| `admission_windows` | the windows hold at every tick, refusals have a cause | three requests, limits 1 and 2, windows of 3 and 5 ticks, delay of 1, six ticks |
| `progress_stream` | events arrive in order and once, after they are stored; polling catches up | two stages, one retry, two streams; 1.6 million states |
| `llm_router` | attempts at a failing provider are bounded, an open circuit stays open for its time, the token account is never too high, every call ends | two providers, threshold 2, two attempts, one call in each of two runs; 152 thousand states |
| `agent_work` | the later agents work on the analysis' own, described data, complete unless the gate itself has failed; results are whole; the work ends | seven analyses of small tables, two disks, two attempts, two faults, threshold 1; 0.7 million states |
| `records` | history, audit log, counts and graphs stay consistent; what was deleted does not come back, nothing outlives the analysis | three requests of any kind, two attempts of EDA, six graphs, two links; 615 thousand states |
| `accounts` | one account per email, a reset token works once, no change brings back an old value | four requests of any kind, two emails, two tokens; 918 thousand states |
| `failed_run_overwritten` | violation: a failed run is reported completed | |
| `running_not_resumed` | violation: a lost analysis stays running | |
| `concurrent_limit_exceeded` | violation: more analyses run than the limit allows | two requests, limit 1 |
| `completed_before_over` | violation: a stream ends as completed before the analysis | two stages, no retry, one stream |

The bounds are enough for the interesting cases to happen: one retry is what it
takes for rows of an earlier execution, a second verdict and the end of the
retries; one fault can hit any statement of either execution; the delete request
can meet every step. Between them the two
pipeline runs take every conditional edge, with treatment left to EDA. In the admission run a window opens
and closes within the six ticks, the daily one admits what the hourly one
refuses and the reverse, scripts swap their order, and two requests can read the
same clock. In the stream run the client can reopen its stream after the first
stage, Redis can fail before, between and after the events, and the retry repeats
events of the first execution.

In the router run both circuits can open, expire and be found open by the second
run, and two increments can meet. Threshold and attempts of two tell one failure
from the last one. In `agent_work` the tables are chosen so that each check of
the quality gate, each kind of column and each way of encoding one occurs, with
and without preprocessing, bucket and override; two faults can end both attempts
at any step, on one disk or on two. In `records` two requests read the same
maximum while a third deletes, replies meet the deletion of their parent, and
the graphs hold a path, a diamond and cycles of one to three nodes, one behind a
node that is searched first. In `accounts` four requests are two that register
and two that race for an email, a row or a token.

The proofs remove the bounds for every invariant and action property of these
runs; what only the runs show is that things end (`TaskSettles`, `DeleteReturns`,
`PollCatchesUp`, `CallEnds`, `WorkEnds`).

Deadlock is not checked: a task that is done and a request that is answered do
stop, and the clock of `Admission` is bounded.

Mutants. Every property has a mutant of a mapped definition (a dropped guard, a
forgotten assignment, an off-by-one), kept beside the definition it changes and
marked `Mutant:`, under which TLC finds the property violated in the same run.

### Fairness

`FairSpec` assumes weak fairness of `Deliver` (the broker delivers), of
`SoftLimit` and `HardLimit` (`task_soft_time_limit`, `task_time_limit`), of
`Retry` (Celery handles the exception of a task), and of the steps of an API
process (`Enqueue`, `DeleteRevoke`, `DeleteCancel`, `DeleteRow`). Nothing is
assumed of the agents, of the database, or of the worker's own progress: an
agent may hang for ever and a lock may be held as long as its holder lives. So
`TaskSettles` says that the time limits are enough, and `DeleteReturns` that
they also resolve the wait between the DELETE, the worker's transaction and its
publisher.

In `ProgressStream` only `Poll` is fair: the poller sleeps at most
`PROGRESS_MAX_POLL_INTERVAL` between two rounds, and a round fails or succeeds.
Three failures in a row end the stream, so no fairness of success is needed.
Nothing is assumed of the worker or of Redis.

In `LlmRouter` a call and the background tasks go on (`CallStep`, `TaskStep`):
the event loop runs what is ready, and a provider's client answers or gives up
after its own timeout. Whether an attempt succeeds is left open, and no circuit
need ever expire: `CallEnds` says that the nested retries and the walk over the
providers end by themselves.

In `AgentWork` an agent goes on with what it has begun, and Celery with its retry.
`WorkEnds` then says that no outcome of a step, error or not, leaves an attempt
without a next one. That agents do not hang is not claimed by this: it is what
the time limits in `AnalysisPipeline` are for.

### What the violations show

1. `run_causal_analysis` marks an analysis failed when the graph returned
   errors; `_run_analysis` then marks it completed (`FailedRunEndsFailed`).
2. The documents promise that a workflow resumes after a restart. The message is
   acknowledged early and there is no checkpointer: the analysis stays
   `running`, and counts against its user's limit (`RunningIsResumed`).
3. The documents promise three concurrent analyses per user. The check counts
   running rows only, when the request arrives (`ConcurrentLimitHolds`).
4. The example client of the streaming endpoint fetches the results when a stream
   ends with reason `completed`. A stream ends so when the first stage does, and
   the end of the analysis is never published (`CompletedMeansOver`).

## 4. Proofs

TLAPS checks every theorem to its last leaf, for all values of the constants
under the named assumptions: `ConfigsAssumption`, `BoundsAssumption`,
`NoRowAssumption`; `WindowAssumption`, `ClockAssumption`, `RequestsAssumption`;
`ThresholdAssumption`, `ProvidersAssumption`; `AgentWorkAssumption`;
`StagesAssumption`, `StreamsAssumption`; `AnalysisRecordsAssumption`;
`AccountsAssumption`. They say of which kind the
constants are: of `AgentWork`, that tables are tables (columns with different names,
of any number and kind), and that there is an attempt; of `AnalysisRecords`, that the
edge lists are lists of pairs.

`AnalysisPipelineProofs`. The invariants of the runs are not inductive. `IInv`
adds what they rest on, each part with a lemma of its own that has one step per
action it can be disturbed by:

- `TaskOnce`, `TriesBounded`: message, execution and end exclude one another, and
  a queued message still has a try left;
- `RowLife`, `Untouched`, `Locked`: which requests can be where while the row is
  in which state; the status before the first delivery; a transaction of the
  worker that is open keeps the row from being deleted;
- `MarkedFailed`: between the mark and the end of the task the status is failed,
  unless a delete request came;
- `Fresh`: an execution that has not begun remembers nothing;
- `Before`, `OnRoute`, `Route`: the stages that ran are exactly those before the
  current one on the route the present analysis types select, which stays true
  when EDA extends them, because only branches not reached yet can be added;
- `Closed`, `Verdict`: every stage that ran, other than the current one, is
  closed, and errors and failed rows agree, from the commit of one stage to the
  start of the next.

`NextInv` combines the lemmas, `Inductive` is `Spec => []IInv`, and the theorems
follow: `PipelineTypes`, `NoOrphans`, `AgentsUnderRunning`, `EndingsSettle`,
`RoutesCovered`, `VerdictsMatch`, `DeletedQuiet` (an action property) and
`PipelineImplementsContract` (initial states map to initial states, and every
step to a step of the contract or a stutter).

`AdmissionProofs`. `WindowsHold` needs that the stamps of the recent admissions
are in the sorted set (`KeyHolds`: what a script or a reader may prune is older
than the window less the delay) and that the set is never larger than its limit
(`KeyBounded`). `RefusalsJustified` needs the converse (`KeyOwned`: every stamp in
the set is that of an admission since the last reset).

`ProgressStreamProofs`. `SeenInOrder` rests on `ChannelLater` (what Redis holds is in
order and later than what its stream has delivered) and `Unpublished` (an event
still to be published is later than both), and for the poller on `SeenIsStored`:
the row is never behind the client, so an event that differs from the newest is
later. `SeenIsStored` rests on `ChannelStored`, which says that the upsert comes
before the publish; `Modes` and `Working` say when there is a channel and when a
transaction. The steps are first sorted into a few kinds (`Flushes`, `Quiet`,
`Shows`; `Delivers`, `Takes`, `Polls`, `CutsOff`, `Idles`), and each part of the
invariant is proved over the kinds.

`LlmRouterProofs`. `AttemptsBounded` is a product, threshold times attempts, and rests
on `StreakCounted`: each failure the circuit knows of stands for at most
`Attempts` attempts. That needs `AskedWhenClosed` (between the look at the circuit
and the answer nothing opens it) and `CircuitsSound` (a time is set exactly when
the threshold is reached). `UsageFaithful` rests on `AccountSound` (whoever has
read the account has read no more than is committed) and `AloneSound` (without an
overlap, one increment at most is under way and its value is the present one).

`AnalysisRecordsProofs`. `Numbers`: every number that a session has read is that of a
version or the one after the last, so that the unique key leaves only the latter
(`FitsNext`). `Past`: until there is a version, the configuration is the one that
every session has loaded. `Life`: before the row there is nothing, and who is
about to remove it has logged that. `Trail`: beside `AuditTrail`, the first version
is there, with its configuration, while the entry about the creation is still to be
written. `Drafts`: what a comment about to be written is made of. `GoneForGood`
needs none of this but the types: an action is gone through for the rows that it
inserts (`OnlyInserted`). Requests that leave the
history alone are one kind of step (`Leaves`). `ViewsSound` is proved apart, over
steps that are `Quiet` and the three that are not; only there must the requests
be finitely many.

`AccountsProofs`. `EmailsUnique` rests on `PlacesFree`: a transaction that has flushed
an email has it to itself until it ends, although the check it made was of
committed rows. `SingleUse` rests on `TokensSpent`: a confirmation that has
deleted its token is the only one that could. `ChangesAsked` follows from
`SessionsSound`: what a session writes is what it was asked for, since it has
flushed just the columns that differ.

The same module proves `CyclesRefused`. `CycleFound` is about the search itself, for
every graph: `_has_cycle` is true exactly if some node reaches itself. An induction
over the depth (`SearchCorrect`) shows of dfs that it returns with a cycle only if
there is one, and otherwise leaves more nodes `Finished`: those seen and not on the
stack lead only to finished ones and do not reach themselves. A node that is done
is finished, because its successors are and are closed without it; a node on the
stack that is met again reaches itself, because all on the stack lead to the present
one. The fuel of the recursion is enough: fewer nodes are unseen at each level.
`Along` is the invariant of the loop over the edges.

`PreprocessingProofs` is about tables of any size. `PreprocessedColumns` goes through
the five steps: columns stay columns, numbers stay numbers, and with imputation a
number lacks nothing or what a column of the file lacked in more than eight tenths
of the rows. That is so of every table. `GateOpen` says what a table without errors
has besides: at least two numbers and no column with more than half missing. From
both follow `PassedIsComplete` and `PairThere`: in what becomes of such a table,
nothing is missing and treatment finds a pair of columns.

`AgentWorkProofs`. `IInv` has one part for each thing that an attempt may leave half
done to the next:

- `RowsThere`, `TasksTyped`: which rows there are when a step needs them; the list of
  tools or methods still to be tried is one;
- `KaggleSound`: a circuit with its threshold reached has a time;
- `FilesSound`, `ReadingSound`: a preprocessed file, the analysis' own or another's,
  was made of a table without errors unless the gate has raised (`ungated`); the own path is stored before the
  understanding, and what a stage has loaded is the file that the row names;
- `FilesDescribed`: as long as no other disk had a file when EDA wrote one, all
  copies were made with the candidates of the understanding that is stored, or is
  about to be; an understanding is never replaced, so this survives every retry;
- `GraphsBeside`, `EffectsBeside`, `ReportsBeside`: what the results stand beside,
  at each point of the stage that stores them.

`NextInv` has a lemma for each action or kind of action, and `TypeCorrect`,
`OwnDataCorrect`, `UnderstandingCorrect`, `NumbersCorrect`, `ResultsCorrect` and
`PairFound` follow. `NumbersCorrect` joins `FilesSound` with `PassedIsComplete` where
the gate has judged the table, and rests on `PreprocessedColumns` alone where it has
not. `PairFound` is claimed of the former only: the return without a pair
(`agents/treatment.py:56`) is not reached but on a table that no gate has judged, and
the run reaches it there.

Induction. The induction theorems of the library take an operator, which the provers
cannot instantiate. The lemma `Induction` (in `PreprocessingProofs` and
`AnalysisRecordsProofs`) is about a set instead: one that has 0, and with each number
the next, has every number, since a least one outside cannot be (`WFMin`). Recursion
is by functions over an initial segment of the numbers. That there is such a function,
as its definition by CHOOSE needs, is a lemma each time (`KeepDefined`,
`FoldDefined`, `SearchDefined`).

What the proofs found in the models. `UnderstandingDescribesData` was once claimed when
EDA had written to one disk at most. That is false with four attempts and four faults:
an attempt whose EDA fails copies the file of an earlier one from the bucket to its own
disk, a later one writes a new file on the first, and one more attempt on the second
finds the older file. `wrote` now counts the disks that have a file when EDA writes one.
Two CASE expressions (`After`, `Found`) had guards that overlapped, where TLC takes the
first and TLA+ leaves it open.

Model-checked only: `CallEnds`, `WorkEnds`, `TaskSettles`, `DeleteReturns` and
`PollCatchesUp` (liveness under fairness is out of the prover's reach), and the
violations.

## 5. Not modelled

- `agents/validation.py` from line 201 on, the sensitivity checks: its load fails
  whenever there are effects, because no dataset row has a local path and the
  code does not fall back to the bucket. `ValidationFails` is what it does.
- Statistics: discovery's tools and treatment's methods succeed or fail
  (`StoreGraph`, `Estimate`); which numbers they give is numerical code over data
  frames.
- Reading and rendering: lists, comparison of analyses and versions, previews,
  the text of reports and prompts. They change nothing.
- The providers' and Kaggle's clients beyond success and failure, waiting times,
  connection pools, Redis beyond its commands.
- `run_hypothesis_test` (`api/v1/analyses.py:593-682`), a second way to create an
  analysis. It creates the row, enqueues the task and stores its id, without
  `check_analysis_quota`, without a first version and without the audit entry of a
  creation. What it starts goes around the limits: `WindowLimit` is about the
  requests that pass the check, and the statements on the first version and the log
  are about what `create_analysis` has made.
- CSRF tokens and security headers (one request against its own headers), and
  the store of credentials, whose write side has no caller.
- `check_rate_limit`, `increment_counter`, `can_start_analysis`,
  `update_stage_progress`: no caller.
- Tracing, logging, evaluations, scripts, migrations, deployment.

Five hazards in `PROJECT.json` have no property, each with its reason. The
composition of `Admission` with `AnalysisPipeline` into one model is left out: the
two share one number, how many analyses run, and `Admission` already lets an
analysis run for ever, which is all that a lost one does to it.

### What the models showed besides

- `versions.py:663` promises that a revert updates the configuration. A
  configuration equal to the one loaded first is not written; when EDA wrote in
  between, the version of the revert is there and the configuration is EDA's.
  `ConfigInHistory` holds all the same, since EDA's is a version, too.
- EDA changes a configuration that is not empty in place (`eda.py:511`): it is
  neither written nor versioned, only logged (`PersistInPlace`).
- An exception in the quality gate does not stop EDA (`eda.py:140`, "validation should
  not block EDA"). The table it did not judge may have columns that lack more than
  imputation fills, which the later agents then compute with, or no two numbers, so
  that treatment completes without a result (`QualityRaises`, `NoPair`).
- The audit entry of EDA's update has the configuration but not the number of the
  version made with it (`crud/analysis.py:169-172`), which the entries of snapshots
  and reverts have. `AuditTrail` asks only for the configuration there (`Logged`).
- The endpoint's note at `comments.py:453-455` says that the replies of a deleted
  comment remain and refer to one that no longer exists. They do not: the key
  `parent_comment_id` and the relation cascade (`models/analysis_comment.py`), and
  `UncommentWrite` deletes them with it.
- The limit of ten links is checked before the insert, without a lock: concurrent
  creators exceed it. Views that overlap are counted once (`ViewsCounted` gives
  the bounds that hold).
- The entry about a creation is lost when queueing the task fails
  (`CreateVersion`, then `Enqueue`); `AuditTrail` leaves the first version out.
- An answer counts twice on `llm_tokens_used`, by the router and by the agent,
  and a cached one once, by the agent.
- Discovery's and treatment's fall-back to the raw table never finds one, and
  without a bucket EDA fails, because the download stores the local path under a
  key that is no column.
- A retry that comes back to a disk an earlier attempt has used may find the file
  of that attempt; so `UnderstandingDescribesData` is claimed as long as there is a
  file on one disk when EDA writes one.
- Reset tokens are unknown to other API processes and lost on a restart; one is
  used up when the commit after its deletion fails.

## 6. How to run

    tlc -workers 2 -config pipeline_safety.cfg MCAnalysisPipeline
    tlapm AnalysisPipelineProofs.tla
