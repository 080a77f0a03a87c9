--------------------------- MODULE ProgressStream ---------------------------
(***************************************************************************)
(* How the progress of one analysis reaches a client. The worker publishes *)
(* every change of a stage: first the publisher's own session stores it,   *)
(* then Redis passes it to whoever has subscribed. The client's stream     *)
(* listens to Redis and, when that connection fails, polls the database    *)
(* instead. A client whose stream has ended may open another.              *)
(*                                                                         *)
(* An event is named by its place in log, the history of all events. What  *)
(* _event_hash compares is its stage and status, of which the message, the *)
(* percentage and the error are functions (but for a completed stage that  *)
(* is run again, which starts at 100 percent); a retry may repeat one.     *)
(* Who can write the rows of a stage, and when a session waits for the     *)
(* other, is StageRows. Of the contents only the row that was updated last *)
(* matters, which is what the poller reads: it shows the latest event that *)
(* the publisher or its caller has committed. The first message of a       *)
(* stream (stage "init") and the heartbeats are left out.                  *)
(***************************************************************************)
EXTENDS StageRows, Naturals, Sequences

CONSTANTS
  LastStage,            \* stages on the route of the analysis
  MaxRetries,           \* executions of the task beyond the first
  MaxStreams            \* bound: streams that the client opens

ASSUME StagesAssumption == LastStage \in Nat \ {0}
ASSUME StreamsAssumption == MaxRetries \in Nat /\ MaxStreams \in Nat

VARIABLES
  log,                  \* the events so far
  phase,                \* where the worker is with the last of them
  retries,              \* executions beyond the first so far
  rows,                 \* the rows of each stage
  visible,              \* the event that the row updated last shows (0: no row)
  over,                 \* the status of the analysis is terminal
  deleted,              \* the analysis and its stages are deleted
  mode,                 \* where the client's stream is
  reason,               \* why it ended
  channel,              \* the events that Redis has for the subscription
  pollErrors,           \* polls that have failed in a row
  seen,                 \* the events delivered to the client, all its streams
  first,                \* how many of them came before the present stream
  streams               \* streams opened

workerVars == <<log, phase, retries, rows, visible, over, deleted>>
clientVars == <<mode, reason, channel, pollErrors, seen, first, streams>>
vars == <<workerVars, clientVars>>

Terminal == {"completed", "failed"}
Events == [stage : 1..LastStage, status : {"running"} \cup Terminal]

Current == log[Len(log)]
Newest == seen[Len(seen)]
IsOpen == log # <<>> /\ Current.status = "running"
Position == IF log = <<>> THEN 0 ELSE Current.stage

Init ==
  /\ log = <<>> /\ phase = "between" /\ retries = 0
  /\ rows = [s \in 1..LastStage |-> NoRows] /\ visible = 0
  /\ over = FALSE /\ deleted = FALSE
  /\ mode = "new" /\ reason = "none" /\ channel = <<>> /\ pollErrors = 0
  /\ seen = <<>> /\ first = 0 /\ streams = 0

-----------------------------------------------------------------------------
(* The worker *)

\* start_stage, complete_stage and fail_stage up to the flush of their row.
Flush(e) == log' = Append(log, e) /\ phase' = "flushed"

\* start_stage finds at most one row, and from then on tracks it.
Start(s) ==
  /\ ~Ambiguous(rows[s])
  /\ Flush([stage |-> s, status |-> "running"])
  /\ rows' = [rows EXCEPT ![s] = Adopt(@)]

StartStage ==
  /\ phase = "between" /\ ~IsOpen /\ Position < LastStage
  /\ Start(Position + 1)
  /\ UNCHANGED <<retries, visible, over, deleted, clientVars>>

\* It finds two, raises, and mark_analysis_failed follows.
StartRaises ==
  /\ phase = "between" /\ ~IsOpen /\ Position < LastStage
  /\ Ambiguous(rows[Position + 1])
  /\ phase' = "raised" /\ over' = TRUE
  /\ UNCHANGED <<log, retries, rows, visible, deleted, clientVars>>

CloseStage ==
  /\ phase = "between" /\ IsOpen
  /\ \E st \in Terminal : Flush([stage |-> Position, status |-> st])
  /\ UNCHANGED <<retries, rows, visible, over, deleted, clientVars>>

\* publish_progress, its first half: _upsert_stage_progress commits, unless it
\* has to wait for its own caller ...
Store ==
  /\ ~UpsertWaits(rows[Position], Current.status, FALSE)
  /\ rows' = [rows EXCEPT ![Position] = Upsert(@, Current.status)]
  /\ visible' = Len(log)

StageStored ==
  /\ phase = "flushed" /\ Store
  /\ phase' = "stored"
  /\ UNCHANGED <<log, retries, over, deleted, clientVars>>

\* ... or it fails, a wait that is broken off included, and nothing is published.
StoreFails ==
  /\ phase = "flushed"
  /\ phase' = "published"
  /\ UNCHANGED <<log, retries, rows, visible, over, deleted, clientVars>>

\* Mutant: Redis does not wait for the database.
PublishFirst ==
  /\ phase \in {"flushed", "stored"}
  /\ phase' = "published"
  /\ channel' = IF mode = "redis" THEN Append(channel, Len(log)) ELSE channel
  /\ UNCHANGED <<log, retries, rows, visible, over, deleted, mode, reason, pollErrors,
                 seen, first, streams>>

\* Its second half: Redis hands the event to the subscribers of the moment.
RedisPublish ==
  /\ phase = "stored"
  /\ phase' = "published"
  /\ channel' = IF mode = "redis" THEN Append(channel, Len(log)) ELSE channel
  /\ UNCHANGED <<log, retries, rows, visible, over, deleted, mode, reason, pollErrors,
                 seen, first, streams>>

RedisFails ==
  /\ phase = "stored"
  /\ phase' = "published"
  /\ UNCHANGED <<log, retries, rows, visible, over, deleted, clientVars>>

\* The caller's own row shows the same event once it is committed.
Commit ==
  /\ phase = "published"
  /\ phase' = "between" /\ visible' = Len(log)
  /\ rows' = [rows EXCEPT ![Position] = Track(@, Current.status)]
  /\ UNCHANGED <<log, retries, over, deleted, clientVars>>

\* BaseAgent.run fails the stage whose completion it could not commit; any other
\* error leaves the graph, and mark_analysis_failed follows.
CommitFails ==
  /\ phase = "published"
  /\ IF Current.status = "completed"
       THEN Flush([Current EXCEPT !.status = "failed"]) /\ UNCHANGED over
       ELSE phase' = "raised" /\ over' = TRUE /\ UNCHANGED log
  /\ UNCHANGED <<retries, rows, visible, deleted, clientVars>>

\* Celery's retry starts the graph from its first stage.
Retry ==
  /\ phase = "raised" /\ retries < MaxRetries
  /\ retries' = retries + 1
  /\ Start(1)
  /\ over' = FALSE
  /\ UNCHANGED <<visible, deleted, clientVars>>

\* run_causal_analysis and _run_analysis set the verdict. It is not published.
Finish ==
  /\ phase = "between" /\ ~IsOpen /\ Position = LastStage
  /\ phase' = "done" /\ over' = TRUE
  /\ UNCHANGED <<log, retries, rows, visible, deleted, clientVars>>

\* The worker is lost, and its transaction rolled back. Where no transaction is
\* open, a worker that is lost is one that takes no further step.
Crash ==
  /\ phase \in {"flushed", "stored", "published"}
  /\ phase' = "lost"
  /\ UNCHANGED <<log, retries, rows, visible, over, deleted, clientVars>>

\* delete_analysis. Its DELETE waits for the worker's open transaction; after
\* it no stage can be stored, and so none published.
DeleteAnalysis ==
  /\ ~deleted /\ phase \notin {"flushed", "stored", "published"}
  /\ deleted' = TRUE /\ over' = TRUE
  /\ rows' = [s \in 1..LastStage |-> NoRows] /\ visible' = 0
  /\ phase' = "done"
  /\ UNCHANGED <<log, retries, clientVars>>

-----------------------------------------------------------------------------
(* The client's stream: _analysis_event_generator and stream_progress *)

Listening == {"redis", "database"}

\* stream_analysis finds the row; the generator sends its first message.
Open ==
  /\ mode \in {"new", "ended"} /\ streams < MaxStreams /\ ~deleted
  /\ mode' = "opened" /\ reason' = "none"
  /\ streams' = streams + 1 /\ first' = Len(seen)
  /\ UNCHANGED <<workerVars, channel, pollErrors, seen>>

Subscribe ==
  /\ mode = "opened"
  /\ mode' = "redis"
  /\ UNCHANGED <<workerVars, reason, channel, pollErrors, seen, first, streams>>

\* A connection error or a timeout of Redis, at the subscription or later:
\* what it still had for this client is lost.
FallBack ==
  /\ mode \in {"opened", "redis"}
  /\ mode' = "database" /\ channel' = <<>> /\ pollErrors' = 0
  /\ UNCHANGED <<workerVars, reason, seen, first, streams>>

\* last_event_hash: the stream drops an event that equals its previous one.
Repeats(n) == Len(seen) > first /\ log[Newest] = log[n]

\* The stream yields event n, and breaks after a terminal one.
Yield(n) ==
  /\ seen' = Append(seen, n)
  /\ mode' = IF log[n].status \in Terminal THEN "last" ELSE mode

Receive ==
  /\ mode = "redis" /\ channel # <<>>
  /\ channel' = Tail(channel)
  /\ IF Repeats(Head(channel)) THEN UNCHANGED <<seen, mode>> ELSE Yield(Head(channel))
  /\ UNCHANGED <<workerVars, reason, pollErrors, first, streams>>

\* Mutant: the poller does not know what the stream has delivered.
PollAfresh ==
  /\ mode = "database"
  /\ pollErrors' = 0
  /\ IF visible = 0 \/ (Len(seen) > first + 1 /\ log[Newest] = log[visible])
       THEN UNCHANGED <<seen, mode>> ELSE Yield(visible)
  /\ UNCHANGED <<workerVars, reason, channel, first, streams>>

\* Mutant: events of the same stage are taken for the same.
PollStages ==
  /\ mode = "database"
  /\ pollErrors' = 0
  /\ IF visible = 0 \/ (Len(seen) > first /\ log[Newest].stage = log[visible].stage)
       THEN UNCHANGED <<seen, mode>> ELSE Yield(visible)
  /\ UNCHANGED <<workerVars, reason, channel, first, streams>>

\* One round of _stream_from_database. It has a hash of its own, which is that
\* of stream_progress from its first event on.
Poll ==
  /\ mode = "database"
  /\ pollErrors' = 0
  /\ IF visible = 0 \/ Repeats(visible) THEN UNCHANGED <<seen, mode>> ELSE Yield(visible)
  /\ UNCHANGED <<workerVars, reason, channel, first, streams>>

\* Of the reasons only "completed" is told apart from timeout, error, stream_end
\* and the silence to a client that has gone.
End(why) ==
  /\ mode' = "ended" /\ reason' = why
  /\ channel' = <<>> /\ pollErrors' = 0
  /\ UNCHANGED <<workerVars, seen, first, streams>>

\* Mutant: failed polls are not limited.
PollFailsForEver ==
  /\ mode = "database"
  /\ pollErrors' = pollErrors + 1
  /\ UNCHANGED <<workerVars, mode, reason, channel, seen, first, streams>>

\* A poll that fails is repeated; the third failure in a row ends the stream.
PollFails ==
  /\ mode = "database"
  /\ IF pollErrors < 2
       THEN /\ pollErrors' = pollErrors + 1
            /\ UNCHANGED <<workerVars, mode, reason, channel, seen, first, streams>>
       ELSE End("other")

\* The iterator stops after the terminal event that it has yielded.
Complete == mode = "last" /\ End("completed")

\* PROGRESS_STREAM_TIMEOUT, whatever the stream is doing.
Timeout == mode \notin {"new", "ended"} /\ End("other")

\* Any other exception of stream_progress.
StreamError == mode \in {"opened"} \cup Listening /\ End("other")

\* The client disconnects.
Disconnect == mode \notin {"new", "ended"} /\ End("other")

-----------------------------------------------------------------------------

Worker == StartStage \/ StartRaises \/ CloseStage \/ StageStored \/ StoreFails
            \/ RedisPublish \/ RedisFails \/ Commit \/ CommitFails \/ Retry \/ Finish \/ Crash
            \/ DeleteAnalysis
Client == Open \/ Subscribe \/ FallBack \/ Receive \/ Poll \/ PollFails \/ Complete
            \/ Timeout \/ StreamError \/ Disconnect

Next == Worker \/ Client

Spec == Init /\ [][Next]_vars

\* The poller sleeps a bounded time between two rounds.
FairSpec == Spec /\ WF_vars(Poll)

-----------------------------------------------------------------------------
(* Properties *)

TypeOK ==
  /\ log \in Seq(Events)
  /\ phase \in {"between", "flushed", "stored", "published", "raised", "done", "lost"}
  /\ retries \in 0..MaxRetries
  /\ rows \in [1..LastStage -> RowPair] /\ visible \in 0..Len(log)
  /\ over \in BOOLEAN /\ deleted \in BOOLEAN
  /\ mode \in {"new", "opened", "last", "ended"} \cup Listening
  /\ reason \in {"none", "completed", "other"}
  /\ channel \in Seq(1..Len(log)) /\ pollErrors \in 0..2
  /\ seen \in Seq(1..Len(log)) /\ first \in 0..Len(seen)
  /\ streams \in 0..MaxStreams

\* A client never goes back: no stream delivers an event twice or after a later
\* one, also when it changes from Redis to the database in between, and a
\* client that opens a new stream sees nothing older than what it has
\* (last_event_hash of stream_progress against both sources).
SeenInOrder ==
  \A i, j \in 1..Len(seen) :
    i < j => seen[i] <= seen[j] /\ (i > first => seen[i] < seen[j])

\* "Database write must complete before Redis publish to ensure fallback
\* consistency" (services/stages.py): a client that has an event finds it, or a
\* later one, in the database, for as long as the analysis is not deleted.
SeenIsStored == ~deleted => \A i \in 1..Len(seen) : seen[i] <= visible

\* The poller has not shown what the database shows.
Behind ==
  mode = "database" /\ visible # 0 /\ (Len(seen) = first \/ log[Newest] # log[visible])

\* Polling catches up: although the Redis half of the stream may be cut off at
\* any point and polls can fail, a poller that is behind the database shows the
\* event or ends (_stream_from_database under the hash of stream_progress).
PollCatchesUp == Behind ~> ~Behind

\* The client of stream_analysis's description fetches the results when a stream
\* ends with reason "completed": the analysis is over by then.
CompletedMeansOver == reason = "completed" => over

=============================================================================
