------------------------ MODULE ProgressStreamProofs ------------------------
(***************************************************************************)
(* Proofs about ProgressStream, for any number of stages, retries and      *)
(* streams.                                                                *)
(***************************************************************************)
EXTENDS ProgressStream, TLAPS

InTransaction == {"flushed", "stored", "published"}

\* A worker with an open transaction has an event, and its analysis exists.
Working ==
  /\ phase \in InTransaction => log # <<>>
  /\ deleted => phase = "done" /\ visible = 0

\* Redis holds something only for a subscription, and a stream starts empty.
Modes ==
  /\ mode \notin {"redis", "last"} => channel = <<>>
  /\ mode = "opened" => Len(seen) = first

\* What Redis holds is stored.
ChannelStored ==
  /\ phase = "stored" => visible = Len(log)
  /\ ~deleted => \A k \in 1..Len(channel) : channel[k] <= visible

\* What Redis holds is in order, and later than what its stream has delivered.
ChannelLater ==
  /\ \A k, l \in 1..Len(channel) : k < l => channel[k] < channel[l]
  /\ \A k \in 1..Len(channel) : \A i \in 1..Len(seen) :
       seen[i] <= channel[k] /\ (i > first => seen[i] < channel[k])

\* An event that is still to be published is later than both.
Unpublished ==
  (mode = "redis" /\ phase \in {"flushed", "stored"}) =>
    /\ \A k \in 1..Len(channel) : channel[k] < Len(log)
    /\ \A i \in 1..Len(seen) : i > first => seen[i] < Len(log)

IInv ==
  /\ TypeOK /\ Working /\ Modes /\ ChannelStored /\ ChannelLater /\ Unpublished
  /\ SeenInOrder /\ SeenIsStored

-----------------------------------------------------------------------------

LEMMA PairTypes ==
  ASSUME NEW r \in RowPair, NEW st \in StageStatus
  PROVE  Adopt(r) \in RowPair /\ Upsert(r, st) \in RowPair /\ Track(r, st) \in RowPair
BY DEF RowPair, Adopt, Upsert, Track

LEMMA Appended ==
  ASSUME NEW S, NEW q \in Seq(S), NEW x \in S
  PROVE  /\ Len(Append(q, x)) = Len(q) + 1
         /\ \A i \in 1..Len(Append(q, x)) :
              \/ i \in 1..Len(q) /\ Append(q, x)[i] = q[i]
              \/ i = Len(q) + 1 /\ Append(q, x)[i] = x
<1>1. Len(Append(q, x)) = Len(q) + 1 /\ Len(q) \in Nat
  OBVIOUS
<1>2. \A i \in 1..Len(q) : Append(q, x)[i] = q[i]
  OBVIOUS
<1>3. Append(q, x)[Len(q) + 1] = x
  OBVIOUS
<1>4. ASSUME NEW i \in 1..Len(Append(q, x))
      PROVE  \/ i \in 1..Len(q) /\ Append(q, x)[i] = q[i]
             \/ i = Len(q) + 1 /\ Append(q, x)[i] = x
  <2>1. i \in 1..Len(q) \/ i = Len(q) + 1
    BY <1>1
  <2> QED
    BY <1>2, <1>3, <2>1
<1> QED
  BY <1>1, <1>4

\* The event in hand is one, of a stage on the route.
LEMMA CurrentType ==
  ASSUME TypeOK, log # <<>>
  PROVE  /\ Current \in Events /\ Position = Current.stage
         /\ Position \in 1..LastStage /\ Current.status \in StageStatus
         /\ Len(log) \in 1..Len(log)
<1>1. log \in Seq(Events) /\ Len(log) \in Nat /\ Len(log) # 0
  BY DEF TypeOK
<1>2. Len(log) \in 1..Len(log)
  BY <1>1
<1>3. Current \in Events
  BY <1>1, <1>2 DEF Current
<1> QED
  BY <1>2, <1>3 DEF Position, Events, Terminal, StageStatus

\* A flush adds an event and invalidates no place in the log.
LEMMA FlushType ==
  ASSUME TypeOK, NEW e \in Events, Flush(e)
  PROVE  /\ log' \in Seq(Events) /\ Len(log') = Len(log) + 1 /\ phase' = "flushed"
         /\ channel \in Seq(1..Len(log')) /\ seen \in Seq(1..Len(log'))
         /\ visible \in 0..Len(log')
<1>1. log' \in Seq(Events) /\ Len(log') = Len(log) + 1 /\ Len(log) \in Nat
  BY DEF TypeOK, Flush
<1>2. 1..Len(log) \subseteq 1..Len(log')
  BY <1>1
<1> QED
  BY <1>1, <1>2 DEF TypeOK, Flush

LEMMA YieldType ==
  ASSUME TypeOK, NEW n \in 1..Len(log),
         UNCHANGED <<seen, mode>> \/ Yield(n)
  PROVE  /\ seen' \in Seq(1..Len(log)) /\ first \in 0..Len(seen')
         /\ mode' \in {"new", "opened", "last", "ended"} \cup Listening
<1>1. CASE UNCHANGED <<seen, mode>>
  BY <1>1 DEF TypeOK
<1>2. CASE Yield(n)
  <2>1. seen' \in Seq(1..Len(log)) /\ Len(seen') = Len(seen) + 1 /\ Len(seen) \in Nat
    BY <1>2 DEF Yield, TypeOK
  <2>2. first \in 0..Len(seen')
    BY <2>1 DEF TypeOK
  <2> QED
    BY <1>2, <2>1, <2>2 DEF Yield, TypeOK
<1> QED
  BY <1>1, <1>2

LEMMA EndType ==
  ASSUME TypeOK, NEW why \in {"completed", "other"}, End(why)
  PROVE  TypeOK'
<1>1. channel' = <<>> /\ mode' = "ended" /\ reason' = why /\ pollErrors' = 0
  BY DEF End
<1>2. UNCHANGED <<log, phase, retries, rows, visible, over, deleted, seen, first, streams>>
  BY DEF End, workerVars
<1>3. channel' \in Seq(1..Len(log))
  BY <1>1
<1> QED
  BY <1>1, <1>2, <1>3 DEF TypeOK

\* The steps of the client read the log and what the database shows.
LEMMA ClientType ==
  ASSUME TypeOK, Client
  PROVE  TypeOK'
<1> USE DEF TypeOK, workerVars, Listening
<1>1. CASE Open
  BY <1>1, StreamsAssumption DEF Open
<1>2. CASE Subscribe
  BY <1>2 DEF Subscribe
<1>3. CASE FallBack
  BY <1>3 DEF FallBack
<1>4. CASE Receive
  <2>1. channel' \in Seq(1..Len(log)) /\ Head(channel) \in 1..Len(log)
    BY <1>4 DEF Receive
  <2>2. UNCHANGED <<seen, mode>> \/ Yield(Head(channel))
    BY <1>4 DEF Receive
  <2> QED
    BY <1>4, <2>1, <2>2, YieldType DEF Receive
<1>5. CASE Poll
  <2>1. CASE visible = 0
    BY <1>5, <2>1 DEF Poll
  <2>2. CASE visible # 0
    <3>1. visible \in 1..Len(log) /\ (UNCHANGED <<seen, mode>> \/ Yield(visible))
      BY <1>5, <2>2 DEF Poll
    <3> QED
      BY <1>5, <3>1, YieldType DEF Poll
  <2> QED
    BY <2>1, <2>2
<1>6. CASE PollFails
  <2>1. CASE pollErrors < 2
    BY <1>6, <2>1 DEF PollFails
  <2> QED
    BY <1>6, <2>1, EndType DEF PollFails
<1>7. CASE Complete \/ Timeout \/ StreamError \/ Disconnect
  BY <1>7, EndType DEF Complete, Timeout, StreamError, Disconnect
<1> QED
  BY <1>1, <1>2, <1>3, <1>4, <1>5, <1>6, <1>7 DEF Client

LEMMA WorkerType ==
  ASSUME TypeOK, Working, Worker
  PROVE  TypeOK'
<1> USE DEF clientVars
<1>1. ASSUME NEW s \in 1..LastStage, Start(s), retries' \in 0..MaxRetries, over' \in BOOLEAN,
             UNCHANGED <<visible, deleted, clientVars>>
      PROVE  TypeOK'
  <2>1. [stage |-> s, status |-> "running"] \in Events
    BY DEF Events
  <2>2. rows' \in [1..LastStage -> RowPair]
    BY <1>1, PairTypes DEF Start, TypeOK, StageStatus
  <2> QED
    BY <1>1, <2>1, <2>2, FlushType DEF Start, TypeOK
<1>2. CASE StartStage
  <2>1. Position + 1 \in 1..LastStage
    BY <1>2, CurrentType, StagesAssumption DEF StartStage, Position
  <2> QED
    BY <1>1, <1>2, <2>1 DEF StartStage, TypeOK
<1>3. CASE StartRaises
  BY <1>3 DEF StartRaises, TypeOK
<1>4. CASE CloseStage
  <2>1. PICK st \in Terminal : Flush([stage |-> Position, status |-> st])
    BY <1>4 DEF CloseStage
  <2>2. [stage |-> Position, status |-> st] \in Events
    BY <1>4, CurrentType DEF CloseStage, IsOpen, Events
  <2> QED
    BY <1>4, <2>1, <2>2, FlushType DEF CloseStage, TypeOK
<1>5. CASE StageStored
  <2>1. log # <<>>
    BY <1>5 DEF StageStored, Working, InTransaction
  <2>2. visible' \in 0..Len(log)
    BY <1>5, <2>1, CurrentType DEF StageStored, Store
  <2>3. Upsert(rows[Position], Current.status) \in RowPair
    BY <2>1, CurrentType, PairTypes DEF TypeOK
  <2>4. rows' \in [1..LastStage -> RowPair]
    BY <1>5, <2>3 DEF StageStored, Store, TypeOK
  <2> QED
    BY <1>5, <2>2, <2>4 DEF StageStored, TypeOK
<1>6. CASE StoreFails \/ RedisFails \/ Crash
  BY <1>6 DEF StoreFails, RedisFails, Crash, TypeOK
<1>7. CASE RedisPublish
  <2>1. Len(log) \in 1..Len(log)
    BY <1>7, CurrentType DEF RedisPublish, Working, InTransaction
  <2>2. channel \in Seq(1..Len(log))
    BY DEF TypeOK
  <2>3. Append(channel, Len(log)) \in Seq(1..Len(log))
    BY <2>1, <2>2
  <2>4. channel' \in Seq(1..Len(log))
    BY <1>7, <2>2, <2>3 DEF RedisPublish
  <2> QED
    BY <1>7, <2>4 DEF RedisPublish, TypeOK
<1>8. CASE Commit
  <2>1. log # <<>>
    BY <1>8 DEF Commit, Working, InTransaction
  <2>2. visible' \in 0..Len(log)
    BY <1>8, <2>1, CurrentType DEF Commit
  <2>3. Track(rows[Position], Current.status) \in RowPair
    BY <2>1, CurrentType, PairTypes DEF TypeOK
  <2>4. rows' \in [1..LastStage -> RowPair]
    BY <1>8, <2>3 DEF Commit, TypeOK
  <2> QED
    BY <1>8, <2>2, <2>4 DEF Commit, TypeOK
<1>9. CASE CommitFails
  <2>1. [Current EXCEPT !.status = "failed"] \in Events
    BY <1>9, CurrentType DEF CommitFails, Working, InTransaction, Events, Terminal
  <2>2. CASE Current.status = "completed"
    BY <1>9, <2>1, <2>2, FlushType DEF CommitFails, TypeOK
  <2>3. CASE Current.status # "completed"
    BY <1>9, <2>3 DEF CommitFails, TypeOK
  <2> QED
    BY <2>2, <2>3
<1>10. CASE Retry
  <2>1. retries' \in 0..MaxRetries
    BY <1>10, StreamsAssumption DEF Retry, TypeOK
  <2>2. 1 \in 1..LastStage
    BY StagesAssumption
  <2> QED
    BY <1>1, <1>10, <2>1, <2>2 DEF Retry
<1>11. CASE Finish
  BY <1>11 DEF Finish, TypeOK
<1>12. CASE DeleteAnalysis
  BY <1>12 DEF DeleteAnalysis, NoRows, RowPair, TypeOK
<1> QED
  BY <1>2, <1>3, <1>4, <1>5, <1>6, <1>7, <1>8, <1>9, <1>10, <1>11, <1>12 DEF Worker

LEMMA TypeInv == TypeOK /\ Working /\ [Next]_vars => TypeOK'
<1> SUFFICES ASSUME TypeOK, Working, [Next]_vars PROVE TypeOK'
  OBVIOUS
<1>1. CASE UNCHANGED vars
  BY <1>1 DEF vars, workerVars, clientVars, TypeOK
<1> QED
  BY <1>1, WorkerType, ClientType DEF Next

-----------------------------------------------------------------------------
(* What the steps have in common, as far as the invariant is concerned. *)

\* A step of the worker that adds an event.
Flushes ==
  /\ ~deleted /\ \E e \in Events : Flush(e)
  /\ UNCHANGED <<visible, deleted, clientVars>>

\* One that shows the client nothing.
Quiet ==
  /\ ~deleted /\ phase' \in {"published", "raised", "done", "lost"}
  /\ phase' = "published" => phase \in InTransaction
  /\ UNCHANGED <<log, visible, deleted, clientVars>>

\* One that shows the latest event in the database.
Shows ==
  /\ ~deleted /\ log # <<>> /\ phase' \in {"stored", "between"}
  /\ phase' = "stored" => phase = "flushed"
  /\ visible' = Len(log)
  /\ UNCHANGED <<log, deleted, clientVars>>

LEMMA WorkerKinds ==
  ASSUME TypeOK, Working, Worker
  PROVE  Flushes \/ Quiet \/ Shows \/ RedisPublish \/ DeleteAnalysis
<1> USE DEF InTransaction, clientVars
<1>1. CASE StartStage
  <2>1. Position + 1 \in 1..LastStage
    BY <1>1, CurrentType, StagesAssumption DEF StartStage, Position
  <2>2. [stage |-> Position + 1, status |-> "running"] \in Events
    BY <2>1 DEF Events
  <2> QED
    BY <1>1, <2>2 DEF StartStage, Start, Flushes, Working
<1>2. CASE Retry
  <2>1. [stage |-> 1, status |-> "running"] \in Events
    BY StagesAssumption DEF Events
  <2> QED
    BY <1>2, <2>1 DEF Retry, Start, Flushes, Working
<1>3. CASE CloseStage
  <2>1. \A st \in Terminal : [stage |-> Position, status |-> st] \in Events
    BY <1>3, CurrentType DEF CloseStage, IsOpen, Events
  <2> QED
    BY <1>3, <2>1 DEF CloseStage, Flushes, Working
<1>4. CASE CommitFails
  <2>1. [Current EXCEPT !.status = "failed"] \in Events
    BY <1>4, CurrentType DEF CommitFails, Working, Events, Terminal
  <2> QED
    BY <1>4, <2>1 DEF CommitFails, Flushes, Quiet, Working
<1>5. CASE StartRaises \/ StoreFails \/ RedisFails \/ Finish \/ Crash
  BY <1>5 DEF StartRaises, StoreFails, RedisFails, Finish, Crash, Quiet, Working
<1>6. CASE StageStored \/ Commit
  BY <1>6 DEF StageStored, Store, Commit, Shows, Working
<1> QED
  BY <1>1, <1>2, <1>3, <1>4, <1>5, <1>6 DEF Worker

\* A step of the client that delivers n.
Delivers(n) ==
  /\ n \in 1..Len(log) /\ ~Repeats(n) /\ Yield(n)
  /\ UNCHANGED <<workerVars, first>>

\* One that cuts the stream off from Redis.
CutsOff ==
  /\ mode' \in {"ended", "database"} /\ channel' = <<>>
  /\ UNCHANGED <<workerVars, seen, first>>

\* One that takes the next event from Redis, and drops or delivers it.
Takes ==
  /\ mode = "redis" /\ channel # <<>> /\ channel' = Tail(channel)
  /\ UNCHANGED <<workerVars, mode, seen, first>> \/ Delivers(Head(channel))

\* One that shows what it has read in the database.
Polls == mode = "database" /\ UNCHANGED channel /\ Delivers(visible)

\* One that changes nothing that matters here.
Idles == UNCHANGED <<workerVars, mode, channel, seen, first>>

LEMMA ClientKinds ==
  ASSUME TypeOK, Client
  PROVE  Open \/ Subscribe \/ CutsOff \/ Takes \/ Polls \/ Idles
<1>1. CASE Receive
  <2>1. Head(channel) \in 1..Len(log)
    BY <1>1 DEF Receive, TypeOK
  <2> QED
    BY <1>1, <2>1 DEF Receive, Takes, Delivers
<1>2. CASE Poll
  <2>1. visible # 0 => visible \in 1..Len(log)
    BY DEF TypeOK
  <2> QED
    BY <1>2, <2>1 DEF Poll, Polls, Delivers, Idles
<1>3. CASE FallBack \/ PollFails \/ Complete \/ Timeout \/ StreamError \/ Disconnect
  BY <1>3 DEF FallBack, PollFails, Complete, Timeout, StreamError, Disconnect, End, CutsOff,
     Idles
<1> QED
  BY <1>1, <1>2, <1>3 DEF Client

-----------------------------------------------------------------------------
(* The parts of the invariant *)

LEMMA WorkingInv ==
  ASSUME TypeOK, Working, [Next]_vars
  PROVE  Working'
<1> USE DEF Working, InTransaction
<1>1. CASE Flushes
  <2>1. Len(log') = Len(log) + 1 /\ Len(log) \in Nat
    BY <1>1, FlushType DEF Flushes, TypeOK
  <2>2. log' # <<>>
    BY <2>1
  <2> QED
    BY <1>1, <2>2 DEF Flushes
<1>2. CASE Quiet
  BY <1>2 DEF Quiet
<1>3. CASE Shows
  BY <1>3 DEF Shows
<1>4. CASE RedisPublish
  BY <1>4 DEF RedisPublish
<1>5. CASE DeleteAnalysis
  BY <1>5 DEF DeleteAnalysis
<1>6. CASE Client \/ UNCHANGED vars
  BY <1>6, ClientKinds DEF Open, Subscribe, CutsOff, Takes, Polls, Delivers, Idles, workerVars,
     vars
<1> QED
  BY <1>1, <1>2, <1>3, <1>4, <1>5, <1>6, WorkerKinds DEF Next

LEMMA ModesInv ==
  ASSUME TypeOK, Working, Modes, [Next]_vars
  PROVE  Modes'
<1> USE DEF Modes
<1>1. CASE Flushes \/ Quiet \/ Shows \/ DeleteAnalysis \/ UNCHANGED vars
  BY <1>1 DEF Flushes, Quiet, Shows, DeleteAnalysis, vars, clientVars
<1>2. CASE RedisPublish
  BY <1>2 DEF RedisPublish
<1>3. CASE Open \/ Subscribe \/ CutsOff \/ Idles
  BY <1>3 DEF Open, Subscribe, CutsOff, Idles
<1>4. CASE Takes \/ Polls
  BY <1>4 DEF Takes, Polls, Delivers, Yield
<1> QED
  BY <1>1, <1>2, <1>3, <1>4, WorkerKinds, ClientKinds DEF Next

\* An event is stored before Redis passes it on, and stays so.
LEMMA ChannelStoredInv ==
  ASSUME TypeOK, Working, Modes, ChannelStored, [Next]_vars
  PROVE  ChannelStored'
<1> USE DEF ChannelStored
<1> DEFINE Typed == /\ channel \in Seq(1..Len(log)) /\ Len(log) \in Nat
                    /\ visible \in 0..Len(log)
<1>0. Typed
  BY DEF TypeOK
<1>1. CASE Flushes \/ Quiet
  BY <1>1 DEF Flushes, Flush, Quiet, clientVars
<1>2. CASE Shows
  <2>1. \A k \in 1..Len(channel) : channel[k] <= Len(log)
    BY <1>0
  <2> QED
    BY <1>2, <2>1 DEF Shows, clientVars
<1>3. CASE RedisPublish
  <2>1. CASE mode = "redis"
    <3>1. channel' = Append(channel, Len(log)) /\ visible' = Len(log)
      BY <1>3, <2>1 DEF RedisPublish
    <3>2. \A k \in 1..Len(channel') : channel'[k] <= Len(log)
      BY <1>0, <3>1
    <3> QED
      BY <1>3, <3>1, <3>2 DEF RedisPublish
  <2> QED
    BY <1>3, <2>1 DEF RedisPublish
<1>4. CASE DeleteAnalysis
  BY <1>4 DEF DeleteAnalysis
<1>5. CASE Open \/ Subscribe \/ CutsOff \/ Polls \/ Idles \/ UNCHANGED vars
  BY <1>5 DEF Open, Subscribe, CutsOff, Polls, Delivers, Idles, vars, workerVars, clientVars
<1>6. CASE Takes
  <2>1. /\ channel' = Tail(channel) /\ channel # <<>>
        /\ UNCHANGED <<log, phase, visible, deleted>>
    BY <1>6 DEF Takes, Delivers, workerVars
  <2>2. \A k \in 1..Len(channel') : k + 1 \in 1..Len(channel) /\ channel'[k] = channel[k + 1]
    BY <1>0, <2>1
  <2> QED
    BY <2>1, <2>2
<1> QED
  BY <1>1, <1>2, <1>3, <1>4, <1>5, <1>6, WorkerKinds, ClientKinds DEF Next

\* What the client has is stored: it came from Redis after it was, or from the
\* database itself.
LEMMA SeenStoredInv ==
  ASSUME TypeOK, Working, ChannelStored, SeenIsStored, [Next]_vars
  PROVE  SeenIsStored'
<1> USE DEF SeenIsStored
<1>0. /\ seen \in Seq(1..Len(log)) /\ channel \in Seq(1..Len(log))
      /\ Len(log) \in Nat /\ visible \in 0..Len(log)
  BY DEF TypeOK
<1>1. CASE Flushes \/ Quiet \/ RedisPublish \/ DeleteAnalysis
  BY <1>1 DEF Flushes, Quiet, RedisPublish, DeleteAnalysis, clientVars
<1>2. CASE Shows
  <2>1. \A i \in 1..Len(seen) : seen[i] <= Len(log)
    BY <1>0
  <2> QED
    BY <1>2, <2>1 DEF Shows, clientVars
<1>3. CASE Open \/ Subscribe \/ CutsOff \/ Idles \/ UNCHANGED vars
  BY <1>3 DEF Open, Subscribe, CutsOff, Idles, vars, workerVars, clientVars
<1>4. ASSUME NEW n \in 1..Len(log), Delivers(n), ~deleted => n <= visible
      PROVE  SeenIsStored'
  <2>1. seen' = Append(seen, n) /\ UNCHANGED <<visible, deleted>>
    BY <1>4 DEF Delivers, Yield, workerVars
  <2>2. \A i \in 1..Len(seen') : (i \in 1..Len(seen) /\ seen'[i] = seen[i]) \/ seen'[i] = n
    BY <1>0, <2>1
  <2> QED
    BY <1>4, <2>1, <2>2
<1>5. CASE Takes
  <2>1. CASE UNCHANGED <<workerVars, mode, seen, first>>
    BY <2>1 DEF workerVars
  <2>2. CASE Delivers(Head(channel))
    <3>1. 1 \in 1..Len(channel) /\ Head(channel) = channel[1]
      BY <1>0, <1>5 DEF Takes
    <3>2. ~deleted => Head(channel) <= visible
      BY <3>1 DEF ChannelStored
    <3> QED
      BY <1>4, <2>2, <3>2 DEF Delivers
  <2> QED
    BY <1>5, <2>1, <2>2 DEF Takes
<1>6. CASE Polls
  BY <1>0, <1>4, <1>6 DEF Polls, Delivers
<1> QED
  BY <1>1, <1>2, <1>3, <1>5, <1>6, WorkerKinds, ClientKinds DEF Next

\* What a stream has delivered, and Redis still has for it, was published.
LEMMA UnpublishedInv ==
  ASSUME TypeOK, Working, Modes, ChannelLater, Unpublished, [Next]_vars
  PROVE  Unpublished'
<1> USE DEF Unpublished
<1>0. /\ seen \in Seq(1..Len(log)) /\ channel \in Seq(1..Len(log)) /\ Len(log) \in Nat
  BY DEF TypeOK
<1>1. CASE Flushes
  <2>1. Len(log') = Len(log) + 1 /\ UNCHANGED clientVars
    BY <1>1, FlushType DEF Flushes
  <2>2. /\ \A k \in 1..Len(channel) : channel[k] < Len(log')
        /\ \A i \in 1..Len(seen) : seen[i] < Len(log')
    BY <1>0, <2>1
  <2> QED
    BY <2>1, <2>2 DEF clientVars
<1>2. CASE Quiet \/ RedisPublish \/ DeleteAnalysis
  BY <1>2 DEF Quiet, RedisPublish, DeleteAnalysis
<1>3. CASE Shows
  BY <1>3 DEF Shows, clientVars
<1>4. CASE Open \/ CutsOff \/ Polls
  BY <1>4 DEF Open, CutsOff, Polls, Delivers, Yield
<1>5. CASE Subscribe
  <2>1. channel' = <<>> /\ Len(seen) = first /\ UNCHANGED <<seen, first>>
    BY <1>5 DEF Subscribe, Modes
  <2>2. /\ \A k \in 1..Len(channel') : FALSE
        /\ \A i \in 1..Len(seen) : ~(i > first)
    BY <1>0, <2>1
  <2> QED
    BY <2>1, <2>2
<1>6. CASE Idles \/ UNCHANGED vars
  BY <1>6 DEF Idles, vars, workerVars, clientVars
<1>7. CASE Takes
  <2>1. /\ channel' = Tail(channel) /\ channel # <<>> /\ mode = "redis"
        /\ UNCHANGED <<log, phase, first>>
    BY <1>7 DEF Takes, Delivers, workerVars
  <2>2. \A k \in 1..Len(channel') : k + 1 \in 1..Len(channel) /\ channel'[k] = channel[k + 1]
    BY <1>0, <2>1
  <2>3. CASE UNCHANGED seen
    BY <2>1, <2>2, <2>3
  <2>4. CASE seen' = Append(seen, Head(channel))
    <3>1. 1 \in 1..Len(channel) /\ Head(channel) = channel[1]
      BY <1>0, <2>1
    <3>2. \A i \in 1..Len(seen') :
            (i \in 1..Len(seen) /\ seen'[i] = seen[i]) \/ seen'[i] = Head(channel)
      BY <1>0, <2>4
    <3> QED
      BY <2>1, <2>2, <3>1, <3>2
  <2> QED
    BY <1>7, <2>3, <2>4 DEF Takes, Delivers, Yield
<1> QED
  BY <1>1, <1>2, <1>3, <1>4, <1>5, <1>6, <1>7, WorkerKinds, ClientKinds DEF Next

LEMMA ChannelLaterInv ==
  ASSUME TypeOK, Working, Modes, ChannelLater, Unpublished, [Next]_vars
  PROVE  ChannelLater'
<1> USE DEF ChannelLater
<1>0. /\ seen \in Seq(1..Len(log)) /\ channel \in Seq(1..Len(log)) /\ Len(log) \in Nat
  BY DEF TypeOK
<1>1. CASE Flushes \/ Quiet \/ Shows \/ DeleteAnalysis \/ Subscribe \/ Idles \/ UNCHANGED vars
  BY <1>1 DEF Flushes, Quiet, Shows, DeleteAnalysis, Subscribe, Idles, vars, clientVars
<1>2. CASE RedisPublish
  <2>1. CASE mode = "redis"
    <3>1. channel' = Append(channel, Len(log)) /\ UNCHANGED <<seen, first>>
      BY <1>2, <2>1 DEF RedisPublish
    <3>2. \A k \in 1..Len(channel') :
            \/ k \in 1..Len(channel) /\ channel'[k] = channel[k]
            \/ k = Len(channel) + 1 /\ channel'[k] = Len(log)
      BY <1>0, <3>1
    <3>3. /\ \A k \in 1..Len(channel) : channel[k] < Len(log)
          /\ \A i \in 1..Len(seen) : i > first => seen[i] < Len(log)
          /\ \A i \in 1..Len(seen) : seen[i] <= Len(log)
      BY <1>0, <1>2, <2>1 DEF RedisPublish, Unpublished
    <3>4. ASSUME NEW k \in 1..Len(channel'), NEW l \in 1..Len(channel'), k < l
          PROVE  channel'[k] < channel'[l]
      <4>1. k \in 1..Len(channel) /\ channel'[k] = channel[k]
        BY <1>0, <3>1, <3>2, <3>4
      <4> QED
        BY <3>2, <3>3, <3>4, <4>1
    <3>5. \A k \in 1..Len(channel') : \A i \in 1..Len(seen) :
            seen[i] <= channel'[k] /\ (i > first => seen[i] < channel'[k])
      BY <3>2, <3>3
    <3> QED
      BY <3>1, <3>4, <3>5
  <2> QED
    BY <1>2, <2>1 DEF RedisPublish
<1>3. CASE Open \/ CutsOff \/ Polls
  <2>1. channel' = <<>>
    BY <1>3 DEF Open, CutsOff, Polls, Modes
  <2> QED
    BY <2>1
<1>4. CASE Takes
  <2>1. channel' = Tail(channel) /\ channel # <<>> /\ UNCHANGED first
    BY <1>4 DEF Takes, Delivers
  <2>2. \A k \in 1..Len(channel') : k + 1 \in 1..Len(channel) /\ channel'[k] = channel[k + 1]
    BY <1>0, <2>1
  <2>3. \A k, l \in 1..Len(channel') : k < l => channel'[k] < channel'[l]
    BY <1>0, <2>2
  <2>4. CASE UNCHANGED seen
    BY <2>1, <2>2, <2>3, <2>4
  <2>5. CASE seen' = Append(seen, Head(channel))
    <3>1. 1 \in 1..Len(channel) /\ Head(channel) = channel[1]
      BY <1>0, <2>1
    <3>2. \A i \in 1..Len(seen') :
            (i \in 1..Len(seen) /\ seen'[i] = seen[i]) \/ seen'[i] = channel[1]
      BY <1>0, <2>5, <3>1, Appended
    <3>3. \A k \in 1..Len(channel') : channel[1] < channel'[k]
      BY <2>2, <3>1
    <3>4. ASSUME NEW k \in 1..Len(channel'), NEW i \in 1..Len(seen')
          PROVE  seen'[i] <= channel'[k] /\ (i > first => seen'[i] < channel'[k])
      <4>1. CASE seen'[i] = channel[1]
        <5>1. channel[1] < channel'[k] /\ channel'[k] = channel[k + 1]
          BY <2>2, <3>3
        <5>2. channel[1] \in Nat /\ channel[k + 1] \in Nat
          BY <1>0, <2>2, <3>1
        <5> QED
          BY <4>1, <5>1, <5>2
      <4>2. CASE i \in 1..Len(seen) /\ seen'[i] = seen[i]
        BY <2>2, <4>2
      <4> QED
        BY <3>2, <4>1, <4>2
    <3> QED
      BY <2>1, <2>3, <3>4
  <2> QED
    BY <1>4, <2>4, <2>5 DEF Takes, Delivers, Yield
<1> QED
  BY <1>1, <1>2, <1>3, <1>4, WorkerKinds, ClientKinds DEF Next

\* What is delivered is later than what the stream has delivered, and no older
\* than what the client has.
LEMMA SeenInOrderInv ==
  ASSUME TypeOK, Working, ChannelLater, SeenInOrder, SeenIsStored, [Next]_vars
  PROVE  SeenInOrder'
<1> USE DEF SeenInOrder
<1>0. /\ seen \in Seq(1..Len(log)) /\ channel \in Seq(1..Len(log)) /\ Len(log) \in Nat
      /\ first \in Nat
  BY DEF TypeOK
<1>1. CASE Flushes \/ Quiet \/ Shows \/ RedisPublish \/ DeleteAnalysis \/ UNCHANGED vars
  BY <1>1 DEF Flushes, Quiet, Shows, RedisPublish, DeleteAnalysis, vars, clientVars
<1>2. CASE Open
  <2>1. UNCHANGED seen /\ first' = Len(seen)
    BY <1>2 DEF Open
  <2>2. Len(seen) \in Nat /\ \A i \in 1..Len(seen) : ~(i > Len(seen))
    BY <1>0
  <2> QED
    BY <2>1, <2>2
<1>3. CASE Subscribe \/ CutsOff \/ Idles
  BY <1>3 DEF Subscribe, CutsOff, Idles
<1>4. ASSUME NEW n \in 1..Len(log), Delivers(n),
             \A i \in 1..Len(seen) : seen[i] <= n /\ (i > first => seen[i] < n)
      PROVE  SeenInOrder'
  <2>1. seen' = Append(seen, n) /\ UNCHANGED first
    BY <1>4 DEF Delivers, Yield
  <2>2. \A i \in 1..Len(seen') :
          \/ i \in 1..Len(seen) /\ seen'[i] = seen[i]
          \/ i = Len(seen) + 1 /\ seen'[i] = n
    BY <1>0, <1>4, <2>1, Appended
  <2> QED
    BY <1>0, <1>4, <2>1, <2>2
<1>5. CASE Takes
  <2>1. CASE UNCHANGED <<seen, first>>
    BY <2>1
  <2>2. CASE Delivers(Head(channel))
    <3>1. 1 \in 1..Len(channel) /\ Head(channel) = channel[1]
      BY <1>0, <1>5 DEF Takes
    <3> QED
      BY <1>4, <2>2, <3>1 DEF Delivers, ChannelLater
  <2> QED
    BY <1>5, <2>1, <2>2 DEF Takes
<1>6. CASE Polls
  <2>1. visible \in 1..Len(log) /\ Delivers(visible)
    BY <1>6 DEF Polls, Delivers
  <2>2. \A i \in 1..Len(seen) : seen[i] <= visible
    BY <2>1 DEF Working, SeenIsStored
  <2>3. ASSUME NEW i \in 1..Len(seen), i > first
        PROVE  seen[i] < visible
    <3>1. Len(seen) \in 1..Len(seen) /\ Len(seen) > first
      BY <1>0, <2>3
    <3>2. Newest # visible
      BY <2>1, <3>1 DEF Delivers, Repeats
    <3>3. Newest < visible
      <4>1. Newest <= visible /\ Newest \in Nat /\ visible \in Nat
        BY <1>0, <2>1, <2>2, <3>1 DEF Newest
      <4> QED
        BY <3>2, <4>1
    <3>4. seen[i] <= Newest
      BY <1>0, <2>3, <3>1 DEF Newest
    <3> QED
      BY <1>0, <2>1, <3>1, <3>3, <3>4 DEF Newest
  <2> QED
    BY <1>4, <2>1, <2>2, <2>3
<1> QED
  BY <1>1, <1>2, <1>3, <1>5, <1>6, WorkerKinds, ClientKinds DEF Next

-----------------------------------------------------------------------------

LEMMA InitInv == Init => IInv
<1> SUFFICES ASSUME Init PROVE IInv
  OBVIOUS
<1>1. /\ log = <<>> /\ phase = "between" /\ channel = <<>> /\ seen = <<>>
      /\ mode = "new" /\ deleted = FALSE
  BY DEF Init
<1>2. TypeOK
  <2>1. log \in Seq(Events) /\ channel \in Seq(1..Len(log)) /\ seen \in Seq(1..Len(log))
    BY <1>1
  <2>2. rows \in [1..LastStage -> RowPair]
    BY DEF Init, NoRows, RowPair
  <2>3. Len(log) = 0 /\ Len(seen) = 0
    BY <1>1
  <2>4. /\ first \in 0..Len(seen) /\ visible \in 0..Len(log) /\ pollErrors \in 0..2
        /\ retries \in 0..MaxRetries /\ streams \in 0..MaxStreams
    BY <2>3, StreamsAssumption DEF Init
  <2>5. reason = "none" /\ over = FALSE
    BY DEF Init
  <2> QED
    BY <1>1, <2>1, <2>2, <2>4, <2>5 DEF TypeOK
<1>3. Working /\ Modes /\ Unpublished
  BY <1>1 DEF Working, InTransaction, Modes, Unpublished
<1>4. ChannelStored /\ ChannelLater /\ SeenInOrder /\ SeenIsStored
  BY <1>1 DEF ChannelStored, ChannelLater, SeenInOrder, SeenIsStored
<1> QED
  BY <1>2, <1>3, <1>4 DEF IInv

LEMMA NextInv == IInv /\ [Next]_vars => IInv'
BY TypeInv, WorkingInv, ModesInv, ChannelStoredInv, SeenStoredInv, UnpublishedInv,
   ChannelLaterInv, SeenInOrderInv DEF IInv

LEMMA Inductive == Spec => []IInv
BY InitInv, NextInv, PTL DEF Spec

\* The state of the worker and of the stream keeps its types.
THEOREM StreamTypes == Spec => []TypeOK
<1>1. IInv => TypeOK
  BY DEF IInv
<1> QED
  BY <1>1, Inductive, PTL

\* No client goes back or sees an event twice, whatever Redis loses and whenever
\* its stream changes to the database (stream_progress).
THEOREM DeliveryInOrder == Spec => []SeenInOrder
<1>1. IInv => SeenInOrder
  BY DEF IInv
<1> QED
  BY <1>1, Inductive, PTL

\* What a client has is in the database (publish_progress).
THEOREM DeliveredIsStored == Spec => []SeenIsStored
<1>1. IInv => SeenIsStored
  BY DEF IInv
<1> QED
  BY <1>1, Inductive, PTL

=============================================================================
