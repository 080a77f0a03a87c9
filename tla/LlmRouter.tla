----------------------------- MODULE LlmRouter -----------------------------
(***************************************************************************)
(* The LLM calls of one worker process: llm/router.py with its circuits    *)
(* (services/circuit_breaker.py), its Redis cache (services/llm_cache.py), *)
(* the retry of agents/llm_utils.py around it, and the account of tokens   *)
(* that router and agents keep on the analysis (track_llm_usage).          *)
(*                                                                         *)
(* A worker runs one analysis at a time and its agents call one after the  *)
(* other, so one call is under way at a time; what is concurrent is the    *)
(* background tasks the router leaves behind, each with a session of its   *)
(* own. They share the event loop of the run (asyncio.run) and are         *)
(* cancelled with it. Circuits and cache survive the run. Other processes  *)
(* store in the cache what an earlier run of this one can have stored.     *)
(*                                                                         *)
(* One prompt stands for all: calls with different prompts meet only in    *)
(* the circuits and the usage. Each provider resolves to a model of its    *)
(* own (cost_router or its default), so provider and kind name the entry.  *)
(* Each answer costs one token, as does each estimate the agent adds.      *)
(***************************************************************************)
EXTENDS Naturals, Sequences, FiniteSets, CircuitBreaker

CONSTANTS
  Providers,            \* the configured providers; Threshold is
                        \* LLM_CIRCUIT_BREAKER_THRESHOLD
  Primary,              \* LLM_PRIMARY_PROVIDER
  Fallbacks,            \* LLM_FALLBACK_PROVIDERS
  Attempts,             \* LLM_RETRY_MAX_ATTEMPTS, of both retries
  MaxCalls,             \* bound: calls of one run
  MaxRuns,              \* bound: runs of the worker
  MaxUsage              \* bound: the account, more than MaxCalls can make it

Kinds == {"complete", "structured"}

\* The key of a cached answer: what it answers, and the model that _select_model,
\* _resolve_model and _prepare_kwargs choose for the provider.
Entries == Kinds \X Providers

\* _ordered_providers
Order == <<Primary>> \o SelectSeq(Fallbacks, LAMBDA p : p # Primary)

ASSUME ProvidersAssumption ==
  /\ IsFiniteSet(Providers)
  /\ Order \in Seq(Providers) /\ Len(Order) > 0
  /\ Attempts \in Nat \ {0}
  /\ MaxCalls \in Nat /\ MaxRuns \in Nat /\ MaxUsage \in Nat

\* What a provider's text is once parsed: a JSON object, JSON of another
\* type, or nothing (_parse_structured_response returns None).
Shapes == {"object", "other"}

VARIABLES
  pc,                   \* where the call is
  kind, at, tries, round,   \* of the call: kind, provider, inner and outer attempt
  result,               \* what the call returned or is about to: a shape or "none"
  circuit,              \* _breaker._state, by provider
  cache,                \* Redis: the shape cached by kind and provider, or "none"
  usage,                \* llm_tokens_used of the run's analysis
  queued, held,         \* background increments not begun; how many read each value
  seen,                 \* the value the agent's own increment has read
  calls, runs,          \* how many so far, for the bounds
  committed, overlap,   \* observed: increments of usage, and whether two met
  streak                \* observed: attempts since the circuit was last closed

call == <<pc, kind, at, tries, round, result>>
tokens == <<usage, queued, held, seen, committed, overlap>>
vars == <<call, circuit, cache, tokens, calls, runs, streak>>

\* The values of llm_tokens_used an increment can read.
Values == 0..(MaxUsage - 1)

NoneHeld == [v \in Values |-> 0]

Init ==
  /\ pc = "idle" /\ kind = "complete" /\ at = 1 /\ tries = 0 /\ round = 1
  /\ result = "none"
  /\ circuit = [p \in Providers |-> Closed]
  /\ cache = [e \in Entries |-> "none"]
  /\ usage = 0 /\ queued = 0 /\ held = NoneHeld /\ seen = 0
  /\ calls = 0 /\ runs = 1 /\ committed = 0 /\ overlap = FALSE
  /\ streak = [p \in Providers |-> 0]

Provider == Order[at]

----------------------------------------------------------------------------
(* A call. *)

\* ROUTER.structured_output under call_llm_with_retry, or complete_prompt.
Ask(k) ==
  /\ pc = "idle" /\ calls < MaxCalls
  /\ pc' = "choosing" /\ kind' = k /\ at' = 1 /\ round' = 1 /\ tries' = 0
  /\ result' = "none"
  /\ calls' = calls + 1
  /\ UNCHANGED <<circuit, cache, tokens, runs, streak>>

\* Only structured_output is retried from outside, and only on None: the
\* router raises nothing.
Rounds == IF kind = "structured" THEN Attempts ELSE 1

\* Mutant: one round too many.
NextProviderOneMore ==
  /\ tries' = 0
  /\ \/ at < Len(Order) /\ at' = at + 1 /\ pc' = "choosing" /\ UNCHANGED round
     \/ /\ at = Len(Order) /\ at' = 1
        /\ \/ round <= Rounds /\ round' = round + 1 /\ pc' = "choosing"
           \/ round > Rounds /\ round' = 1 /\ pc' = "idle"

\* continue: the next provider, or the next round, or None for the agent.
NextProvider ==
  /\ tries' = 0
  /\ \/ at < Len(Order) /\ at' = at + 1 /\ pc' = "choosing" /\ UNCHANGED round
     \/ /\ at = Len(Order) /\ at' = 1
        /\ \/ round < Rounds /\ round' = round + 1 /\ pc' = "choosing"
           \/ round = Rounds /\ round' = 1 /\ pc' = "idle"

\* Mutant: an open circuit is waited for.
ChooseWaits ==
  /\ pc = "choosing" /\ IsAvailable(circuit[Provider])
  /\ circuit' = [circuit EXCEPT ![Provider] = Checked(@)]
  /\ streak' = [streak EXCEPT ![Provider] =
                  IF circuit[Provider].until = "past" THEN 0 ELSE @]
  /\ pc' = "looking"
  /\ UNCHANGED <<at, tries, round, kind, result, cache, tokens, calls, runs>>

\* Mutant: an open circuit is not respected.
ChooseAnyway ==
  /\ pc = "choosing"
  /\ circuit' = [circuit EXCEPT ![Provider] = Checked(@)]
  /\ streak' = [streak EXCEPT ![Provider] =
                  IF circuit[Provider].until = "past" THEN 0 ELSE @]
  /\ pc' = "looking" /\ UNCHANGED <<at, tries, round>>
  /\ UNCHANGED <<kind, result, cache, tokens, calls, runs>>

\* is_available: the call of an open circuit's provider is skipped.
Choose ==
  /\ pc = "choosing"
  /\ circuit' = [circuit EXCEPT ![Provider] = Checked(@)]
  /\ streak' = [streak EXCEPT ![Provider] =
                  IF circuit[Provider].until = "past" THEN 0 ELSE @]
  /\ IF IsAvailable(circuit[Provider])
       THEN pc' = "looking" /\ UNCHANGED <<at, tries, round>>
       ELSE NextProvider
  /\ UNCHANGED <<kind, result, cache, tokens, calls, runs>>

\* The cached value a call of kind k takes: complete wants what complete
\* stored, structured_output a dict. It ignores anything else it finds.
Usable(k, value) == IF k = "complete" THEN value # "none" ELSE value = "object"

\* return: a caller of complete has its answer; an agent that got one from
\* structured_output goes on to count its tokens (_llm_suggestions and its
\* like), cached or not.
Return ==
  /\ pc' = IF kind = "structured" THEN "counting" ELSE "idle"
  /\ at' = 1 /\ tries' = 0 /\ round' = 1 /\ result' = "none"

\* _maybe_get_cache: an error of Redis is a miss.
CacheHit ==
  /\ pc = "looking" /\ Usable(kind, cache[kind, Provider])
  /\ Return
  /\ UNCHANGED <<kind, circuit, cache, tokens, calls, runs, streak>>

CacheMiss ==
  /\ pc = "looking" /\ pc' = "calling"
  /\ UNCHANGED <<kind, at, tries, round, result, circuit, cache, tokens, calls,
                 runs, streak>>

\* Mutant: the failure is only counted when the provider is the last one.
AttemptFailsUncounted ==
  /\ pc = "calling"
  /\ streak' = [streak EXCEPT ![Provider] = @ + 1]
  /\ IF tries + 1 < Attempts
       THEN tries' = tries + 1 /\ UNCHANGED <<pc, at, round, circuit>>
       ELSE /\ circuit' = IF at = Len(Order)
                            THEN [circuit EXCEPT ![Provider] = RecordFailure(@)]
                            ELSE circuit
            /\ NextProvider
  /\ UNCHANGED <<kind, result, cache, tokens, calls, runs>>

\* The provider raises: _run_with_retries tries again without a look at the
\* circuit, which hears of the failure once the attempts are used up.
AttemptFails ==
  /\ pc = "calling"
  /\ streak' = [streak EXCEPT ![Provider] = @ + 1]
  /\ IF tries + 1 < Attempts
       THEN tries' = tries + 1 /\ UNCHANGED <<pc, at, round, circuit>>
       ELSE /\ circuit' = [circuit EXCEPT ![Provider] = RecordFailure(@)]
            /\ NextProvider
  /\ UNCHANGED <<kind, result, cache, tokens, calls, runs>>

\* The attempts are over, with an answer.
Succeed ==
  /\ tries' = 0
  /\ circuit' = [circuit EXCEPT ![Provider] = RecordSuccess(@)]
  /\ streak' = [streak EXCEPT ![Provider] = 0]

\* complete: success is recorded before anything looks at the text, and the
\* tokens are counted only after the cache has been written.
AnswerComplete ==
  /\ pc = "calling" /\ kind = "complete"
  /\ Succeed
  /\ pc' = "storing" /\ result' = "other"
  /\ UNCHANGED <<kind, at, round, cache, tokens, calls, runs>>

\* structured_output: the tokens count whatever the text is, and any JSON
\* is a success, a list or a number as well as an object.
AnswerStructured(shape) ==
  /\ pc = "calling" /\ kind = "structured"
  /\ Succeed
  /\ queued' = queued + 1
  /\ pc' = "storing" /\ result' = shape
  /\ UNCHANGED <<kind, at, round, cache, usage, held, seen, committed,
                 overlap, calls, runs>>

\* The text is not JSON, or it is null: a failure, without another attempt.
AnswerUnparsed ==
  /\ pc = "calling" /\ kind = "structured"
  /\ circuit' = [circuit EXCEPT ![Provider] = RecordFailure(@)]
  /\ streak' = [streak EXCEPT ![Provider] = @ + 1]
  /\ queued' = queued + 1
  /\ NextProvider
  /\ UNCHANGED <<kind, result, cache, usage, held, seen, committed, overlap,
                 calls, runs>>

\* _maybe_set_cache; an error of Redis leaves the entry as it was.
Store ==
  /\ pc = "storing"
  /\ \/ cache' = [cache EXCEPT ![<<kind, Provider>>] = result]
     \/ UNCHANGED cache
  /\ queued' = IF kind = "complete" THEN queued + 1 ELSE queued
  /\ Return
  /\ UNCHANGED <<kind, circuit, usage, held, seen, committed, overlap, calls,
                 runs, streak>>

----------------------------------------------------------------------------
(* track_llm_usage: read the row, add, write it back, in a session of its  *)
(* own. PostgreSQL reads without a lock: of two that meet, the later one   *)
(* writes as if the other had not been. The agent waits for its own.       *)

SomeHeld == \E v \in Values : held[v] > 0
UnderWay == SomeHeld \/ pc = "writing"

\* Mutant: the tokens replace those counted before.
WriteBackAlone(v) == usage' = 1

WriteBack(v) == usage' = v + 1

AgentReads ==
  /\ pc = "counting" /\ usage < MaxUsage
  /\ pc' = "writing" /\ seen' = usage
  /\ overlap' = (overlap \/ SomeHeld)
  /\ UNCHANGED <<kind, at, tries, round, result, circuit, cache, usage, queued,
                 held, committed, calls, runs, streak>>

AgentWrites ==
  /\ pc = "writing" /\ pc' = "idle"
  /\ WriteBack(seen) /\ seen' = 0
  /\ committed' = committed + 1
  /\ UNCHANGED <<kind, at, tries, round, result, circuit, cache, queued, held,
                 overlap, calls, runs, streak>>

\* The error is logged and the agent goes on.
AgentTrackFails ==
  /\ pc \in {"counting", "writing"} /\ pc' = "idle" /\ seen' = 0
  /\ UNCHANGED <<kind, at, tries, round, result, circuit, cache, usage, queued,
                 held, committed, overlap, calls, runs, streak>>

TaskReads ==
  /\ queued > 0 /\ usage < MaxUsage
  /\ queued' = queued - 1
  /\ held' = [held EXCEPT ![usage] = @ + 1]
  /\ overlap' = (overlap \/ UnderWay)
  /\ UNCHANGED <<call, circuit, cache, usage, seen, committed, calls, runs,
                 streak>>

TaskWrites(v) ==
  /\ held[v] > 0 /\ held' = [held EXCEPT ![v] = @ - 1]
  /\ WriteBack(v)
  /\ committed' = committed + 1
  /\ UNCHANGED <<call, circuit, cache, queued, seen, overlap, calls, runs,
                 streak>>

\* _log_task_result: a background task that fails is logged.
TaskFails(v) ==
  /\ held[v] > 0 /\ held' = [held EXCEPT ![v] = @ - 1]
  /\ UNCHANGED <<call, circuit, cache, usage, queued, seen, committed, overlap,
                 calls, runs, streak>>

----------------------------------------------------------------------------
(* The worker's runs, the clock and the other processes. *)

\* The run ends, in the middle of a call if a time limit cuts it: asyncio.run
\* cancels what is left of it, and nothing is recorded of the provider that
\* was being called. The next analysis has a row of its own.
EndRun ==
  /\ runs < MaxRuns
  /\ runs' = runs + 1 /\ calls' = 0
  /\ pc' = "idle" /\ tries' = 0 /\ at' = 1 /\ round' = 1 /\ result' = "none"
  /\ streak' = IF pc = "calling"
                 THEN [streak EXCEPT ![Provider] = @ - tries] ELSE streak
  /\ usage' = 0 /\ queued' = 0 /\ held' = NoneHeld /\ seen' = 0
  /\ committed' = 0 /\ overlap' = FALSE
  /\ UNCHANGED <<kind, circuit, cache>>

ExpireCircuit(p) ==
  /\ circuit[p].until = "ahead"
  /\ circuit' = [circuit EXCEPT ![p] = Expire(@)]
  /\ UNCHANGED <<call, cache, tokens, calls, runs, streak>>

\* The TTL, or invalidate_cache.
CacheDropped(k, p) ==
  /\ cache[k, p] # "none"
  /\ cache' = [cache EXCEPT ![<<k, p>>] = "none"]
  /\ UNCHANGED <<call, circuit, tokens, calls, runs, streak>>

CallStep ==
  \/ Choose \/ CacheHit \/ CacheMiss
  \/ AttemptFails \/ AnswerComplete \/ AnswerUnparsed
  \/ \E s \in Shapes : AnswerStructured(s)
  \/ Store \/ AgentReads \/ AgentWrites \/ AgentTrackFails

TaskStep ==
  \/ TaskReads
  \/ \E v \in Values : TaskWrites(v) \/ TaskFails(v)

Next ==
  \/ \E k \in Kinds : Ask(k)
  \/ CallStep \/ TaskStep
  \/ EndRun
  \/ \E p \in Providers : ExpireCircuit(p)
  \/ \E k \in Kinds, p \in Providers :
       CacheDropped(k, p)

\* The event loop runs what is ready, and a provider's client answers or
\* gives up after its own timeout.
Fairness == WF_vars(CallStep) /\ WF_vars(TaskStep)

Spec == Init /\ [][Next]_vars /\ Fairness

----------------------------------------------------------------------------
(* Properties. *)

\* Every variable has its type; a circuit never counts past its threshold.
TypeOK ==
  /\ pc \in {"idle", "choosing", "looking", "calling", "storing", "counting",
             "writing"}
  /\ kind \in Kinds /\ at \in 1..Len(Order)
  /\ tries \in 0..(Attempts - 1) /\ round \in 1..Attempts
  /\ result \in Shapes \cup {"none"}
  /\ circuit \in [Providers -> Circuits]
  /\ cache \in [Entries -> Shapes \cup {"none"}]
  /\ usage \in 0..MaxUsage /\ seen \in 0..MaxUsage
  /\ committed \in Nat /\ queued \in Nat
  /\ held \in [Values -> Nat]
  /\ calls \in 0..MaxCalls /\ runs \in Nat
  /\ overlap \in BOOLEAN /\ streak \in [Providers -> Nat]

\* The two retries nest, and the inner one never looks at the circuit: still
\* a provider is asked at most Threshold times Attempts times between two
\* moments when its circuit is closed anew. Attempts of a call that a time
\* limit cut off are not counted: the circuit never heard of them either.
AttemptsBounded == \A p \in Providers : streak[p] <= Threshold * Attempts

\* An open circuit stays open until its time is over: record_success closes a
\* circuit whatever its state is, so in no round of the nested retries may a
\* provider be asked while its circuit is open (circuit_breaker.py:36).
OpenUntilTimeout ==
  [][\A p \in Providers :
       circuit[p].until = "ahead" => circuit'[p].until # "unset"]_vars

\* track_llm_usage loses increments only when two of them meet: it never
\* counts an increment that was not made, and one that met no other is in
\* the account when the next one begins.
UsageFaithful ==
  /\ usage <= committed
  /\ committed > 0 => usage > 0
  /\ ~overlap => usage = committed

\* However the providers fail, a call comes to an end: the rounds of the
\* outer retry and the attempts of the inner one are finite. So do the
\* background tasks it leaves behind.
CallEnds ==
  /\ (pc # "idle") ~> (pc = "idle")
  /\ (queued > 0 \/ SomeHeld) ~> (queued = 0 /\ ~SomeHeld)
=============================================================================
