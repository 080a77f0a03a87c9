----------------------------- MODULE Admission -----------------------------
(***************************************************************************)
(* How one user's requests for new analyses are admitted: the dependency   *)
(* check_analysis_quota counts the running analyses in PostgreSQL, then    *)
(* reserves a place in two sliding windows that Redis keeps as sorted      *)
(* sets. The reservation is one Lua script, but the request reads its      *)
(* clock before the script runs: by then other requests may have run the   *)
(* script with a later clock. The windows fail open.                       *)
(*                                                                         *)
(* A member of a sorted set is "<now>:<user>:<kind>", so the set of one    *)
(* user and kind is the set of the stamps it holds, and two requests that  *)
(* read the same clock share a member. The clocks of the API hosts are     *)
(* taken to agree, up to the delay between reading one and the script.     *)
(* EXPIRE drops a set when all its members have left the window for a      *)
(* minute; the next script would have removed them in any case.            *)
(***************************************************************************)
EXTENDS Integers, FiniteSets

CONSTANTS
  Requests,             \* the user's requests to POST /analyses
  Window,               \* TIME_WINDOWS, by kind, in ticks of the clock
  Limit,                \* RATE_LIMIT_ANALYSES_PER_HOUR and _PER_DAY
  ConcurrentLimit,      \* RATE_LIMIT_CONCURRENT_ANALYSES
  MaxDelay,             \* how much later than its clock reading a script runs
  MaxClock              \* bound: the last tick

Kinds == {"hourly", "daily"}

ASSUME WindowAssumption == Window \in [Kinds -> Nat] /\ Limit \in [Kinds -> Nat]
ASSUME ClockAssumption == MaxDelay \in Nat /\ MaxClock \in Nat
ASSUME RequestsAssumption == IsFiniteSet(Requests) /\ ConcurrentLimit \in Nat

VARIABLES
  clock,                \* time.time(), the same for every host
  pc,                   \* where each request is, then where its analysis is
  stamp,                \* the clock each request read
  at,                   \* when its script ran
  counts,               \* the kinds in which it is an admission since the last reset
  key                   \* the stamps in the sorted set of each kind

vars == <<clock, pc, stamp, at, counts, key>>

\* "running" stands for the RUNNING row, "pending" for a row whose task no
\* worker has taken, "over" for what is neither: ended, deleted, never created.
Places == {"new", "counted", "stamped", "admitted", "refused",
           "pending", "running", "over"}

Init ==
  /\ clock = 0
  /\ pc = [r \in Requests |-> "new"]
  /\ stamp = [r \in Requests |-> 0] /\ at = [r \in Requests |-> 0]
  /\ counts = [r \in Requests |-> {}]
  /\ key = [k \in Kinds |-> {}]

Running == {r \in Requests : pc[r] = "running"}

\* get_running_analyses_count: analyses that wait for a worker do not count.
CountRunning(r) ==
  /\ pc[r] = "new"
  /\ pc' = [pc EXCEPT ![r] = IF Cardinality(Running) >= ConcurrentLimit
                               THEN "refused" ELSE "counted"]
  /\ UNCHANGED <<clock, stamp, at, counts, key>>

\* Mutant: the request sends the start of its window instead of its clock.
ReadWindowStart(r) ==
  /\ pc[r] = "counted"
  /\ pc' = [pc EXCEPT ![r] = "stamped"]
  /\ stamp' = [stamp EXCEPT ![r] = clock - Window["hourly"]]
  /\ UNCHANGED <<clock, at, counts, key>>

\* atomic_reserve before the script.
ReadClock(r) ==
  /\ pc[r] = "counted"
  /\ pc' = [pc EXCEPT ![r] = "stamped"]
  /\ stamp' = [stamp EXCEPT ![r] = clock]
  /\ UNCHANGED <<clock, at, counts, key>>

\* Mutant: the cutoff itself stays.
PruneBelow(k, now) == {s \in key[k] : s + Window[k] >= now}

\* Mutant: a window that ends a tick early.
PruneEarly(k, now) == {s \in key[k] : s + Window[k] > now + 1}

\* ZREMRANGEBYSCORE key 0 (now - window): the cutoff itself goes too.
Prune(k, now) == {s \in key[k] : s + Window[k] > now}

Allowed(k, now) == Cardinality(Prune(k, now)) < Limit[k]

\* ATOMIC_RESERVE_SCRIPT: both sets are pruned, and the stamp enters both if
\* both limits allow it, else neither.
Script(r) ==
  IF \A k \in Kinds : Allowed(k, stamp[r])
    THEN /\ key' = [k \in Kinds |-> Prune(k, stamp[r]) \cup {stamp[r]}]
         /\ counts' = [counts EXCEPT ![r] = Kinds]
         /\ at' = [at EXCEPT ![r] = clock]
    ELSE /\ key' = [k \in Kinds |-> Prune(k, stamp[r])]
         /\ UNCHANGED <<counts, at>>

Reserve(r) ==
  /\ pc[r] = "stamped"
  /\ Script(r)
  /\ pc' = [pc EXCEPT ![r] = IF \A k \in Kinds : Allowed(k, stamp[r])
                               THEN "admitted" ELSE "refused"]
  /\ UNCHANGED <<clock, stamp>>

\* A Redis error before or after the script: the request is admitted.
ReserveFails(r) ==
  /\ pc[r] = "stamped"
  /\ Script(r) \/ UNCHANGED <<key, counts, at>>
  /\ pc' = [pc EXCEPT ![r] = "admitted"]
  /\ UNCHANGED <<clock, stamp>>

\* create_analysis with the row and the task, or it fails (an invalid body, the
\* SlowAPI limit, the database): the reservation stays.
Create(r) ==
  /\ pc[r] = "admitted"
  /\ pc' = [pc EXCEPT ![r] = "pending"]
  /\ UNCHANGED <<clock, stamp, at, counts, key>>

CreateFails(r) ==
  /\ pc[r] = "admitted"
  /\ pc' = [pc EXCEPT ![r] = "over"]
  /\ UNCHANGED <<clock, stamp, at, counts, key>>

\* A worker takes the task: _run_analysis sets RUNNING and checks no limit.
Start(r) ==
  /\ pc[r] = "pending"
  /\ pc' = [pc EXCEPT ![r] = "running"]
  /\ UNCHANGED <<clock, stamp, at, counts, key>>

\* The analysis ends, or is cancelled and deleted.
Finish(r) ==
  /\ pc[r] \in {"pending", "running"}
  /\ pc' = [pc EXCEPT ![r] = "over"]
  /\ UNCHANGED <<clock, stamp, at, counts, key>>

\* get_remaining, for response headers and usage pages: it prunes one set,
\* with a clock it too has read a while ago.
GetRemaining(k) ==
  /\ \E now \in (clock - MaxDelay)..clock :
       key' = [key EXCEPT ![k] = Prune(k, now)]
  /\ UNCHANGED <<clock, pc, stamp, at, counts>>

\* reset_counter, on an administrator's request; a Redis that loses its data
\* does it to both kinds.
ResetCounter(k) ==
  /\ key' = [key EXCEPT ![k] = {}]
  /\ counts' = [r \in Requests |-> counts[r] \ {k}]
  /\ UNCHANGED <<clock, pc, stamp, at>>

\* A script runs at most MaxDelay after its clock was read.
Tick ==
  /\ clock < MaxClock
  /\ \A r \in Requests : pc[r] = "stamped" => clock < stamp[r] + MaxDelay
  /\ clock' = clock + 1
  /\ UNCHANGED <<pc, stamp, at, counts, key>>

Request(r) == CountRunning(r) \/ ReadClock(r) \/ Reserve(r) \/ ReserveFails(r)
                \/ Create(r) \/ CreateFails(r) \/ Start(r) \/ Finish(r)

Next ==
  \/ \E r \in Requests : Request(r)
  \/ \E k \in Kinds : GetRemaining(k) \/ ResetCounter(k)
  \/ Tick

Spec == Init /\ [][Next]_vars

-----------------------------------------------------------------------------
(* Properties *)

TypeOK ==
  /\ clock \in Nat
  /\ pc \in [Requests -> Places]
  /\ stamp \in [Requests -> Nat] /\ at \in [Requests -> Nat]
  /\ counts \in [Requests -> SUBSET Kinds]
  /\ key \in [Kinds -> SUBSET Nat]

\* Admissions of kind k since its last reset whose scripts ran within the last
\* Window - MaxDelay ticks.
Recent(k) == {r \in Requests : k \in counts[r] /\ at[r] + Window[k] > clock + MaxDelay}

\* In any period as long as the window less the delay of a script, at whatever
\* tick it ends, the scripts admit no more stamps than the limit, although they
\* run in another order than their stamps and every reader prunes the sets
\* (atomic_reserve; the failures that fail open are not admissions of a script).
WindowLimit ==
  \A k \in Kinds : Cardinality({stamp[r] : r \in Recent(k)}) <= Limit[k]

\* Nobody is refused without cause: when the script refuses, one of the windows
\* holds as many admissions as its limit, none of them a window older than the
\* request and none from before a reset.
Justified(r) ==
  \E k \in Kinds :
    Cardinality({stamp[q] : q \in {p \in Requests :
                   k \in counts[p] /\ stamp[p] + Window[k] > stamp[r]}}) >= Limit[k]

RefusedOnlyOverLimit ==
  [][\A r \in Requests : pc[r] = "stamped" /\ pc'[r] = "refused" => Justified(r)]_vars

\* "Maximum concurrent running analyses" (create_analysis), "3 per user": the
\* check at admission keeps the running analyses within their limit.
ConcurrentLimitHolds == Cardinality(Running) <= ConcurrentLimit

=============================================================================
