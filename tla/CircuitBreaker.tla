--------------------------- MODULE CircuitBreaker ---------------------------
(***************************************************************************)
(* One key of services/circuit_breaker.py, as a value and the functions    *)
(* that change it. The LLM router keeps one circuit per provider, the data *)
(* acquisition agent one for Kaggle; all live in the memory of a worker    *)
(* process and survive the tasks it runs.                                  *)
(*                                                                         *)
(* disabled_until is compared with the clock only: "unset", "ahead" of it  *)
(* or "past".                                                              *)
(***************************************************************************)
EXTENDS Naturals

CONSTANT Threshold      \* failure_threshold

ASSUME ThresholdAssumption == Threshold \in Nat \ {0}

Circuits == [failures : 0..Threshold, until : {"unset", "ahead", "past"}]

\* CircuitState()
Closed == [failures |-> 0, until |-> "unset"]

\* is_available: an expired circuit is replaced by a fresh one on the way.
IsAvailable(c) == c.until # "ahead"

Checked(c) == IF c.until = "past" THEN Closed ELSE c

RecordSuccess(c) == Closed

\* Each failure from the threshold on moves disabled_until.
RecordFailure(c) ==
  [failures |-> c.failures + 1,
   until |-> IF c.failures + 1 >= Threshold THEN "ahead" ELSE c.until]

\* The clock passes disabled_until.
Expire(c) == [c EXCEPT !.until = "past"]
=============================================================================
