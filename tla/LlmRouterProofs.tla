-------------------------- MODULE LlmRouterProofs --------------------------
(***************************************************************************)
(* Proofs about LlmRouter, for any providers, any order of fallbacks, any  *)
(* threshold and number of attempts, any number of calls and of background *)
(* tasks.                                                                  *)
(***************************************************************************)
EXTENDS LlmRouter, TLAPS

\* disabled_until is set exactly when the threshold is reached.
CircuitsSound ==
  \A p \in Providers :
    circuit[p].until = "unset" <=> circuit[p].failures < Threshold

\* A provider is looked up, asked and stored for on a closed circuit: nothing
\* else changes the circuit in between.
AskedWhenClosed ==
  pc \in {"looking", "calling", "storing"} => circuit[Provider].until = "unset"

\* Where the call is in its two retries.
InRetries ==
  /\ pc # "calling" => tries = 0
  /\ round <= Rounds

\* Each failure the circuit knows of stands for at most Attempts attempts.
StreakCounted ==
  /\ \A p \in Providers :
       streak[p] <= circuit[p].failures * Attempts
                    + (IF pc = "calling" /\ p = Provider THEN tries ELSE 0)
  /\ pc = "calling" => tries <= streak[Provider]

\* The account and the increments under way.
AccountSound ==
  /\ usage <= committed
  /\ committed > 0 => usage > 0
  /\ \A v \in Values : held[v] > 0 => v <= committed
  /\ pc = "writing" => seen <= committed /\ seen < MaxUsage

\* Without an overlap one increment at most is under way, and it has read
\* the account as it still is.
AloneSound ==
  ~overlap =>
    /\ usage = committed
    /\ \A v \in Values : held[v] > 0 => v = usage /\ held[v] = 1 /\ pc # "writing"
    /\ pc = "writing" => seen = usage

IInv ==
  /\ TypeOK /\ CircuitsSound /\ AskedWhenClosed /\ InRetries /\ StreakCounted
  /\ AccountSound /\ AloneSound

-----------------------------------------------------------------------------

LEMMA NatFacts ==
  /\ Threshold \in Nat /\ Threshold > 0
  /\ Attempts \in Nat /\ Attempts > 0
  /\ MaxCalls \in Nat /\ MaxRuns \in Nat /\ MaxUsage \in Nat
BY ThresholdAssumption, ProvidersAssumption

\* Every place in the order is a provider.
LEMMA ProviderType ==
  ASSUME TypeOK PROVE Provider \in Providers /\ at \in Nat /\ Len(Order) \in Nat
<1>1. Order \in Seq(Providers)
  BY ProvidersAssumption
<1>2. at \in 1..Len(Order)
  BY DEF TypeOK
<1>3. Len(Order) \in Nat
  BY <1>1
<1> QED
  BY <1>1, <1>2, <1>3 DEF Provider

\* One more failure is worth Attempts more attempts.
LEMMA NextMultiple ==
  ASSUME NEW f \in Nat PROVE (f + 1) * Attempts = f * Attempts + Attempts
BY NatFacts

LEMMA Monotone ==
  ASSUME NEW f \in Nat, f <= Threshold PROVE f * Attempts <= Threshold * Attempts
BY NatFacts

\* The next provider or the next round is within the retries.
LEMMA NextProviderSound ==
  ASSUME TypeOK, InRetries, NextProvider, kind' = kind
  PROVE  /\ tries' = 0 /\ at' \in 1..Len(Order) /\ round' \in 1..Attempts
         /\ pc' \in {"choosing", "idle"} /\ InRetries'
<1>1. Len(Order) \in Nat /\ at \in 1..Len(Order) /\ round \in 1..Attempts
  BY ProviderType DEF TypeOK
<1>2. Rounds \in {1, Attempts} /\ Rounds' = Rounds
  BY DEF Rounds
<1>3. at' \in 1..Len(Order) /\ round' \in 1..Attempts /\ round' <= Rounds
  BY <1>1, <1>2, NatFacts DEF NextProvider, InRetries
<1>4. tries' = 0 /\ pc' \in {"choosing", "idle"}
  BY DEF NextProvider
<1> QED
  BY <1>2, <1>3, <1>4 DEF InRetries

\* The counts of the circuits, told apart by provider.
LEMMA FailureType ==
  ASSUME TypeOK, NEW p \in Providers
  PROVE  /\ circuit[p].failures \in Nat /\ circuit[p].failures <= Threshold
         /\ streak[p] \in Nat
BY NatFacts DEF TypeOK, Circuits

LEMMA InitInv == Init => IInv
<1> SUFFICES ASSUME Init PROVE IInv
  OBVIOUS
<1>1. Order \in Seq(Providers) /\ Len(Order) > 0 /\ Len(Order) \in Nat
  BY ProvidersAssumption
<1>2. Closed \in Circuits
  BY NatFacts DEF Circuits, Closed
<1>3. TypeOK
  <2>1. at \in 1..Len(Order) /\ tries \in 0..(Attempts - 1) /\ round \in 1..Attempts
    BY <1>1, NatFacts DEF Init
  <2>2. usage \in 0..MaxUsage /\ seen \in 0..MaxUsage /\ calls \in 0..MaxCalls
    BY NatFacts DEF Init
  <2>3. held \in [Values -> Nat]
    BY DEF Init, NoneHeld
  <2>4. /\ circuit \in [Providers -> Circuits]
        /\ streak \in [Providers -> Nat]
        /\ cache \in [Entries -> Shapes \cup {"none"}]
    BY <1>2 DEF Init
  <2> QED
    BY <2>1, <2>2, <2>3, <2>4 DEF Init, TypeOK, Kinds, Entries
<1>4. CircuitsSound
  BY NatFacts DEF Init, CircuitsSound, Closed
<1>5. AskedWhenClosed /\ InRetries
  BY NatFacts DEF Init, AskedWhenClosed, InRetries, Rounds
<1>6. StreakCounted
  BY NatFacts DEF Init, StreakCounted, Closed
<1>7. AccountSound /\ AloneSound
  BY DEF Init, AccountSound, AloneSound, NoneHeld
<1> QED
  BY <1>3, <1>4, <1>5, <1>6, <1>7 DEF IInv

\* A step that leaves the account alone and is not at its own increment.
LEMMA AccountKept ==
  ASSUME IInv, UNCHANGED <<usage, held, seen, committed, overlap>>, pc' # "writing"
  PROVE  AccountSound' /\ AloneSound'
BY DEF IInv, AccountSound, AloneSound

\* A step that leaves the circuits, and the attempts, alone.
LEMMA CircuitsKept ==
  ASSUME IInv, UNCHANGED <<circuit, streak>>, tries = 0, tries' = 0,
         pc' = "calling" => at' = at
  PROVE  CircuitsSound' /\ StreakCounted'
<1>1. CircuitsSound'
  BY DEF IInv, CircuitsSound
<1>2. \A p \in Providers : streak[p] <= circuit[p].failures * Attempts + 0
  BY DEF IInv, StreakCounted
<1>3. \A p \in Providers : streak'[p] <= circuit'[p].failures * Attempts
                    + (IF pc' = "calling" /\ p = Provider' THEN tries' ELSE 0)
  BY <1>2
<1>4. pc' = "calling" => tries' <= streak'[Provider']
  <2> HAVE pc' = "calling"
  <2>1. Provider \in Providers
    BY ProviderType DEF IInv
  <2>2. Provider' = Provider
    BY DEF Provider
  <2> QED
    BY <2>1, <2>2 DEF IInv, TypeOK
<1> QED
  BY <1>1, <1>3, <1>4 DEF StreakCounted

\* Where the call is on its way back, the circuits as they were before or
\* closed at the provider asked.
LEMMA CircuitStep ==
  ASSUME IInv, NEW c \in Circuits, NEW n \in Nat,
         circuit' = [circuit EXCEPT ![Provider] = c],
         streak' = [streak EXCEPT ![Provider] = n],
         c.until = "unset" <=> c.failures < Threshold,
         n <= c.failures * Attempts,
         \A p \in Providers : p # Provider \/ pc # "calling" =>
            streak[p] <= circuit[p].failures * Attempts,
         pc' # "calling"
  PROVE  CircuitsSound' /\ StreakCounted'
<1>1. /\ circuit \in [Providers -> Circuits] /\ streak \in [Providers -> Nat]
      /\ Provider \in Providers
  BY ProviderType DEF IInv, TypeOK
<1>2. \A p \in Providers :
        \/ p = Provider /\ circuit'[p] = c /\ streak'[p] = n
        \/ p # Provider /\ circuit'[p] = circuit[p] /\ streak'[p] = streak[p]
  BY <1>1
<1>3. CircuitsSound'
  BY <1>2 DEF IInv, CircuitsSound
<1>4. \A p \in Providers : streak'[p] <= circuit'[p].failures * Attempts
  BY <1>2
<1>5. \A p \in Providers : circuit'[p] \in Circuits
  BY <1>1, <1>2
<1>6. \A p \in Providers : circuit'[p].failures * Attempts + 0 = circuit'[p].failures * Attempts
  BY <1>5, NatFacts DEF Circuits
<1> QED
  BY <1>3, <1>4, <1>6 DEF StreakCounted

\* The attempts of a provider that is not being called.
LEMMA StreakSettled ==
  ASSUME IInv, NEW p \in Providers, pc # "calling" \/ p # Provider
  PROVE  streak[p] <= circuit[p].failures * Attempts
<1>1. streak[p] <= circuit[p].failures * Attempts + 0
  BY DEF IInv, StreakCounted
<1>2. circuit[p].failures * Attempts \in Nat /\ streak[p] \in Nat
  BY FailureType, NatFacts DEF IInv
<1> QED
  BY <1>1, <1>2

\* A closed circuit has no failure, and none of its attempts count.
LEMMA ClosedFacts ==
  /\ Closed \in Circuits /\ Closed.until = "unset" /\ Closed.failures < Threshold
  /\ 0 <= Closed.failures * Attempts
  /\ \A c : RecordSuccess(c) = Closed
BY NatFacts DEF Closed, Circuits, RecordSuccess

\* One failure more, of a closed circuit.
LEMMA FailureFacts ==
  ASSUME NEW c \in Circuits, c.failures < Threshold, c.until = "unset"
  PROVE  /\ RecordFailure(c) \in Circuits
         /\ RecordFailure(c).failures = c.failures + 1
         /\ RecordFailure(c).until = "unset" <=> RecordFailure(c).failures < Threshold
         /\ RecordFailure(c).until # "past"
BY NatFacts DEF Circuits, RecordFailure

\* The attempts of a provider when its failure is recorded.
LEMMA FailureRecorded ==
  ASSUME IInv, pc = "calling", NextProvider, tries + 1 <= Attempts,
         kind' = kind,
         circuit' = [circuit EXCEPT ![Provider] = RecordFailure(@)],
         streak' = [streak EXCEPT ![Provider] = @ + 1]
  PROVE  CircuitsSound' /\ StreakCounted' /\ InRetries' /\ AskedWhenClosed'
         /\ circuit' \in [Providers -> Circuits] /\ streak' \in [Providers -> Nat]
<1> DEFINE c == circuit[Provider]
<1>1. /\ Provider \in Providers /\ c \in Circuits
      /\ circuit \in [Providers -> Circuits] /\ streak \in [Providers -> Nat]
  BY ProviderType DEF IInv, TypeOK
<1>2. c.until = "unset" /\ c.failures < Threshold
  BY <1>1 DEF IInv, AskedWhenClosed, CircuitsSound
<1>3. streak[Provider] <= c.failures * Attempts + tries
  BY <1>1 DEF IInv, StreakCounted
<1>4. c.failures \in Nat /\ streak[Provider] \in Nat /\ tries \in Nat
  BY <1>1, FailureType, NatFacts DEF IInv, TypeOK
<1>5. streak[Provider] + 1 <= (c.failures + 1) * Attempts
  <2>1. (c.failures + 1) * Attempts = c.failures * Attempts + Attempts
    BY <1>4, NextMultiple
  <2>2. c.failures * Attempts \in Nat
    BY <1>4, NatFacts
  <2> QED
    BY <1>3, <1>4, <2>1, <2>2, NatFacts
<1>6. pc' # "calling" /\ pc' \in {"choosing", "idle"} /\ InRetries'
  BY NextProviderSound DEF IInv
<1>7. RecordFailure(c) \in Circuits /\ streak[Provider] + 1 \in Nat
  BY <1>1, <1>2, <1>4, FailureFacts
<1>8. CircuitsSound' /\ StreakCounted'
  <2>1. streak' = [streak EXCEPT ![Provider] = streak[Provider] + 1]
        /\ circuit' = [circuit EXCEPT ![Provider] = RecordFailure(c)]
    OBVIOUS
  <2>2. \A p \in Providers : p # Provider \/ pc # "calling" =>
            streak[p] <= circuit[p].failures * Attempts
    BY StreakSettled
  <2>3. RecordFailure(c).until = "unset" <=> RecordFailure(c).failures < Threshold
    BY <1>1, <1>2, FailureFacts
  <2>4. streak[Provider] + 1 <= RecordFailure(c).failures * Attempts
    BY <1>1, <1>2, <1>5, FailureFacts
  <2> QED
    BY <1>6, <1>7, <2>1, <2>2, <2>3, <2>4, CircuitStep
<1>9. circuit' \in [Providers -> Circuits] /\ streak' \in [Providers -> Nat]
  BY <1>1, <1>7
<1> QED
  BY <1>6, <1>8, <1>9 DEF AskedWhenClosed

\* A success closes the circuit.
LEMMA SuccessRecorded ==
  ASSUME IInv, pc = "calling", Succeed, pc' = "storing",
         UNCHANGED <<kind, at, round>>
  PROVE  CircuitsSound' /\ StreakCounted' /\ InRetries' /\ AskedWhenClosed'
         /\ circuit' \in [Providers -> Circuits] /\ streak' \in [Providers -> Nat]
<1>1. /\ Provider \in Providers
      /\ circuit \in [Providers -> Circuits] /\ streak \in [Providers -> Nat]
  BY ProviderType DEF IInv, TypeOK
<1>2. /\ circuit' = [circuit EXCEPT ![Provider] = Closed]
      /\ streak' = [streak EXCEPT ![Provider] = 0]
      /\ tries' = 0
  BY ClosedFacts DEF Succeed
<1>3. CircuitsSound' /\ StreakCounted'
  <2>1. \A p \in Providers : p # Provider \/ pc # "calling" =>
            streak[p] <= circuit[p].failures * Attempts
    BY StreakSettled
  <2> QED
    BY <1>2, <2>1, ClosedFacts, CircuitStep
<1>4. circuit'[Provider].until = "unset" /\ Provider' = Provider
  BY <1>1, <1>2, ClosedFacts DEF Provider
<1>5. InRetries' /\ AskedWhenClosed'
  BY <1>2, <1>4 DEF IInv, InRetries, AskedWhenClosed, Rounds
<1>6. circuit' \in [Providers -> Circuits] /\ streak' \in [Providers -> Nat]
  BY <1>1, <1>2, ClosedFacts
<1> QED
  BY <1>3, <1>5, <1>6

-----------------------------------------------------------------------------

LEMMA AskStep == ASSUME IInv, NEW k \in Kinds, Ask(k) PROVE IInv'
<1>1. TypeOK'
  BY NatFacts, ProviderType DEF IInv, TypeOK, Ask, Kinds, tokens
<1>2. AskedWhenClosed' /\ InRetries'
  BY NatFacts DEF Ask, AskedWhenClosed, InRetries, Rounds
<1>3. CircuitsSound' /\ StreakCounted'
  BY CircuitsKept DEF Ask, IInv, InRetries
<1>4. AccountSound' /\ AloneSound'
  BY AccountKept DEF Ask, tokens
<1> QED
  BY <1>1, <1>2, <1>3, <1>4 DEF IInv

LEMMA ChooseStep == ASSUME IInv, Choose PROVE IInv'
<1> DEFINE c == circuit[Provider]
<1>1. /\ Provider \in Providers /\ c \in Circuits /\ tries = 0
      /\ circuit \in [Providers -> Circuits] /\ streak \in [Providers -> Nat]
  BY ProviderType DEF IInv, TypeOK, Choose, InRetries
<1>2. AccountSound' /\ AloneSound'
  BY AccountKept DEF Choose, NextProvider, tokens
<1>3. CASE c.until = "past"
  <2>1. /\ circuit' = [circuit EXCEPT ![Provider] = Closed]
        /\ streak' = [streak EXCEPT ![Provider] = 0]
        /\ pc' = "looking" /\ UNCHANGED <<at, tries, round, kind>>
    BY <1>3 DEF Choose, Checked, IsAvailable
  <2>2. CircuitsSound' /\ StreakCounted'
    <3>1. \A p \in Providers : p # Provider \/ pc # "calling" =>
              streak[p] <= circuit[p].failures * Attempts
      BY StreakSettled
    <3> QED
      BY <2>1, <3>1, ClosedFacts, CircuitStep
  <2>3. circuit' \in [Providers -> Circuits] /\ streak' \in [Providers -> Nat]
    BY <1>1, <2>1, ClosedFacts
  <2>4. AskedWhenClosed' /\ InRetries'
    BY <1>1, <2>1, ClosedFacts DEF AskedWhenClosed, InRetries, IInv, Provider, Rounds
  <2>5. TypeOK'
    BY <2>1, <2>3 DEF IInv, TypeOK, Choose, tokens
  <2> QED
    BY <1>2, <2>2, <2>4, <2>5 DEF IInv
<1>4. CASE c.until # "past"
  <2>1. UNCHANGED <<circuit, streak>>
    BY <1>1, <1>4 DEF Choose, Checked
  <2>2. CASE c.until = "unset"
    <3>1. pc' = "looking" /\ UNCHANGED <<at, tries, round, kind>>
      BY <2>2 DEF Choose, IsAvailable
    <3>2. CircuitsSound' /\ StreakCounted'
      BY <1>1, <2>1, <3>1, CircuitsKept
    <3>3. AskedWhenClosed' /\ InRetries'
      BY <1>1, <2>1, <2>2, <3>1 DEF AskedWhenClosed, InRetries, IInv, Provider, Rounds
    <3>4. TypeOK'
      BY <2>1, <3>1 DEF IInv, TypeOK, Choose, tokens
    <3> QED
      BY <1>2, <3>2, <3>3, <3>4 DEF IInv
  <2>3. CASE c.until = "ahead"
    <3>1. NextProvider /\ kind' = kind
      BY <2>3 DEF Choose, IsAvailable
    <3>2. /\ tries' = 0 /\ at' \in 1..Len(Order) /\ round' \in 1..Attempts
          /\ pc' \in {"choosing", "idle"} /\ InRetries'
      BY <3>1, NextProviderSound DEF IInv
    <3>3. CircuitsSound' /\ StreakCounted'
      BY <1>1, <2>1, <3>2, CircuitsKept
    <3>4. AskedWhenClosed'
      BY <3>2 DEF AskedWhenClosed
    <3>5. TypeOK'
      <4>1. tries' \in 0..(Attempts - 1)
        BY <3>2, NatFacts
      <4> QED
        BY <2>1, <3>2, <4>1 DEF IInv, TypeOK, Choose, tokens
    <3> QED
      BY <1>2, <3>2, <3>3, <3>4, <3>5 DEF IInv
  <2> QED
    BY <1>1, <1>4, <2>2, <2>3 DEF Circuits
<1> QED
  BY <1>3, <1>4

\* The call is over, or goes on to count its tokens.
LEMMA ReturnSound ==
  ASSUME IInv, Return, kind' = kind
  PROVE  /\ at' \in 1..Len(Order) /\ tries' \in 0..(Attempts - 1) /\ round' \in 1..Attempts
         /\ pc' \in {"counting", "idle"} /\ result' = "none"
         /\ AskedWhenClosed' /\ InRetries' /\ tries' = 0
<1>1. Len(Order) > 0 /\ Len(Order) \in Nat
  BY ProviderType, ProvidersAssumption DEF IInv
<1> QED
  BY <1>1, NatFacts DEF Return, AskedWhenClosed, InRetries, Rounds

LEMMA CacheHitStep == ASSUME IInv, CacheHit PROVE IInv'
<1>1. /\ at' \in 1..Len(Order) /\ tries' \in 0..(Attempts - 1) /\ round' \in 1..Attempts
      /\ pc' \in {"counting", "idle"} /\ result' = "none"
      /\ AskedWhenClosed' /\ InRetries' /\ tries' = 0
  BY ReturnSound DEF CacheHit
<1>2. TypeOK'
  BY <1>1 DEF IInv, TypeOK, CacheHit, tokens
<1>3. CircuitsSound' /\ StreakCounted'
  BY <1>1, CircuitsKept DEF CacheHit, IInv, InRetries
<1>4. AccountSound' /\ AloneSound'
  BY <1>1, AccountKept DEF CacheHit, tokens
<1> QED
  BY <1>1, <1>2, <1>3, <1>4 DEF IInv

LEMMA CacheMissStep == ASSUME IInv, CacheMiss PROVE IInv'
<1>1. TypeOK'
  BY DEF IInv, TypeOK, CacheMiss, tokens
<1>2. CircuitsSound' /\ StreakCounted'
  BY CircuitsKept DEF CacheMiss, IInv, InRetries
<1>3. AskedWhenClosed' /\ InRetries'
  BY DEF CacheMiss, IInv, AskedWhenClosed, InRetries, Provider, Rounds
<1>4. AccountSound' /\ AloneSound'
  BY AccountKept DEF CacheMiss, tokens
<1> QED
  BY <1>1, <1>2, <1>3, <1>4 DEF IInv

LEMMA AttemptFailsStep == ASSUME IInv, AttemptFails PROVE IInv'
<1>1. AccountSound' /\ AloneSound'
  BY AccountKept DEF AttemptFails, NextProvider, tokens
<1>2. tries \in Nat /\ tries + 1 <= Attempts
  BY NatFacts DEF IInv, TypeOK
<1>3. CASE tries + 1 < Attempts
  <2>1. /\ tries' = tries + 1 /\ UNCHANGED <<pc, at, round, circuit, kind>>
        /\ streak' = [streak EXCEPT ![Provider] = @ + 1] /\ pc = "calling"
    BY <1>3 DEF AttemptFails
  <2>2. Provider \in Providers /\ Provider' = Provider
    BY <2>1, ProviderType DEF IInv, Provider
  <2>3. /\ streak \in [Providers -> Nat] /\ circuit \in [Providers -> Circuits]
        /\ streak' \in [Providers -> Nat]
    BY <2>1, <2>2 DEF IInv, TypeOK
  <2>4. CircuitsSound' /\ AskedWhenClosed' /\ InRetries'
    BY <2>1, <2>2 DEF IInv, CircuitsSound, AskedWhenClosed, InRetries, Rounds
  <2>5. StreakCounted'
    <3>1. \A p \in Providers : p # Provider => streak'[p] = streak[p]
      BY <2>1, <2>3
    <3>2. streak'[Provider] = streak[Provider] + 1
      BY <2>1, <2>2, <2>3
    <3>3. /\ streak[Provider] <= circuit[Provider].failures * Attempts + tries
          /\ tries <= streak[Provider]
      BY <2>1, <2>2 DEF IInv, StreakCounted
    <3>4. streak[Provider] \in Nat /\ circuit[Provider].failures * Attempts \in Nat
      BY <2>2, <2>3, NatFacts DEF Circuits
    <3>5. streak'[Provider] <= circuit[Provider].failures * Attempts + tries'
          /\ tries' <= streak'[Provider]
      BY <1>2, <2>1, <3>2, <3>3, <3>4
    <3>6. \A p \in Providers : p # Provider =>
            streak'[p] <= circuit[p].failures * Attempts + 0
      BY <3>1 DEF IInv, StreakCounted
    <3> QED
      BY <2>1, <2>2, <3>5, <3>6 DEF StreakCounted
  <2>6. TypeOK'
    BY <1>2, <1>3, <2>1, <2>3, NatFacts DEF IInv, TypeOK, AttemptFails, tokens
  <2> QED
    BY <1>1, <2>4, <2>5, <2>6 DEF IInv
<1>4. CASE ~(tries + 1 < Attempts)
  <2>1. /\ pc = "calling" /\ NextProvider /\ kind' = kind
        /\ circuit' = [circuit EXCEPT ![Provider] = RecordFailure(@)]
        /\ streak' = [streak EXCEPT ![Provider] = @ + 1]
    BY <1>4 DEF AttemptFails
  <2>2. /\ CircuitsSound' /\ StreakCounted' /\ InRetries' /\ AskedWhenClosed'
        /\ circuit' \in [Providers -> Circuits] /\ streak' \in [Providers -> Nat]
    BY <1>2, <2>1, FailureRecorded
  <2>3. /\ tries' = 0 /\ at' \in 1..Len(Order) /\ round' \in 1..Attempts
        /\ pc' \in {"choosing", "idle"}
    BY <2>1, NextProviderSound DEF IInv
  <2>4. TypeOK'
    BY <2>2, <2>3, NatFacts DEF IInv, TypeOK, AttemptFails, tokens
  <2> QED
    BY <1>1, <2>2, <2>4 DEF IInv
<1> QED
  BY <1>3, <1>4

LEMMA AnswerCompleteStep == ASSUME IInv, AnswerComplete PROVE IInv'
<1>1. /\ CircuitsSound' /\ StreakCounted' /\ InRetries' /\ AskedWhenClosed'
      /\ circuit' \in [Providers -> Circuits] /\ streak' \in [Providers -> Nat]
  BY SuccessRecorded DEF AnswerComplete
<1>2. TypeOK'
  <2>1. tries' \in 0..(Attempts - 1)
    BY NatFacts DEF AnswerComplete, Succeed
  <2> QED
    BY <1>1, <2>1 DEF IInv, TypeOK, AnswerComplete, tokens, Shapes
<1>3. AccountSound' /\ AloneSound'
  BY AccountKept DEF AnswerComplete, tokens
<1> QED
  BY <1>1, <1>2, <1>3 DEF IInv

LEMMA AnswerStructuredStep ==
  ASSUME IInv, NEW s \in Shapes, AnswerStructured(s) PROVE IInv'
<1>1. /\ CircuitsSound' /\ StreakCounted' /\ InRetries' /\ AskedWhenClosed'
      /\ circuit' \in [Providers -> Circuits] /\ streak' \in [Providers -> Nat]
  BY SuccessRecorded DEF AnswerStructured
<1>2. TypeOK'
  <2>1. tries' \in 0..(Attempts - 1)
    BY NatFacts DEF AnswerStructured, Succeed
  <2> QED
    BY <1>1, <2>1 DEF IInv, TypeOK, AnswerStructured
<1>3. AccountSound' /\ AloneSound'
  BY AccountKept DEF AnswerStructured
<1> QED
  BY <1>1, <1>2, <1>3 DEF IInv

LEMMA AnswerUnparsedStep == ASSUME IInv, AnswerUnparsed PROVE IInv'
<1>1. AccountSound' /\ AloneSound'
  BY AccountKept DEF AnswerUnparsed, NextProvider
<1>2. tries + 1 <= Attempts
  BY NatFacts DEF IInv, TypeOK
<1>3. /\ CircuitsSound' /\ StreakCounted' /\ InRetries' /\ AskedWhenClosed'
      /\ circuit' \in [Providers -> Circuits] /\ streak' \in [Providers -> Nat]
  BY <1>2, FailureRecorded DEF AnswerUnparsed
<1>4. /\ tries' = 0 /\ at' \in 1..Len(Order) /\ round' \in 1..Attempts
      /\ pc' \in {"choosing", "idle"}
  BY NextProviderSound DEF IInv, AnswerUnparsed
<1>5. TypeOK'
  <2>1. tries' \in 0..(Attempts - 1)
    BY <1>4, NatFacts
  <2> QED
    BY <1>3, <1>4, <2>1 DEF IInv, TypeOK, AnswerUnparsed
<1> QED
  BY <1>1, <1>3, <1>5 DEF IInv

LEMMA StoreStep == ASSUME IInv, Store PROVE IInv'
<1>1. /\ at' \in 1..Len(Order) /\ tries' \in 0..(Attempts - 1) /\ round' \in 1..Attempts
      /\ pc' \in {"counting", "idle"} /\ result' = "none"
      /\ AskedWhenClosed' /\ InRetries' /\ tries' = 0
  BY ReturnSound DEF Store
<1>2. cache' \in [Entries -> Shapes \cup {"none"}]
  <2>1. <<kind, Provider>> \in Entries
    BY ProviderType DEF IInv, TypeOK, Entries
  <2> QED
    BY <2>1 DEF IInv, TypeOK, Store
<1>3. TypeOK'
  BY <1>1, <1>2 DEF IInv, TypeOK, Store
<1>4. CircuitsSound' /\ StreakCounted'
  BY <1>1, CircuitsKept DEF Store, IInv, InRetries
<1>5. AccountSound' /\ AloneSound'
  BY <1>1, AccountKept DEF Store
<1> QED
  BY <1>1, <1>3, <1>4, <1>5 DEF IInv

-----------------------------------------------------------------------------

\* A step of the account leaves the circuits and their attempts alone.
LEMMA CountingKept ==
  ASSUME IInv, UNCHANGED <<kind, at, tries, round, circuit, streak>>,
         pc = "calling" <=> pc' = "calling",
         pc \in {"looking", "storing"} <=> pc' \in {"looking", "storing"}
  PROVE  CircuitsSound' /\ AskedWhenClosed' /\ InRetries' /\ StreakCounted'
<1>1. Provider' = Provider
  BY DEF Provider
<1>2. CircuitsSound' /\ AskedWhenClosed'
  BY <1>1 DEF IInv, CircuitsSound, AskedWhenClosed
<1>3. InRetries'
  BY DEF IInv, InRetries, Rounds
<1>4. StreakCounted'
  BY <1>1 DEF IInv, StreakCounted
<1> QED
  BY <1>2, <1>3, <1>4

LEMMA AgentReadsStep == ASSUME IInv, AgentReads PROVE IInv'
<1>1. CircuitsSound' /\ AskedWhenClosed' /\ InRetries' /\ StreakCounted'
  BY CountingKept DEF AgentReads
<1>2. TypeOK'
  BY DEF IInv, TypeOK, AgentReads, SomeHeld
<1>3. AccountSound'
  BY NatFacts DEF IInv, TypeOK, AccountSound, AgentReads
<1>4. AloneSound'
  BY DEF IInv, TypeOK, AloneSound, AgentReads, SomeHeld
<1> QED
  BY <1>1, <1>2, <1>3, <1>4 DEF IInv

LEMMA AgentWritesStep == ASSUME IInv, AgentWrites PROVE IInv'
<1>1. CircuitsSound' /\ AskedWhenClosed' /\ InRetries' /\ StreakCounted'
  BY CountingKept DEF AgentWrites
<1>2. seen <= committed /\ seen < MaxUsage /\ seen \in Nat /\ committed \in Nat
  BY NatFacts DEF IInv, TypeOK, AccountSound, AgentWrites
<1>3. TypeOK'
  BY <1>2, NatFacts DEF IInv, TypeOK, AgentWrites, WriteBack
<1>4. AccountSound'
  BY <1>2, NatFacts DEF IInv, TypeOK, AccountSound, AgentWrites, WriteBack, Values
<1>5. AloneSound'
  BY <1>2 DEF IInv, TypeOK, AloneSound, AgentWrites, WriteBack
<1> QED
  BY <1>1, <1>3, <1>4, <1>5 DEF IInv

LEMMA AgentTrackFailsStep == ASSUME IInv, AgentTrackFails PROVE IInv'
<1>1. CircuitsSound' /\ AskedWhenClosed' /\ InRetries' /\ StreakCounted'
  BY CountingKept DEF AgentTrackFails
<1>2. TypeOK'
  BY NatFacts DEF IInv, TypeOK, AgentTrackFails
<1>3. AccountSound'
  BY DEF IInv, AccountSound, AgentTrackFails
<1>4. AloneSound'
  BY DEF IInv, AloneSound, AgentTrackFails
<1> QED
  BY <1>1, <1>2, <1>3, <1>4 DEF IInv

LEMMA TaskReadsStep == ASSUME IInv, TaskReads PROVE IInv'
<1>1. CircuitsSound' /\ AskedWhenClosed' /\ InRetries' /\ StreakCounted'
  BY CountingKept DEF TaskReads, call
<1>2. usage \in Values /\ held \in [Values -> Nat]
  BY NatFacts DEF IInv, TypeOK, TaskReads, Values
<1>3. TypeOK'
  BY <1>2 DEF IInv, TypeOK, TaskReads, call, UnderWay, SomeHeld
<1>4. AccountSound'
  BY <1>2 DEF IInv, TypeOK, AccountSound, TaskReads, call
<1>5. AloneSound'
  <2> SUFFICES ASSUME ~overlap' PROVE AloneSound'
    BY DEF AloneSound
  <2>1. ~overlap /\ ~SomeHeld /\ pc # "writing" /\ pc' = pc /\ usage' = usage
        /\ committed' = committed
    BY DEF TaskReads, UnderWay, call
  <2>2. \A v \in Values : held[v] = 0
    BY <1>2, <2>1 DEF SomeHeld
  <2>3. \A v \in Values : held'[v] = IF v = usage THEN 1 ELSE 0
    BY <1>2, <2>2 DEF TaskReads
  <2> QED
    BY <2>1, <2>3 DEF IInv, AloneSound
<1> QED
  BY <1>1, <1>3, <1>4, <1>5 DEF IInv

\* A background task is done with the value it read.
LEMMA TaskDone ==
  ASSUME IInv, NEW v \in Values, held[v] > 0, held' = [held EXCEPT ![v] = @ - 1]
  PROVE  /\ held' \in [Values -> Nat] /\ v \in Nat /\ v < MaxUsage /\ v <= committed
         /\ \A w \in Values : held'[w] > 0 => held[w] > 0
         /\ ~overlap => v = usage /\ pc # "writing" /\ \A w \in Values : held'[w] = 0
<1>1. held \in [Values -> Nat] /\ v \in Nat /\ v < MaxUsage
  BY NatFacts DEF IInv, TypeOK, Values
<1>2. v <= committed
  BY DEF IInv, AccountSound
<1>3. held' \in [Values -> Nat] /\ \A w \in Values : held'[w] > 0 => held[w] > 0
  BY <1>1
<1>4. ASSUME ~overlap PROVE v = usage /\ pc # "writing" /\ \A w \in Values : held'[w] = 0
  <2>1. \A w \in Values : held[w] > 0 => w = usage /\ held[w] = 1 /\ pc # "writing"
    BY <1>4 DEF IInv, AloneSound
  <2>2. v = usage /\ held[v] = 1 /\ pc # "writing"
    BY <2>1
  <2>3. \A w \in Values : w # v => held[w] = 0
    BY <1>1, <2>1, <2>2
  <2> QED
    BY <1>1, <2>2, <2>3
<1> QED
  BY <1>1, <1>2, <1>3, <1>4

LEMMA TaskWritesStep == ASSUME IInv, NEW v \in Values, TaskWrites(v) PROVE IInv'
<1>1. CircuitsSound' /\ AskedWhenClosed' /\ InRetries' /\ StreakCounted'
  BY CountingKept DEF TaskWrites, call
<1>2. /\ held' \in [Values -> Nat] /\ v \in Nat /\ v < MaxUsage /\ v <= committed
      /\ \A w \in Values : held'[w] > 0 => held[w] > 0
      /\ ~overlap => v = usage /\ pc # "writing" /\ \A w \in Values : held'[w] = 0
  BY TaskDone DEF TaskWrites
<1>3. TypeOK'
  BY <1>2, NatFacts DEF IInv, TypeOK, TaskWrites, WriteBack, call
<1>4. AccountSound'
  BY <1>2 DEF IInv, TypeOK, AccountSound, TaskWrites, WriteBack, call, Values
<1>5. AloneSound'
  BY <1>2 DEF IInv, TypeOK, AloneSound, TaskWrites, WriteBack, call
<1> QED
  BY <1>1, <1>3, <1>4, <1>5 DEF IInv

LEMMA TaskFailsStep == ASSUME IInv, NEW v \in Values, TaskFails(v) PROVE IInv'
<1>1. CircuitsSound' /\ AskedWhenClosed' /\ InRetries' /\ StreakCounted'
  BY CountingKept DEF TaskFails, call
<1>2. /\ held' \in [Values -> Nat]
      /\ \A w \in Values : held'[w] > 0 => held[w] > 0
      /\ ~overlap => pc # "writing" /\ \A w \in Values : held'[w] = 0
  BY TaskDone DEF TaskFails
<1>3. TypeOK'
  BY <1>2 DEF IInv, TypeOK, TaskFails, call
<1>4. AccountSound'
  BY <1>2 DEF IInv, AccountSound, TaskFails, call
<1>5. AloneSound'
  BY <1>2 DEF IInv, AloneSound, TaskFails, call
<1> QED
  BY <1>1, <1>3, <1>4, <1>5 DEF IInv

-----------------------------------------------------------------------------

\* The run is over: the attempts of a call that was cut off leave no trace in
\* the circuit.
LEMMA EndRunStep == ASSUME IInv, EndRun PROVE IInv'
<1>1. /\ Provider \in Providers
      /\ circuit \in [Providers -> Circuits] /\ streak \in [Providers -> Nat]
      /\ Len(Order) > 0 /\ Len(Order) \in Nat /\ tries \in Nat
  BY ProviderType, ProvidersAssumption, NatFacts DEF IInv, TypeOK
<1>2. \A p \in Providers : streak'[p] <= circuit[p].failures * Attempts /\ streak'[p] \in Nat
  <2> TAKE p \in Providers
  <2>1. circuit[p].failures * Attempts \in Nat /\ streak[p] \in Nat
    BY FailureType, NatFacts DEF IInv
  <2>2. CASE pc = "calling" /\ p = Provider
    <3>1. streak'[p] = streak[p] - tries
      BY <1>1, <2>2 DEF EndRun
    <3>2. streak[p] <= circuit[p].failures * Attempts + tries /\ tries <= streak[p]
      BY <2>2 DEF IInv, StreakCounted
    <3> QED
      BY <1>1, <2>1, <3>1, <3>2
  <2>3. CASE pc # "calling" \/ p # Provider
    <3>1. streak'[p] = streak[p]
      BY <1>1, <2>3 DEF EndRun
    <3> QED
      BY <2>1, <2>3, <3>1, StreakSettled
  <2> QED
    BY <2>2, <2>3
<1>3. streak' \in [Providers -> Nat]
  <2>1. \/ streak' = [streak EXCEPT ![Provider] = @ - tries]
        \/ streak' = streak
    BY DEF EndRun
  <2> QED
    BY <1>1, <1>2, <2>1
<1>4. TypeOK'
  <2>1. /\ pc' = "idle" /\ tries' \in 0..(Attempts - 1) /\ at' \in 1..Len(Order)
        /\ round' \in 1..Attempts /\ result' = "none" /\ calls' \in 0..MaxCalls
        /\ usage' \in 0..MaxUsage /\ seen' \in 0..MaxUsage /\ runs' \in Nat
    BY <1>1, NatFacts DEF EndRun, IInv, TypeOK
  <2>2. held' \in [Values -> Nat]
    BY DEF EndRun, NoneHeld
  <2> QED
    BY <1>3, <2>1, <2>2 DEF EndRun, IInv, TypeOK
<1>5. CircuitsSound' /\ AskedWhenClosed' /\ InRetries'
  BY NatFacts DEF EndRun, IInv, CircuitsSound, AskedWhenClosed, InRetries, Rounds
<1>6. StreakCounted'
  <2>1. \A p \in Providers : circuit[p].failures * Attempts + 0 = circuit[p].failures * Attempts
    BY FailureType, NatFacts DEF IInv
  <2> QED
    BY <1>2, <2>1 DEF EndRun, StreakCounted
<1>7. AccountSound' /\ AloneSound'
  BY DEF EndRun, AccountSound, AloneSound, NoneHeld
<1> QED
  BY <1>4, <1>5, <1>6, <1>7 DEF IInv

LEMMA ExpireCircuitStep ==
  ASSUME IInv, NEW p \in Providers, ExpireCircuit(p) PROVE IInv'
<1>1. /\ circuit \in [Providers -> Circuits]
      /\ circuit' = [circuit EXCEPT ![p] = [@ EXCEPT !.until = "past"]]
      /\ circuit[p] \in Circuits /\ circuit[p].until = "ahead"
  BY DEF IInv, TypeOK, ExpireCircuit, Expire
<1>2. \A q \in Providers :
        /\ circuit'[q].failures = circuit[q].failures
        /\ circuit'[q].until = "unset" <=> circuit[q].until = "unset"
  BY <1>1 DEF Circuits
<1>3. circuit' \in [Providers -> Circuits]
  BY <1>1 DEF Circuits
<1>4. Provider \in Providers /\ Provider' = Provider
  <2>1. Provider \in Providers
    BY ProviderType DEF IInv
  <2> QED
    BY <2>1 DEF Provider, ExpireCircuit, call
<1>5. TypeOK'
  BY <1>3 DEF IInv, TypeOK, ExpireCircuit, call, tokens
<1>6. CircuitsSound' /\ AskedWhenClosed'
  BY <1>2, <1>4 DEF IInv, CircuitsSound, AskedWhenClosed, ExpireCircuit, call
<1>7. InRetries'
  BY DEF IInv, InRetries, Rounds, ExpireCircuit, call
<1>8. StreakCounted'
  BY <1>2, <1>4 DEF IInv, StreakCounted, ExpireCircuit, call
<1>9. AccountSound' /\ AloneSound'
  BY DEF IInv, AccountSound, AloneSound, ExpireCircuit, call, tokens
<1> QED
  BY <1>5, <1>6, <1>7, <1>8, <1>9 DEF IInv

LEMMA CacheDroppedStep ==
  ASSUME IInv, NEW k \in Kinds, NEW p \in Providers, CacheDropped(k, p) PROVE IInv'
<1>1. TypeOK'
  BY DEF IInv, TypeOK, CacheDropped, call, tokens
<1>2. CircuitsSound' /\ AskedWhenClosed' /\ InRetries' /\ StreakCounted'
  BY CountingKept DEF CacheDropped, call
<1>3. AccountSound' /\ AloneSound'
  BY DEF IInv, AccountSound, AloneSound, CacheDropped, call, tokens
<1> QED
  BY <1>1, <1>2, <1>3 DEF IInv

LEMMA StutterStep == ASSUME IInv, UNCHANGED vars PROVE IInv'
<1>1. TypeOK'
  BY DEF IInv, TypeOK, vars, call, tokens
<1>2. CircuitsSound' /\ AskedWhenClosed' /\ InRetries' /\ StreakCounted'
  BY CountingKept DEF vars, call
<1>3. AccountSound' /\ AloneSound'
  BY DEF IInv, AccountSound, AloneSound, vars, call, tokens
<1> QED
  BY <1>1, <1>2, <1>3 DEF IInv

LEMMA NextInv == ASSUME IInv, [Next]_vars PROVE IInv'
BY AskStep, ChooseStep, CacheHitStep, CacheMissStep, AttemptFailsStep,
   AnswerCompleteStep, AnswerStructuredStep, AnswerUnparsedStep, StoreStep,
   AgentReadsStep, AgentWritesStep, AgentTrackFailsStep, TaskReadsStep,
   TaskWritesStep, TaskFailsStep, EndRunStep, ExpireCircuitStep,
   CacheDroppedStep, StutterStep
   DEF Next, CallStep, TaskStep

\* The inductive invariant.
THEOREM Invariant == Spec => []IInv
BY InitInv, NextInv, PTL DEF Spec

\* Every variable of the router keeps its type, and no circuit counts past
\* its threshold.
THEOREM TypeCorrect == Spec => []TypeOK
BY Invariant, PTL DEF IInv

\* A provider is asked at most Threshold * Attempts times between two moments
\* at which its circuit is closed, whatever the order of the fallbacks.
THEOREM RetriesBounded == Spec => []AttemptsBounded
<1>1. ASSUME IInv PROVE AttemptsBounded
  <2> SUFFICES ASSUME NEW p \in Providers PROVE streak[p] <= Threshold * Attempts
    BY DEF AttemptsBounded
  <2> DEFINE f == circuit[p].failures
  <2>1. f \in Nat /\ f <= Threshold /\ streak[p] \in Nat
    BY <1>1, FailureType DEF IInv
  <2>2. CASE pc = "calling" /\ p = Provider
    <3>1. streak[p] <= f * Attempts + tries
      BY <1>1, <2>2 DEF IInv, StreakCounted
    <3>2. f < Threshold
      BY <1>1, <2>2 DEF IInv, AskedWhenClosed, CircuitsSound
    <3>3. (f + 1) * Attempts <= Threshold * Attempts
      <4>1. f + 1 \in Nat /\ f + 1 <= Threshold
        BY <2>1, <3>2, NatFacts
      <4> QED
        BY <4>1, Monotone
    <3>4. (f + 1) * Attempts = f * Attempts + Attempts
      BY <2>1, NextMultiple
    <3>5. tries \in Nat /\ tries < Attempts
      BY <1>1, NatFacts DEF IInv, TypeOK
    <3>6. f * Attempts \in Nat /\ Threshold * Attempts \in Nat
      BY <2>1, NatFacts
    <3> HIDE DEF f
    <3> QED
      BY <2>1, <3>1, <3>3, <3>4, <3>5, <3>6, NatFacts
  <2>3. CASE pc # "calling" \/ p # Provider
    <3>1. streak[p] <= f * Attempts
      BY <1>1, <2>3, StreakSettled
    <3>2. f * Attempts <= Threshold * Attempts
      BY <2>1, Monotone
    <3>3. f * Attempts \in Nat /\ Threshold * Attempts \in Nat
      BY <2>1, NatFacts
    <3> HIDE DEF f
    <3> QED
      BY <2>1, <3>1, <3>2, <3>3
  <2> QED
    BY <2>2, <2>3
<1> QED
  BY <1>1, Invariant, PTL

\* The account never holds more than was added to it, and everything when no
\* two increments have met.
THEOREM AccountFaithful == Spec => []UsageFaithful
<1>1. IInv => UsageFaithful
  BY DEF IInv, AccountSound, AloneSound, UsageFaithful
<1> QED
  BY <1>1, Invariant, PTL

\* What a step does to a circuit that is open.
LEMMA OpenStays ==
  ASSUME IInv, Next, NEW p \in Providers, circuit[p].until = "ahead"
  PROVE  circuit'[p].until # "unset"
<1>1. /\ Provider \in Providers /\ circuit \in [Providers -> Circuits]
      /\ pc \in {"looking", "calling", "storing"} => Provider # p
  BY ProviderType DEF IInv, TypeOK, AskedWhenClosed
<1>2. ASSUME UNCHANGED circuit PROVE circuit'[p].until # "unset"
  BY <1>2
<1>3. CASE Choose
  <2>1. circuit' = [circuit EXCEPT ![Provider] = Checked(circuit[Provider])]
    BY <1>3 DEF Choose
  <2>2. Checked(circuit[p]) = circuit[p]
    BY DEF Checked
  <2> QED
    BY <1>1, <2>1, <2>2
<1>4. CASE AttemptFails
  BY <1>1, <1>4 DEF AttemptFails
<1>5. CASE AnswerComplete \/ \E s \in Shapes : AnswerStructured(s)
  BY <1>1, <1>5 DEF AnswerComplete, AnswerStructured, Succeed
<1>6. CASE AnswerUnparsed
  BY <1>1, <1>6 DEF AnswerUnparsed
<1>7. CASE \E q \in Providers : ExpireCircuit(q)
  BY <1>1, <1>7 DEF ExpireCircuit, Expire, Circuits
<1> QED
  BY <1>2, <1>3, <1>4, <1>5, <1>6, <1>7
     DEF Next, CallStep, TaskStep, Ask, CacheHit, CacheMiss, Store, AgentReads,
         AgentWrites, AgentTrackFails, TaskReads, TaskWrites, TaskFails, EndRun,
         CacheDropped

\* No step closes an open circuit before its time is over.
THEOREM OpenKept == Spec => OpenUntilTimeout
<1>1. ASSUME IInv, [Next]_vars
      PROVE  [\A p \in Providers :
                circuit[p].until = "ahead" => circuit'[p].until # "unset"]_vars
  BY <1>1, OpenStays
<1> QED
  BY <1>1, Invariant, PTL DEF Spec, OpenUntilTimeout
=============================================================================
