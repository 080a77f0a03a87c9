-------------------------- MODULE AdmissionProofs --------------------------
(***************************************************************************)
(* Proofs about Admission, for any number of requests, any windows and     *)
(* limits, and any bound on the delay of a script.                         *)
(***************************************************************************)
EXTENDS Admission, FiniteSetTheorems, TLAPS

\* A request that waits for its script read its clock at most MaxDelay ago.
StampsFresh ==
  \A r \in Requests : pc[r] = "stamped" => stamp[r] <= clock /\ clock <= stamp[r] + MaxDelay

\* A request is an admission only once its script has run, with a fresh stamp.
CountedLate ==
  \A r \in Requests : counts[r] # {} =>
    pc[r] \notin {"new", "counted", "stamped"} /\ at[r] <= stamp[r] + MaxDelay

\* No recent admission has been pruned.
KeyHolds == \A k \in Kinds : \A r \in Recent(k) : stamp[r] \in key[k]

KeyBounded == \A k \in Kinds : IsFiniteSet(key[k]) /\ Cardinality(key[k]) <= Limit[k]

\* Every member of a set belongs to an admission since the last reset.
KeyOwned ==
  \A k \in Kinds : \A s \in key[k] : \E r \in Requests : k \in counts[r] /\ stamp[r] = s

IInv == TypeOK /\ StampsFresh /\ CountedLate /\ KeyHolds /\ KeyBounded /\ KeyOwned

-----------------------------------------------------------------------------

\* Pruning keeps the bound.
LEMMA PruneBounded ==
  ASSUME KeyBounded, NEW k \in Kinds, NEW now
  PROVE  /\ Prune(k, now) \subseteq key[k]
         /\ IsFiniteSet(Prune(k, now))
         /\ Cardinality(Prune(k, now)) \in Nat
         /\ Cardinality(Prune(k, now)) <= Limit[k]
<1>1. Prune(k, now) \subseteq key[k]
  BY DEF Prune
<1>2. IsFiniteSet(key[k]) /\ Cardinality(key[k]) <= Limit[k]
  BY DEF KeyBounded
<1>3. IsFiniteSet(Prune(k, now)) /\ Cardinality(Prune(k, now)) <= Cardinality(key[k])
  BY <1>1, <1>2, FS_Subset
<1>4. Cardinality(Prune(k, now)) \in Nat /\ Cardinality(key[k]) \in Nat
  BY <1>2, <1>3, FS_CardinalityType
<1>5. Limit[k] \in Nat
  BY WindowAssumption
<1> QED
  BY <1>1, <1>2, <1>3, <1>4, <1>5

\* The script enters a stamp only where there is room.
LEMMA EnterBounded ==
  ASSUME KeyBounded, NEW k \in Kinds, NEW now, Allowed(k, now)
  PROVE  /\ IsFiniteSet(Prune(k, now) \cup {now})
         /\ Cardinality(Prune(k, now) \cup {now}) <= Limit[k]
<1>1. IsFiniteSet(Prune(k, now)) /\ Cardinality(Prune(k, now)) \in Nat
  BY PruneBounded
<1>2. /\ IsFiniteSet(Prune(k, now) \cup {now})
      /\ \/ Cardinality(Prune(k, now) \cup {now}) = Cardinality(Prune(k, now))
         \/ Cardinality(Prune(k, now) \cup {now}) = Cardinality(Prune(k, now)) + 1
  BY <1>1, FS_AddElement
<1>3. Cardinality(Prune(k, now)) < Limit[k] /\ Limit[k] \in Nat
  BY WindowAssumption DEF Allowed
<1> QED
  BY <1>1, <1>2, <1>3

\* A reader whose clock is not ahead prunes no recent admission.
LEMMA PruneKeepsRecent ==
  ASSUME TypeOK, CountedLate, KeyHolds,
         NEW k \in Kinds, NEW now \in Int, now <= clock, NEW r \in Recent(k)
  PROVE  stamp[r] \in Prune(k, now)
<1>1. /\ r \in Requests /\ k \in counts[r]
      /\ at[r] + Window[k] > clock + MaxDelay
  BY DEF Recent
<1>2. at[r] <= stamp[r] + MaxDelay
  BY <1>1 DEF CountedLate
<1>3. stamp[r] + Window[k] > now
  <2>1. at[r] \in Nat /\ stamp[r] \in Nat /\ clock \in Nat
    BY <1>1 DEF TypeOK
  <2>2. Window[k] \in Nat /\ MaxDelay \in Nat
    BY WindowAssumption, ClockAssumption
  <2> QED
    BY <1>1, <1>2, <2>1, <2>2
<1>4. stamp[r] \in key[k]
  BY DEF KeyHolds
<1> QED
  BY <1>3, <1>4 DEF Prune

LEMMA InitInv == Init => IInv
<1> SUFFICES ASSUME Init PROVE IInv
  OBVIOUS
<1>1. TypeOK
  BY DEF Init, TypeOK, Places
<1>2. StampsFresh /\ CountedLate /\ KeyHolds /\ KeyOwned
  BY DEF Init, StampsFresh, CountedLate, KeyHolds, KeyOwned, Recent
<1>3. KeyBounded
  <2> SUFFICES ASSUME NEW k \in Kinds
               PROVE  IsFiniteSet(key[k]) /\ Cardinality(key[k]) <= Limit[k]
    BY DEF KeyBounded
  <2>1. key[k] = {}
    BY DEF Init
  <2>2. Limit[k] \in Nat
    BY WindowAssumption
  <2> QED
    BY <2>1, <2>2, FS_EmptySet
<1> QED
  BY <1>1, <1>2, <1>3 DEF IInv

\* A step of a request that leaves the windows and its stamp alone.
LEMMA LifecycleStep ==
  ASSUME IInv, NEW r \in Requests, NEW p \in Places,
         pc' = [pc EXCEPT ![r] = p], p # "stamped",
         p \in {"new", "counted"} => pc[r] = "new",
         UNCHANGED <<clock, stamp, at, counts, key>>
  PROVE  IInv'
<1>1. TypeOK'
  BY DEF IInv, TypeOK
<1>2. StampsFresh'
  BY DEF IInv, TypeOK, StampsFresh
<1>3. CountedLate'
  BY DEF IInv, TypeOK, CountedLate
<1>4. KeyHolds'
  BY DEF IInv, KeyHolds, Recent
<1>5. KeyBounded'
  BY DEF IInv, KeyBounded
<1>6. KeyOwned'
  BY DEF IInv, KeyOwned
<1> QED
  BY <1>1, <1>2, <1>3, <1>4, <1>5, <1>6 DEF IInv

LEMMA ReadClockStep ==
  ASSUME IInv, NEW r \in Requests, ReadClock(r)
  PROVE  IInv'
<1>1. TypeOK'
  BY DEF IInv, TypeOK, ReadClock, Places
<1>2. StampsFresh'
  BY ClockAssumption DEF IInv, TypeOK, StampsFresh, ReadClock
<1>3. counts[r] = {}
  BY DEF IInv, CountedLate, ReadClock
<1>4. CountedLate'
  BY <1>3 DEF IInv, TypeOK, CountedLate, ReadClock
<1>5. KeyHolds'
  BY <1>3 DEF IInv, TypeOK, KeyHolds, Recent, ReadClock
<1>6. KeyBounded'
  BY DEF IInv, KeyBounded, ReadClock
<1>7. KeyOwned'
  BY <1>3 DEF IInv, TypeOK, KeyOwned, ReadClock
<1> QED
  BY <1>1, <1>2, <1>4, <1>5, <1>6, <1>7 DEF IInv

\* The script, whatever answer reaches the request.
LEMMA ScriptStep ==
  ASSUME IInv, NEW r \in Requests, pc[r] = "stamped", Script(r),
         NEW p \in {"admitted", "refused"}, pc' = [pc EXCEPT ![r] = p],
         UNCHANGED <<clock, stamp>>
  PROVE  IInv'
<1> DEFINE ok == \A k \in Kinds : Allowed(k, stamp[r])
<1> USE DEF IInv
<1>1. /\ stamp[r] \in Nat /\ clock \in Nat /\ MaxDelay \in Nat
      /\ stamp[r] <= clock /\ clock <= stamp[r] + MaxDelay
  BY ClockAssumption DEF TypeOK, StampsFresh
<1>2. \A k \in Kinds : key'[k] \subseteq Prune(k, stamp[r]) \cup {stamp[r]}
                         /\ Prune(k, stamp[r]) \subseteq key'[k]
                         /\ Prune(k, stamp[r]) \subseteq key[k]
  BY DEF Script, Prune
<1>3. counts[r] = {}
  BY DEF CountedLate
<1>4. TypeOK'
  BY <1>1 DEF TypeOK, Script, Prune, Places
<1>5. StampsFresh'
  BY DEF TypeOK, StampsFresh
<1>6. CountedLate'
  BY <1>1, <1>3 DEF TypeOK, CountedLate, Script
<1>7. KeyHolds'
  <2> SUFFICES ASSUME NEW k \in Kinds, NEW q \in Recent(k)'
               PROVE  stamp[q] \in key'[k]
    BY DEF KeyHolds
  <2>1. CASE q = r
    <3>1. ok
      BY <1>3, <2>1 DEF Recent, Script, TypeOK
    <3> QED
      BY <2>1, <3>1 DEF Script
  <2>2. CASE q # r
    <3>1. q \in Recent(k)
      BY <2>2 DEF Recent, Script, TypeOK
    <3>2. stamp[q] \in Prune(k, stamp[r])
      BY <1>1, <3>1, PruneKeepsRecent
    <3> QED
      BY <1>2, <3>2
  <2> QED
    BY <2>1, <2>2
<1>8. KeyBounded'
  <2> SUFFICES ASSUME NEW k \in Kinds
               PROVE  IsFiniteSet(key'[k]) /\ Cardinality(key'[k]) <= Limit[k]
    BY DEF KeyBounded
  <2>1. CASE ok
    <3>1. key'[k] = Prune(k, stamp[r]) \cup {stamp[r]}
      BY <2>1 DEF Script
    <3> QED
      BY <2>1, <3>1, EnterBounded
  <2>2. CASE ~ok
    <3>1. key'[k] = Prune(k, stamp[r])
      BY <2>2 DEF Script
    <3> QED
      BY <3>1, PruneBounded
  <2> QED
    BY <2>1, <2>2
<1>9. KeyOwned'
  <2> SUFFICES ASSUME NEW k \in Kinds, NEW s \in key'[k]
               PROVE  \E q \in Requests : k \in counts'[q] /\ stamp[q] = s
    BY DEF KeyOwned
  <2>1. CASE s \in key[k]
    <3>1. PICK q \in Requests : k \in counts[q] /\ stamp[q] = s
      BY <2>1 DEF KeyOwned
    <3>2. counts'[q] = counts[q]
      BY <1>3, <3>1 DEF Script, TypeOK
    <3> QED
      BY <3>1, <3>2
  <2>2. CASE s \notin key[k]
    <3>1. ok /\ s = stamp[r]
      BY <1>2, <2>2 DEF Script, Prune
    <3>2. counts'[r] = Kinds
      BY <3>1 DEF Script, TypeOK
    <3> QED
      BY <3>1, <3>2
  <2> QED
    BY <2>1, <2>2
<1> QED
  BY <1>4, <1>5, <1>6, <1>7, <1>8, <1>9

LEMMA GetRemainingStep ==
  ASSUME IInv, NEW k \in Kinds, GetRemaining(k)
  PROVE  IInv'
<1> USE DEF IInv
<1>1. PICK now \in (clock - MaxDelay)..clock : key' = [key EXCEPT ![k] = Prune(k, now)]
  BY DEF GetRemaining
<1>2. UNCHANGED <<clock, pc, stamp, at, counts>>
  BY DEF GetRemaining
<1>3. now \in Int /\ now <= clock
  BY <1>1, ClockAssumption DEF TypeOK
<1>4. /\ key'[k] = Prune(k, now) /\ key'[k] \subseteq key[k]
      /\ \A j \in Kinds \ {k} : key'[j] = key[j]
  BY <1>1 DEF TypeOK, Prune
<1>5. TypeOK' /\ StampsFresh' /\ CountedLate'
  BY <1>1, <1>2, <1>4 DEF TypeOK, StampsFresh, CountedLate
<1>6. KeyHolds'
  <2> SUFFICES ASSUME NEW j \in Kinds, NEW r \in Recent(j)'
               PROVE  stamp[r] \in key'[j]
    BY <1>2 DEF KeyHolds
  <2>1. r \in Recent(j)
    BY <1>2 DEF Recent
  <2>2. CASE j = k
    BY <1>3, <1>4, <2>1, <2>2, PruneKeepsRecent
  <2>3. CASE j # k
    BY <1>4, <2>1, <2>3 DEF KeyHolds
  <2> QED
    BY <2>2, <2>3
<1>7. KeyBounded'
  <2> SUFFICES ASSUME NEW j \in Kinds
               PROVE  IsFiniteSet(key'[j]) /\ Cardinality(key'[j]) <= Limit[j]
    BY DEF KeyBounded
  <2>1. CASE j = k
    BY <1>4, <2>1, PruneBounded
  <2>2. CASE j # k
    BY <1>4, <2>2 DEF KeyBounded
  <2> QED
    BY <2>1, <2>2
<1>8. KeyOwned'
  BY <1>2, <1>4 DEF KeyOwned
<1> QED
  BY <1>5, <1>6, <1>7, <1>8

LEMMA ResetCounterStep ==
  ASSUME IInv, NEW k \in Kinds, ResetCounter(k)
  PROVE  IInv'
<1> USE DEF IInv
<1>1. /\ key'[k] = {} /\ \A j \in Kinds \ {k} : key'[j] = key[j]
      /\ \A r \in Requests : counts'[r] = counts[r] \ {k}
      /\ UNCHANGED <<clock, pc, stamp, at>>
  BY DEF ResetCounter, TypeOK
<1>2. TypeOK' /\ StampsFresh' /\ CountedLate'
  BY <1>1 DEF ResetCounter, TypeOK, StampsFresh, CountedLate
<1>3. KeyHolds'
  BY <1>1 DEF KeyHolds, Recent
<1>4. KeyBounded'
  <2> SUFFICES ASSUME NEW j \in Kinds
               PROVE  IsFiniteSet(key'[j]) /\ Cardinality(key'[j]) <= Limit[j]
    BY DEF KeyBounded
  <2>1. Limit[j] \in Nat
    BY WindowAssumption
  <2>2. IsFiniteSet({}) /\ Cardinality({}) = 0
    BY FS_EmptySet
  <2>3. CASE j = k
    BY <1>1, <2>1, <2>2, <2>3
  <2>4. CASE j # k
    BY <1>1, <2>4 DEF KeyBounded
  <2> QED
    BY <2>3, <2>4
<1>5. KeyOwned'
  BY <1>1 DEF KeyOwned
<1> QED
  BY <1>2, <1>3, <1>4, <1>5

LEMMA TickStep ==
  ASSUME IInv, Tick
  PROVE  IInv'
<1> USE DEF IInv
<1>1. clock \in Nat /\ clock' = clock + 1 /\ UNCHANGED <<pc, stamp, at, counts, key>>
  BY DEF Tick, TypeOK
<1>2. TypeOK' /\ CountedLate' /\ KeyBounded' /\ KeyOwned'
  BY <1>1 DEF TypeOK, CountedLate, KeyBounded, KeyOwned
<1>3. StampsFresh'
  BY <1>1, ClockAssumption DEF StampsFresh, Tick, TypeOK
<1>4. \A k \in Kinds : Recent(k)' \subseteq Recent(k)
  BY <1>1, WindowAssumption, ClockAssumption DEF Recent, TypeOK
<1>5. KeyHolds'
  BY <1>1, <1>4 DEF KeyHolds
<1> QED
  BY <1>2, <1>3, <1>5

LEMMA RequestStep ==
  ASSUME IInv, NEW r \in Requests, Request(r)
  PROVE  IInv'
<1>1. CASE CountRunning(r)
  <2>1. PICK p \in {"refused", "counted"} : pc' = [pc EXCEPT ![r] = p]
    BY <1>1 DEF CountRunning
  <2> QED
    BY <1>1, <2>1, LifecycleStep DEF CountRunning, Places
<1>2. CASE ReadClock(r)
  BY <1>2, ReadClockStep
<1>3. CASE Reserve(r)
  <2>1. PICK p \in {"admitted", "refused"} : pc' = [pc EXCEPT ![r] = p]
    BY <1>3 DEF Reserve
  <2> QED
    BY <1>3, <2>1, ScriptStep DEF Reserve
<1>4. CASE ReserveFails(r)
  <2>1. CASE Script(r)
    BY <1>4, <2>1, ScriptStep DEF ReserveFails
  <2>2. CASE UNCHANGED <<key, counts, at>>
    BY <1>4, <2>2, LifecycleStep DEF ReserveFails, Places
  <2> QED
    BY <1>4, <2>1, <2>2 DEF ReserveFails
<1>5. CASE Create(r)
  BY <1>5, LifecycleStep DEF Create, Places
<1>6. CASE CreateFails(r)
  BY <1>6, LifecycleStep DEF CreateFails, Places
<1>7. CASE Start(r)
  BY <1>7, LifecycleStep DEF Start, Places
<1>8. CASE Finish(r)
  BY <1>8, LifecycleStep DEF Finish, Places
<1> QED
  BY <1>1, <1>2, <1>3, <1>4, <1>5, <1>6, <1>7, <1>8 DEF Request

LEMMA NextInv == IInv /\ [Next]_vars => IInv'
<1> SUFFICES ASSUME IInv, [Next]_vars PROVE IInv'
  OBVIOUS
<1>1. ASSUME NEW r \in Requests, Request(r) PROVE IInv'
  BY <1>1, RequestStep
<1>2. ASSUME NEW k \in Kinds, GetRemaining(k) PROVE IInv'
  BY <1>2, GetRemainingStep
<1>3. ASSUME NEW k \in Kinds, ResetCounter(k) PROVE IInv'
  BY <1>3, ResetCounterStep
<1>4. CASE Tick
  BY <1>4, TickStep
<1>5. CASE UNCHANGED vars
  BY <1>5 DEF vars, IInv, TypeOK, StampsFresh, CountedLate, KeyHolds, Recent,
              KeyBounded, KeyOwned
<1> QED
  BY <1>1, <1>2, <1>3, <1>4, <1>5 DEF Next

LEMMA Inductive == Spec => []IInv
BY InitInv, NextInv, PTL DEF Spec

\* The variables keep their types; in particular no stamp is negative.
THEOREM AdmissionTypes == Spec => []TypeOK
<1>1. IInv => TypeOK
  BY DEF IInv
<1> QED
  BY <1>1, Inductive, PTL

\* The stamps of the recent admissions are members of the set, which the
\* script keeps within the limit: whatever the order in which the scripts run,
\* neither window admits more than its limit.
THEOREM WindowsHold == Spec => []WindowLimit
<1>1. IInv => WindowLimit
  <2> SUFFICES ASSUME IInv, NEW k \in Kinds
               PROVE  Cardinality({stamp[r] : r \in Recent(k)}) <= Limit[k]
    BY DEF WindowLimit
  <2> DEFINE S == {stamp[r] : r \in Recent(k)}
  <2>1. S \subseteq key[k]
    BY DEF IInv, KeyHolds
  <2>2. IsFiniteSet(key[k]) /\ Cardinality(key[k]) <= Limit[k]
    BY DEF IInv, KeyBounded
  <2>3. /\ Cardinality(S) <= Cardinality(key[k])
        /\ Cardinality(S) \in Nat /\ Cardinality(key[k]) \in Nat
    BY <2>1, <2>2, FS_Subset, FS_CardinalityType
  <2>4. Limit[k] \in Nat
    BY WindowAssumption
  <2> QED
    BY <2>2, <2>3, <2>4
<1> QED
  BY <1>1, Inductive, PTL

\* Members that keep a request out belong to admissions since the last reset,
\* and the script has just pruned those that are a window older.
THEOREM RefusalsJustified == Spec => RefusedOnlyOverLimit
<1>1. ASSUME IInv, Next, NEW r \in Requests, pc[r] = "stamped", pc'[r] = "refused"
      PROVE  Justified(r)
  <2>1. Reserve(r)
    BY <1>1 DEF IInv, TypeOK, Next, Request, CountRunning, ReadClock, Reserve,
                ReserveFails, Create, CreateFails, Start, Finish, GetRemaining,
                ResetCounter, Tick
  <2>2. PICK k \in Kinds : ~Allowed(k, stamp[r])
    BY <1>1, <2>1 DEF Reserve, IInv, TypeOK
  <2> DEFINE Q == {p \in Requests : k \in counts[p] /\ stamp[p] + Window[k] > stamp[r]}
             S == {stamp[q] : q \in Q}
  <2>3. Prune(k, stamp[r]) \subseteq S
    <3> SUFFICES ASSUME NEW s \in Prune(k, stamp[r]) PROVE s \in S
      OBVIOUS
    <3>1. s \in key[k] /\ s + Window[k] > stamp[r]
      BY DEF Prune
    <3>2. PICK q \in Requests : k \in counts[q] /\ stamp[q] = s
      BY <1>1, <3>1 DEF IInv, KeyOwned
    <3> QED
      BY <3>1, <3>2
  <2>4. IsFiniteSet(S)
    <3>1. IsFiniteSet(Q)
      BY RequestsAssumption, FS_Subset
    <3>2. [q \in Q |-> stamp[q]] \in Surjection(Q, S)
      BY DEF Surjection
    <3> HIDE DEF Q, S
    <3> QED
      BY <3>1, <3>2, FS_Surjection
  <2>5. /\ Cardinality(Prune(k, stamp[r])) <= Cardinality(S)
        /\ Cardinality(Prune(k, stamp[r])) \in Nat /\ Cardinality(S) \in Nat
    BY <2>3, <2>4, FS_Subset, FS_CardinalityType
  <2>6. Limit[k] \in Nat /\ ~(Cardinality(Prune(k, stamp[r])) < Limit[k])
    BY <2>2, WindowAssumption DEF Allowed
  <2>7. Cardinality(S) >= Limit[k]
    BY <2>5, <2>6
  <2> QED
    BY <2>7 DEF Justified
<1>2. IInv /\ [Next]_vars =>
        [\A r \in Requests : pc[r] = "stamped" /\ pc'[r] = "refused" => Justified(r)]_vars
  BY <1>1
<1> QED
  BY <1>2, Inductive, PTL DEF Spec, RefusedOnlyOverLimit

=============================================================================
