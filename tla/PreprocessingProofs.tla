------------------------ MODULE PreprocessingProofs ------------------------
(***************************************************************************)
(* Lemmas about what the agents compute from a table, for tables of any    *)
(* size. What recursive functions compute is proved by induction over a    *)
(* set of numbers (Induction), not over a predicate, so that no operator   *)
(* has to be instantiated.                                                 *)
(***************************************************************************)
EXTENDS Preprocessing, WellFoundedInduction, TLAPS

\* A set that has 0, and with each number the next, has every number.
LEMMA Induction ==
  ASSUME NEW T, 0 \in T, \A n \in Nat : n \in T => n + 1 \in T
  PROVE  \A n \in Nat : n \in T
<1> SUFFICES ASSUME Nat \ T # {} PROVE FALSE
  OBVIOUS
<1> DEFINE R == OpToRel(<, Nat)
<1>1. IsWellFoundedOn(R, Nat)
  BY NatLessThanWellFounded
<1>2. \A x, y \in Nat : y < x => <<y, x>> \in R
  BY DEF OpToRel
<1> HIDE DEF R
<1>3. PICK x \in Nat \ T : \A y \in Nat \ T : <<y, x>> \notin R
  BY <1>1, WFMin
<1>4. x \in Nat /\ x # 0 /\ x - 1 \in Nat
  OBVIOUS
<1>5. x - 1 \in T
  <2> SUFFICES ASSUME x - 1 \notin T PROVE FALSE
    OBVIOUS
  <2>1. <<x - 1, x>> \in R
    BY <1>2, <1>4
  <2> QED
    BY <1>3, <1>4, <2>1
<1> QED
  BY <1>4, <1>5

\* The equation of the function that Keep is the last value of.
KeptUpTo(s, S, n, g) ==
  g = [i \in 0..n |-> IF i = 0 THEN << >>
                      ELSE IF s[i] \in S THEN Append(g[i - 1], s[i]) ELSE g[i - 1]]

\* There is such a function.
LEMMA KeepDefined ==
  ASSUME NEW X, NEW s \in Seq(X), NEW S
  PROVE  \E g : KeptUpTo(s, S, Len(s), g) /\ Keep(s, S) = g[Len(s)]
<1> DEFINE T == {n \in Nat : \E g : KeptUpTo(s, S, n, g)}
<1>1. 0 \in T
  <2>1. KeptUpTo(s, S, 0, [i \in 0..0 |-> << >>])
    BY DEF KeptUpTo
  <2> QED
    BY <2>1
<1>2. ASSUME NEW n \in Nat, n \in T PROVE n + 1 \in T
  <2>1. PICK g : KeptUpTo(s, S, n, g)
    BY <1>2
  <2> DEFINE last == IF s[n + 1] \in S THEN Append(g[n], s[n + 1]) ELSE g[n]
             h == [i \in 0..(n + 1) |-> IF i = n + 1 THEN last ELSE g[i]]
  <2>2. \A i \in 0..n : g[i] = IF i = 0 THEN << >>
                               ELSE IF s[i] \in S THEN Append(g[i - 1], s[i]) ELSE g[i - 1]
    BY <2>1 DEF KeptUpTo
  <2>3. h[n + 1] = last /\ \A i \in 0..n : h[i] = g[i]
    OBVIOUS
  <2>4. \A i \in 0..(n + 1) : h[i] = IF i = 0 THEN << >>
                                     ELSE IF s[i] \in S THEN Append(h[i - 1], s[i]) ELSE h[i - 1]
    <3> SUFFICES ASSUME NEW i \in 0..(n + 1)
                 PROVE  h[i] = IF i = 0 THEN << >>
                               ELSE IF s[i] \in S THEN Append(h[i - 1], s[i]) ELSE h[i - 1]
      OBVIOUS
    <3>1. CASE i = n + 1
      <4>1. i # 0 /\ i - 1 = n /\ h[i - 1] = g[n]
        BY <2>3, <3>1
      <4> HIDE DEF h
      <4> QED
        BY <2>3, <3>1, <4>1
    <3>2. CASE i = 0
      BY <2>2, <2>3, <3>2
    <3>3. CASE i # 0 /\ i # n + 1
      <4>1. i \in 0..n /\ i - 1 \in 0..n
        BY <3>3
      <4> HIDE DEF h
      <4> QED
        BY <2>2, <2>3, <3>3, <4>1
    <3> QED
      BY <3>1, <3>2, <3>3
  <2>5. h = [i \in 0..(n + 1) |-> h[i]]
    OBVIOUS
  <2> HIDE DEF h
  <2>6. KeptUpTo(s, S, n + 1, h)
    BY <2>4, <2>5 DEF KeptUpTo
  <2> QED
    BY <2>6
<1>3. \A n \in Nat : n \in T
  <2> HIDE DEF T
  <2> QED
    BY <1>1, <1>2, Induction
<1>4. Len(s) \in Nat
  OBVIOUS
<1>5. \E g : KeptUpTo(s, S, Len(s), g)
  BY <1>3, <1>4
<1> DEFINE f == CHOOSE g : KeptUpTo(s, S, Len(s), g)
<1>6. KeptUpTo(s, S, Len(s), f)
  BY <1>5
<1>7. Keep(s, S) = f[Len(s)]
  BY DEF Keep, KeptUpTo
<1> QED
  BY <1>6, <1>7

\* No element twice.
IsInjectiveSeq(s) == \A i, j \in DOMAIN s : s[i] = s[j] => i = j

\* Keep returns a sequence of exactly the elements that are in S, and none twice
\* if s has none twice.
LEMMA KeepElements ==
  ASSUME NEW X, NEW s \in Seq(X), NEW S
  PROVE  /\ Keep(s, S) \in Seq(X)
         /\ Elements(Keep(s, S)) = Elements(s) \cap S
         /\ IsInjectiveSeq(s) => IsInjectiveSeq(Keep(s, S))
<1>1. PICK g : KeptUpTo(s, S, Len(s), g) /\ Keep(s, S) = g[Len(s)]
  BY KeepDefined
<1>2. /\ Len(s) \in Nat /\ DOMAIN s = 1..Len(s) /\ \A i \in 1..Len(s) : s[i] \in X
      /\ g[0] = << >>
      /\ \A n \in 0..(Len(s) - 1) :
           g[n + 1] = IF s[n + 1] \in S THEN Append(g[n], s[n + 1]) ELSE g[n]
  <2>1. Len(s) \in Nat /\ DOMAIN s = 1..Len(s) /\ \A i \in 1..Len(s) : s[i] \in X
    OBVIOUS
  <2>2. \A i \in 0..Len(s) :
          g[i] = IF i = 0 THEN << >>
                 ELSE IF s[i] \in S THEN Append(g[i - 1], s[i]) ELSE g[i - 1]
    BY <1>1 DEF KeptUpTo
  <2>3. ASSUME NEW n \in 0..(Len(s) - 1)
        PROVE  g[n + 1] = IF s[n + 1] \in S THEN Append(g[n], s[n + 1]) ELSE g[n]
    <3>1. n + 1 \in 0..Len(s) /\ n + 1 # 0 /\ (n + 1) - 1 = n
      BY <2>1
    <3> QED
      BY <2>2, <3>1
  <2> QED
    BY <2>1, <2>2, <2>3
<1> DEFINE Good(n) == /\ g[n] \in Seq(X)
                      /\ Elements(g[n]) = {s[i] : i \in 1..n} \cap S
                      /\ IsInjectiveSeq(s) => IsInjectiveSeq(g[n])
           T == {n \in Nat : n <= Len(s) => Good(n)}
<1>3. 0 \in T
  <2>1. g[0] \in Seq(X) /\ DOMAIN g[0] = {} /\ 1..0 = {}
    BY <1>2
  <2>2. Elements(g[0]) = {} /\ IsInjectiveSeq(g[0])
    BY <2>1 DEF Elements, IsInjectiveSeq
  <2>3. {s[i] : i \in 1..0} = {}
    BY <2>1
  <2> QED
    BY <2>1, <2>2, <2>3
<1>4. ASSUME NEW n \in Nat, n \in T PROVE n + 1 \in T
  <2> SUFFICES ASSUME n + 1 <= Len(s) PROVE Good(n + 1)
    OBVIOUS
  <2>1. n <= Len(s) /\ n \in 0..(Len(s) - 1) /\ n + 1 \in 1..Len(s)
    BY <1>2
  <2>2. Good(n)
    BY <1>4, <2>1
  <2>3. {s[i] : i \in 1..(n + 1)} = {s[i] : i \in 1..n} \cup {s[n + 1]}
    <3>1. 1..(n + 1) = 1..n \cup {n + 1}
      OBVIOUS
    <3> QED
      BY <3>1
  <2>4. CASE s[n + 1] \in S
    <3> DEFINE k == Len(g[n]) + 1  new == Append(g[n], s[n + 1])
    <3>1. g[n + 1] = new /\ s[n + 1] \in X
      BY <1>2, <2>1, <2>4
    <3>2. /\ new \in Seq(X) /\ k \in Nat /\ DOMAIN new = 1..k /\ new[k] = s[n + 1]
          /\ DOMAIN g[n] = 1..(k - 1) /\ \A i \in 1..(k - 1) : new[i] = g[n][i]
      BY <2>2, <3>1
    <3>3. 1..k = 1..(k - 1) \cup {k}
      BY <3>2
    <3> HIDE DEF k, new
    <3>4. Elements(new) = Elements(g[n]) \cup {s[n + 1]}
      BY <3>2, <3>3 DEF Elements
    <3>5. IsInjectiveSeq(s) => s[n + 1] \notin Elements(g[n])
      <4> SUFFICES ASSUME IsInjectiveSeq(s), NEW i \in 1..n, s[n + 1] = s[i] PROVE FALSE
        BY <2>2
      <4>1. i \in DOMAIN s /\ n + 1 \in DOMAIN s /\ i # n + 1
        BY <1>2, <2>1
      <4> QED
        BY <4>1 DEF IsInjectiveSeq
    <3>6. IsInjectiveSeq(s) => IsInjectiveSeq(new)
      <4> SUFFICES ASSUME IsInjectiveSeq(s), NEW i \in 1..k, NEW j \in 1..k, new[i] = new[j]
                   PROVE  i = j
        BY <3>2 DEF IsInjectiveSeq
      <4>1. new[k] \notin Elements(g[n])
        BY <3>2, <3>5
      <4>2. \A m \in 1..(k - 1) : new[m] \in Elements(g[n])
        BY <3>2 DEF Elements
      <4>3. (i = k <=> j = k) /\ (i # k => i \in DOMAIN g[n] /\ j \in DOMAIN g[n])
        BY <3>2, <3>3, <4>1, <4>2
      <4>4. i # k => new[i] = g[n][i] /\ new[j] = g[n][j]
        BY <3>2, <4>3
      <4> QED
        BY <2>2, <4>3, <4>4 DEF IsInjectiveSeq
    <3> QED
      BY <2>2, <2>3, <2>4, <3>1, <3>2, <3>4, <3>6
  <2>5. CASE s[n + 1] \notin S
    <3>1. g[n + 1] = g[n]
      BY <1>2, <2>1, <2>5
    <3> QED
      BY <2>2, <2>3, <2>5, <3>1
  <2> QED
    BY <2>4, <2>5
<1>5. \A n \in Nat : n \in T
  <2> HIDE DEF T
  <2> QED
    BY <1>3, <1>4, Induction
<1>6. Good(Len(s))
  <2> HIDE DEF Good
  <2>1. Len(s) \in T /\ Len(s) <= Len(s)
    BY <1>2, <1>5
  <2> QED
    BY <2>1
<1>7. Elements(s) = {s[i] : i \in 1..Len(s)}
  BY <1>2 DEF Elements
<1> QED
  BY <1>1, <1>6, <1>7

\* The equation of the function in FlattenSeq.
FlattenedUpTo(seqs, n, g) ==
  g = [i \in 1..n |-> IF i = 1 THEN seqs[i] ELSE g[i - 1] \o seqs[i]]

LEMMA FlattenDefined ==
  ASSUME NEW X, NEW seqs \in Seq(Seq(X)), Len(seqs) # 0
  PROVE  \E g : FlattenedUpTo(seqs, Len(seqs), g) /\ FlattenSeq(seqs) = g[Len(seqs)]
<1> DEFINE T == {n \in Nat : n # 0 => \E g : FlattenedUpTo(seqs, n, g)}
<1>1. 0 \in T
  OBVIOUS
<1>2. ASSUME NEW n \in Nat, n \in T PROVE n + 1 \in T
  <2>1. CASE n = 0
    <3>1. FlattenedUpTo(seqs, n + 1, [i \in 1..1 |-> seqs[i]])
      BY <2>1 DEF FlattenedUpTo
    <3> QED
      BY <3>1
  <2>2. CASE n # 0
    <3>1. PICK g : FlattenedUpTo(seqs, n, g)
      BY <1>2, <2>2
    <3> DEFINE h == [i \in 1..(n + 1) |-> IF i = n + 1 THEN g[n] \o seqs[n + 1] ELSE g[i]]
    <3>2. \A i \in 1..n : g[i] = IF i = 1 THEN seqs[i] ELSE g[i - 1] \o seqs[i]
      BY <3>1 DEF FlattenedUpTo
    <3>3. h[n + 1] = g[n] \o seqs[n + 1] /\ \A i \in 1..n : h[i] = g[i]
      <4>1. n + 1 \in 1..(n + 1) /\ \A i \in 1..n : i \in 1..(n + 1) /\ i # n + 1
        OBVIOUS
      <4> QED
        BY <4>1
    <3>4. ASSUME NEW i \in 1..(n + 1)
          PROVE  h[i] = IF i = 1 THEN seqs[i] ELSE h[i - 1] \o seqs[i]
      <4> HIDE DEF h
      <4>1. CASE i = n + 1
        <5>1. i # 1 /\ i - 1 = n /\ n \in 1..n
          BY <2>2, <4>1
        <5> QED
          BY <3>3, <4>1, <5>1
      <4>2. CASE i # n + 1 /\ i = 1
        BY <3>2, <3>3, <2>2, <4>2
      <4>3. CASE i # n + 1 /\ i # 1
        <5>1. i \in 1..n /\ i - 1 \in 1..n
          BY <4>3
        <5> QED
          BY <3>2, <3>3, <4>3, <5>1
      <4> QED
        BY <4>1, <4>2, <4>3
    <3>5. h = [i \in 1..(n + 1) |-> h[i]]
      OBVIOUS
    <3> HIDE DEF h
    <3>6. FlattenedUpTo(seqs, n + 1, h)
      BY <3>4, <3>5 DEF FlattenedUpTo
    <3> QED
      BY <3>6
  <2> QED
    BY <2>1, <2>2
<1>3. \A n \in Nat : n \in T
  <2> HIDE DEF T
  <2> QED
    BY <1>1, <1>2, Induction
<1>4. \E g : FlattenedUpTo(seqs, Len(seqs), g)
  BY <1>3
<1> DEFINE f == CHOOSE g : FlattenedUpTo(seqs, Len(seqs), g)
<1>5. FlattenedUpTo(seqs, Len(seqs), f)
  BY <1>4
<1>6. FlattenSeq(seqs) = f[Len(seqs)]
  BY DEF FlattenSeq, FlattenedUpTo
<1> QED
  BY <1>5, <1>6

\* FlattenSeq of sequences over X is a sequence over X.
LEMMA FlattenType ==
  ASSUME NEW X, NEW seqs \in Seq(Seq(X))
  PROVE  FlattenSeq(seqs) \in Seq(X)
<1>1. CASE Len(seqs) = 0
  BY <1>1 DEF FlattenSeq
<1>2. CASE Len(seqs) # 0
  <2>1. PICK g : FlattenedUpTo(seqs, Len(seqs), g) /\ FlattenSeq(seqs) = g[Len(seqs)]
    BY <1>2, FlattenDefined
  <2>2. \A i \in 1..Len(seqs) : g[i] = IF i = 1 THEN seqs[i] ELSE g[i - 1] \o seqs[i]
    BY <2>1 DEF FlattenedUpTo
  <2> DEFINE T == {n \in Nat : n \in 1..Len(seqs) => g[n] \in Seq(X)}
  <2>3. 0 \in T
    OBVIOUS
  <2>4. ASSUME NEW n \in Nat, n \in T PROVE n + 1 \in T
    <3> SUFFICES ASSUME n + 1 \in 1..Len(seqs) PROVE g[n + 1] \in Seq(X)
      OBVIOUS
    <3>1. seqs[n + 1] \in Seq(X)
      OBVIOUS
    <3>2. CASE n = 0
      BY <2>2, <3>1, <3>2
    <3>3. CASE n # 0
      <4>1. n \in 1..Len(seqs) /\ n + 1 # 1 /\ (n + 1) - 1 = n
        BY <3>3
      <4>2. g[n + 1] = g[n] \o seqs[n + 1] /\ g[n] \in Seq(X)
        BY <2>2, <2>4, <4>1
      <4> QED
        BY <3>1, <4>2
    <3> QED
      BY <3>2, <3>3
  <2>5. \A n \in Nat : n \in T
    <3> HIDE DEF T
    <3> QED
      BY <2>3, <2>4, Induction
  <2>6. g[Len(seqs)] \in Seq(X)
    BY <1>2, <2>5
  <2> QED
    BY <2>1, <2>6
<1> QED
  BY <1>1, <1>2

-----------------------------------------------------------------------------
(* Columns *)

\* A column, with whatever it holds.
IsColumn(c) ==
  c \in [name : {c.name}, kind : {c.kind}, unique : Nat, missing : Nat, minor : {c.minor},
         zeroOne : {c.zeroOne}]

AreColumns(cols) == IsSequence(cols) /\ \A c \in Elements(cols) : IsColumn(c)

\* d is what a step leaves of c.
StaysAs(d, c) == IsColumn(d) /\ d.name = c.name /\ d.kind = c.kind

LEMMA SequenceFacts ==
  ASSUME NEW s, IsSequence(s)
  PROVE  /\ Len(s) \in Nat /\ DOMAIN s = 1..Len(s) /\ s \in Seq(Elements(s))
         /\ \A i \in DOMAIN s : s[i] \in Elements(s)
BY DEF IsSequence, Elements

LEMMA SequenceOver ==
  ASSUME NEW X, NEW s \in Seq(X)
  PROVE  IsSequence(s) /\ Elements(s) \subseteq X
<1>1. Len(s) \in Nat /\ DOMAIN s = 1..Len(s) /\ \A i \in 1..Len(s) : s[i] \in X
  OBVIOUS
<1>2. \A i \in 1..Len(s) : s[i] \in Elements(s)
  BY <1>1 DEF Elements
<1>3. s = [i \in 1..Len(s) |-> s[i]]
  OBVIOUS
<1>4. s \in Seq(Elements(s))
  BY <1>1, <1>2, <1>3
<1>5. Elements(s) \subseteq X
  BY <1>1 DEF Elements
<1> QED
  BY <1>4, <1>5 DEF IsSequence

\* A step that makes a column of each column makes a sequence of columns.
LEMMA EachStays ==
  ASSUME NEW cols, IsSequence(cols), NEW new, new = [i \in DOMAIN cols |-> new[i]]
  PROVE  /\ IsSequence(new) /\ DOMAIN new = DOMAIN cols
         /\ Elements(new) = {new[i] : i \in DOMAIN cols}
<1>1. Len(cols) \in Nat /\ DOMAIN cols = 1..Len(cols)
  BY SequenceFacts
<1>2. DOMAIN new = DOMAIN cols
  OBVIOUS
<1>3. \A i \in 1..Len(cols) : new[i] \in Elements(new)
  BY <1>1, <1>2 DEF Elements
<1>4. new = [i \in 1..Len(cols) |-> new[i]]
  BY <1>1
<1> HIDE DEF Elements
<1>5. new \in Seq(Elements(new))
  BY <1>1, <1>3, <1>4
<1> QED
  BY <1>2, <1>5 DEF IsSequence, Elements

LEMMA SeqMonotone ==
  ASSUME NEW X, NEW Y, X \subseteq Y, NEW s \in Seq(X)
  PROVE  s \in Seq(Y)
<1>1. Len(s) \in Nat /\ s = [i \in 1..Len(s) |-> s[i]] /\ \A i \in 1..Len(s) : s[i] \in Y
  OBVIOUS
<1> QED
  BY <1>1

LEMMA ConcatElements ==
  ASSUME NEW s, NEW t, IsSequence(s), IsSequence(t)
  PROVE  IsSequence(s \o t) /\ Elements(s \o t) = Elements(s) \cup Elements(t)
<1> DEFINE X == Elements(s) \cup Elements(t)
<1>1. /\ Len(s) \in Nat /\ DOMAIN s = 1..Len(s) /\ \A i \in 1..Len(s) : s[i] \in X
      /\ Len(t) \in Nat /\ DOMAIN t = 1..Len(t) /\ \A i \in 1..Len(t) : t[i] \in X
  BY SequenceFacts
<1>2. s \in Seq(X) /\ t \in Seq(X)
  <2>1. s \in Seq(Elements(s)) /\ t \in Seq(Elements(t))
    BY SequenceFacts
  <2> QED
    BY <2>1, SeqMonotone
<1>3. s \o t \in Seq(X) /\ Len(s \o t) = Len(s) + Len(t)
  BY <1>2
<1>4. IsSequence(s \o t) /\ Elements(s \o t) \subseteq X
  BY <1>3, SequenceOver
<1>5. \A i \in 1..Len(s) : i \in DOMAIN (s \o t) /\ (s \o t)[i] = s[i]
  BY <1>1, <1>2, <1>3
<1>6. \A i \in 1..Len(t) : Len(s) + i \in DOMAIN (s \o t) /\ (s \o t)[Len(s) + i] = t[i]
  BY <1>1, <1>2, <1>3
<1>7. X \subseteq Elements(s \o t)
  BY <1>1, <1>5, <1>6 DEF Elements
<1> QED
  BY <1>4, <1>7

LEMMA ColumnFields ==
  ASSUME NEW c, IsColumn(c)
  PROVE  c.unique \in Nat /\ c.missing \in Nat
BY DEF IsColumn

\* A number lacks nothing afterwards, or more than eight tenths as before.
LEMMA ImputedStays ==
  ASSUME NEW c, IsColumn(c)
  PROVE  /\ StaysAs(Imputed(c), c)
         /\ Numeric(c) => \/ Imputed(c).missing = 0
                          \/ c.missing > 8 /\ Imputed(c).missing = c.missing
<1> DEFINE u == IF Numeric(c) /\ c.unique > 1 THEN c.unique + 1 ELSE c.unique
<1>1. CASE c.missing = 0 \/ c.missing > 8 \/ Label(c) \notin {"numerical", "categorical"}
  <2>1. Imputed(c) = c
    BY <1>1 DEF Imputed
  <2>2. Numeric(c) => Label(c) = "numerical"
    BY DEF Numeric, Label
  <2>3. Numeric(c) => c.missing = 0 \/ c.missing > 8
    BY <1>1, <2>2
  <2>4. StaysAs(c, c)
    BY DEF StaysAs
  <2> QED
    BY <2>1, <2>3, <2>4
<1>2. CASE ~(c.missing = 0 \/ c.missing > 8 \/ Label(c) \notin {"numerical", "categorical"})
  <2>1. u \in Nat
    BY ColumnFields
  <2>2. Imputed(c) = [c EXCEPT !.missing = 0, !.unique = u, !.zeroOne = FALSE]
    BY <1>2 DEF Imputed
  <2> HIDE DEF u
  <2>3. Imputed(c) = [name |-> c.name, kind |-> c.kind, unique |-> u, missing |-> 0,
                      minor |-> c.minor, zeroOne |-> FALSE]
    BY <2>2 DEF IsColumn
  <2> QED
    BY <2>1, <2>3 DEF IsColumn, StaysAs
<1> QED
  BY <1>1, <1>2

LEMMA ClippedStays ==
  ASSUME NEW c, IsColumn(c), NEW method
  PROVE  StaysAs(Clipped(c, method), c) /\ Clipped(c, method).missing = c.missing
<1>1. \/ Clipped(c, method) = c
      \/ Clipped(c, method) = [c EXCEPT !.unique = 1]
      \/ Clipped(c, method) = [c EXCEPT !.zeroOne = FALSE]
  BY DEF Clipped
<1> QED
  BY <1>1 DEF IsColumn, StaysAs

LEMMA ScaledStays ==
  ASSUME NEW c, IsColumn(c)
  PROVE  StaysAs(Scaled(c), c) /\ Scaled(c).missing = c.missing
<1>1. Scaled(c) = c \/ Scaled(c) = [c EXCEPT !.zeroOne = FALSE]
  BY DEF Scaled
<1> QED
  BY <1>1 DEF IsColumn, StaysAs

LEMMA AsNumberColumn ==
  ASSUME NEW c, IsColumn(c)
  PROVE  /\ IsColumn(AsNumber(c)) /\ AsNumber(c).name = c.name
         /\ Numeric(AsNumber(c)) /\ AsNumber(c).missing = 0
BY DEF IsColumn, AsNumber, Numeric

\* One-hot columns have names of their own kind, and are no numbers.
IsDummy(d) == IsColumn(d) /\ ~Numeric(d) /\ Len(d.name) = 2

LEMMA DummiesType ==
  ASSUME NEW c, IsColumn(c)
  PROVE  IsSequence(Dummies(c)) /\ \A d \in Elements(Dummies(c)) : IsDummy(d)
<1> DEFINE n == IF c.unique = 0 THEN 0 ELSE c.unique - 1
           new(k) == [Column(<<c.name[1], k + 1>>, "bool", 2) EXCEPT !.zeroOne = TRUE]
<1>1. n \in Nat
  BY ColumnFields
<1>2. Dummies(c) = [k \in 1..n |-> new(k)]
  BY DEF Dummies
<1>3. \A k \in 1..n : IsDummy(new(k))
  BY DEF IsDummy, IsColumn, Numeric, Column
<1>4. Dummies(c) \in Seq({new(k) : k \in 1..n})
  <2> HIDE DEF n, new
  <2> QED
    BY <1>1, <1>2
<1>5. IsSequence(Dummies(c)) /\ Elements(Dummies(c)) \subseteq {new(k) : k \in 1..n}
  BY <1>4, SequenceOver
<1> QED
  BY <1>3, <1>5

\* Encoding leaves the numbers, and of the other columns some, their codes and
\* their dummies.
LEMMA EncodedColumns ==
  ASSUME NEW cols, AreColumns(cols), NEW strategy, NEW outcomes
  PROVE  /\ AreColumns(Encoded(cols, strategy, outcomes))
         /\ \A d \in Elements(Encoded(cols, strategy, outcomes)) :
              \/ IsDummy(d) \/ d \in Elements(cols)
              \/ \E c \in Elements(cols) : ~Numeric(c) /\ d = AsNumber(c)
         /\ \A c \in Elements(cols) :
              Numeric(c) => c \in Elements(Encoded(cols, strategy, outcomes))
<1> DEFINE Todo(c) == Label(c) \in {"categorical", "text"} /\ c.name[1] \notin Elements(outcomes)
           Code(c) == IF Todo(c) THEN AsNumber(c) ELSE c
           Hot  == {c \in Elements(cols) : Todo(c) /\ OneHot(c, strategy)}
           kept == Keep(cols, Elements(cols) \ Hot)
           hot  == Keep(cols, Hot)
           codes == [i \in DOMAIN kept |-> Code(kept[i])]
           dummies == [i \in DOMAIN hot |-> Dummies(hot[i])]
           D == {d \in UNION {Elements(Dummies(c)) : c \in Elements(cols)} : TRUE}
<1>1. Encoded(cols, strategy, outcomes) = codes \o FlattenSeq(dummies)
  BY DEF Encoded
<1>2. \A c \in Elements(cols) : Numeric(c) => ~Todo(c)
  BY DEF Numeric, Label
<1>3. /\ kept \in Seq(Elements(cols)) /\ Elements(kept) = Elements(cols) \ Hot
      /\ hot \in Seq(Elements(cols)) /\ Elements(hot) = Hot
  <2>1. cols \in Seq(Elements(cols))
    BY DEF AreColumns, IsSequence
  <2> HIDE DEF Hot
  <2>2. Hot \subseteq Elements(cols)
    BY DEF Hot
  <2>3. kept \in Seq(Elements(cols)) /\ Elements(kept) = Elements(cols) \cap (Elements(cols) \ Hot)
    BY <2>1, KeepElements
  <2>4. hot \in Seq(Elements(cols)) /\ Elements(hot) = Elements(cols) \cap Hot
    BY <2>1, KeepElements
  <2> HIDE DEF kept, hot
  <2> QED
    BY <2>2, <2>3, <2>4
<1> HIDE DEF kept, hot
<1>4. /\ IsSequence(codes) /\ Elements(codes) = {Code(c) : c \in Elements(kept)}
  <2> HIDE DEF Code
  <2>1. IsSequence(kept)
    BY <1>3, SequenceOver
  <2>2. DOMAIN codes = DOMAIN kept /\ \A i \in DOMAIN kept : codes[i] = Code(kept[i])
    OBVIOUS
  <2>3. codes = [i \in DOMAIN kept |-> codes[i]]
    OBVIOUS
  <2> HIDE DEF codes
  <2>4. IsSequence(codes) /\ Elements(codes) = {codes[i] : i \in DOMAIN kept}
    BY <2>1, <2>3, EachStays
  <2> QED
    BY <2>2, <2>4 DEF Elements
<1>5. \A c \in Elements(cols) : IsSequence(Dummies(c)) /\ \A d \in Elements(Dummies(c)) : IsDummy(d)
  BY DummiesType DEF AreColumns
<1>6. dummies \in Seq(Seq(D))
  <2>1. ASSUME NEW c \in Elements(cols) PROVE Dummies(c) \in Seq(D)
    <3>1. Elements(Dummies(c)) \subseteq D
      OBVIOUS
    <3>2. Dummies(c) \in Seq(Elements(Dummies(c)))
      BY <1>5 DEF IsSequence
    <3> QED
      BY <3>1, <3>2, SeqMonotone
  <2>2. /\ Len(hot) \in Nat /\ DOMAIN hot = 1..Len(hot)
        /\ \A i \in 1..Len(hot) : hot[i] \in Elements(cols)
    BY <1>3
  <2> HIDE DEF D
  <2>3. dummies = [i \in 1..Len(hot) |-> Dummies(hot[i])]
    BY <2>2
  <2>4. \A i \in 1..Len(hot) : Dummies(hot[i]) \in Seq(D)
    BY <2>1, <2>2
  <2> QED
    BY <2>2, <2>3, <2>4
<1>7. IsSequence(FlattenSeq(dummies)) /\ Elements(FlattenSeq(dummies)) \subseteq D
  <2> HIDE DEF D, dummies
  <2> QED
    BY <1>6, FlattenType, SequenceOver
<1>8. \A d \in D : IsDummy(d)
  BY <1>5
<1> HIDE DEF codes, dummies, D, Hot
<1>9. /\ IsSequence(Encoded(cols, strategy, outcomes))
      /\ Elements(Encoded(cols, strategy, outcomes)) =
           Elements(codes) \cup Elements(FlattenSeq(dummies))
  BY <1>1, <1>4, <1>7, ConcatElements
<1>10. \A d \in Elements(codes) :
         \/ d \in Elements(cols)
         \/ \E c \in Elements(cols) : ~Numeric(c) /\ d = AsNumber(c)
  BY <1>2, <1>3, <1>4
<1>11. \A c \in Elements(cols) : IsColumn(c) /\ IsColumn(AsNumber(c))
  BY AsNumberColumn DEF AreColumns
<1>12. \A d \in Elements(Encoded(cols, strategy, outcomes)) : IsColumn(d)
  BY <1>7, <1>8, <1>9, <1>10, <1>11 DEF IsDummy
<1>13. ASSUME NEW c \in Elements(cols), Numeric(c)
       PROVE  c \in Elements(Encoded(cols, strategy, outcomes))
  <2>1. c \in Elements(kept) /\ Code(c) = c
    BY <1>2, <1>3, <1>13 DEF Hot
  <2> QED
    BY <1>4, <1>9, <2>1
<1> QED
  BY <1>7, <1>8, <1>9, <1>10, <1>12, <1>13 DEF AreColumns

LEMMA FirstOfType ==
  ASSUME NEW X, NEW s \in Seq(X), NEW k \in Nat
  PROVE  FirstOf(k, s) \in Seq(X)
<1> DEFINE n == IF Len(s) < k THEN Len(s) ELSE k
<1>1. n \in Nat /\ n <= Len(s) /\ Len(s) \in Nat
  OBVIOUS
<1>2. FirstOf(k, s) = SubSeq(s, 1, n)
  BY DEF FirstOf
<1> HIDE DEF n
<1>3. \A i \in 1..n : s[i] \in X
  BY <1>1
<1>4. SubSeq(s, 1, n) = [i \in 1..n |-> s[i]]
  BY <1>1
<1> QED
  BY <1>1, <1>2, <1>3, <1>4

\* A number of the file is still there under its name, as a number.
NumbersStay(original, cols) ==
  \A c \in Elements(original) : Numeric(c) =>
    /\ \E d \in Elements(cols) : d.name = c.name
    /\ \A d \in Elements(cols) : d.name = c.name => Numeric(d)

\* Numbers lack nothing, or as much as M allows.
GapsIn(cols, M) == \A c \in Elements(cols) : Numeric(c) => c.missing \in {0} \cup M

\* What columns lack that imputation leaves as they are.
WideGaps(t) == {c.missing : c \in {d \in Elements(t.cols) : d.missing > 8}}

LEMMA NamedThere ==
  ASSUME NEW cols, NEW c \in Elements(cols)
  PROVE  Named(cols, c.name) \in Elements(cols) /\ Named(cols, c.name).name = c.name
BY DEF Named

\* The engineered columns come after the others, and those that are numbers are
\* made of numbers.
LEMMA EngineeredColumns ==
  ASSUME NEW cols, AreColumns(cols), NEW original, AreColumns(original),
         NEW cand, AreCandidates(cand), NumbersStay(original, cols), NEW M
  PROVE  /\ AreColumns(Engineered(cols, original, cand))
         /\ Elements(cols) \subseteq Elements(Engineered(cols, original, cand))
         /\ GapsIn(cols, M) => GapsIn(Engineered(cols, original, cand), M)
<1> DEFINE numeric == Numbers(original)
           candidates == Elements(cand.treatment) \cup Elements(cand.outcome)
           plain == {c \in Elements(numeric) : c.name[1] \notin candidates}
           confounders == FirstOf(3, Keep(numeric, plain))
           present == Keep(cand.treatment, {n \in candidates : <<n>> \in Names(cols)})
           Product(n, c) ==
             LET a == Named(cols, <<n>>)  b == Named(cols, c.name) IN
             [Column(<<"fe", n, c.name[1]>>, a.kind, LargerOf(a.unique, b.unique))
                EXCEPT !.missing = LargerOf(a.missing, b.missing)]
           squarable == {n \in candidates : \E c \in Elements(numeric) : c.name = <<n>>}
           squares == Keep(cand.treatment \o cand.outcome, squarable)
           Square(n) == LET a == Named(cols, <<n>>) IN [a EXCEPT !.name = <<"fe", n, "squared">>]
           rows == [i \in DOMAIN present |->
                      [j \in DOMAIN confounders |-> Product(present[i], confounders[j])]]
           both == FlattenSeq(rows) \o [i \in DOMAIN squares |-> Square(squares[i])]
           first == Keep([i \in DOMAIN both |-> i],
                      {i \in DOMAIN both : \A j \in 1..(i - 1) : both[j].name # both[i].name})
           extra == [k \in DOMAIN first |-> both[first[k]]]
           P == {Product(n, c) : n \in Elements(present), c \in Elements(confounders)}
           Q == {Square(n) : n \in Elements(squares)}
<1>1. Engineered(cols, original, cand) = cols \o extra
  BY DEF Engineered
<1>2. /\ numeric \in Seq(Elements(numeric))
      /\ Elements(numeric) = {c \in Elements(original) : Numeric(c)}
  <2>1. original \in Seq(Elements(original))
    BY DEF AreColumns, IsSequence
  <2> DEFINE S == {c \in Elements(original) : Numeric(c)}
  <2>2. numeric = Keep(original, S)
    BY DEF Numbers
  <2> HIDE DEF S, numeric
  <2>3. numeric \in Seq(Elements(original)) /\ Elements(numeric) = Elements(original) \cap S
    BY <2>1, <2>2, KeepElements
  <2>4. IsSequence(numeric)
    BY <2>3, SequenceOver
  <2> QED
    BY <2>3, <2>4 DEF S, IsSequence
<1>3. confounders \in Seq(Elements(numeric))
  <2> HIDE DEF numeric, plain
  <2>1. Keep(numeric, plain) \in Seq(Elements(numeric))
    BY <1>2, KeepElements
  <2> QED
    BY <2>1, FirstOfType
<1>4. /\ present \in Seq(Elements(present))
      /\ \A n \in Elements(present) : <<n>> \in Names(cols)
  <2> DEFINE S == {n \in candidates : <<n>> \in Names(cols)}
  <2>1. cand.treatment \in Seq(Elements(cand.treatment))
    BY DEF AreCandidates, IsSequence
  <2>2. \A n \in S : <<n>> \in Names(cols)
    OBVIOUS
  <2> HIDE DEF S
  <2>3. present \in Seq(Elements(cand.treatment)) /\ Elements(present) \subseteq S
    BY <2>1, KeepElements DEF S
  <2>4. IsSequence(present)
    BY <2>3, SequenceOver
  <2> QED
    BY <2>2, <2>3, <2>4 DEF IsSequence
<1>5. /\ squares \in Seq(Elements(squares))
      /\ \A n \in Elements(squares) : \E c \in Elements(numeric) : c.name = <<n>>
  <2> DEFINE asked == cand.treatment \o cand.outcome
  <2>1. asked \in Seq(Elements(asked))
    BY ConcatElements DEF AreCandidates, IsSequence
  <2>2. \A n \in squarable : \E c \in Elements(numeric) : c.name = <<n>>
    OBVIOUS
  <2> HIDE DEF squarable, asked
  <2>3. squares = Keep(asked, squarable)
    BY DEF asked
  <2> HIDE DEF squares
  <2>4. squares \in Seq(Elements(asked)) /\ Elements(squares) \subseteq squarable
    BY <2>1, <2>3, KeepElements
  <2>5. IsSequence(squares)
    BY <2>4, SequenceOver
  <2> QED
    BY <2>2, <2>4, <2>5 DEF IsSequence
<1> HIDE DEF numeric, confounders, present, squares
\* What each is made of.
<1>6. ASSUME NEW n \in Elements(present), NEW c \in Elements(confounders)
      PROVE  /\ IsColumn(Product(n, c))
             /\ GapsIn(cols, M) /\ Numeric(Product(n, c)) =>
                  Product(n, c).missing \in {0} \cup M
  <2> DEFINE a == Named(cols, <<n>>)  b == Named(cols, c.name)
  <2>1. a \in Elements(cols)
    BY <1>4, NamedThere DEF Names
  <2>2. c \in Elements(numeric)
    BY <1>3, SequenceOver
  <2>3. PICK d \in Elements(cols) : d.name = c.name
    BY <1>2, <2>2 DEF NumbersStay
  <2>4. b \in Elements(cols) /\ b.name = c.name
    BY <2>3, NamedThere
  <2>5. Numeric(b)
    BY <1>2, <2>2, <2>4 DEF NumbersStay
  <2>6. a.unique \in Nat /\ b.unique \in Nat /\ a.missing \in Nat /\ b.missing \in Nat
    BY <2>1, <2>4, ColumnFields DEF AreColumns
  <2> DEFINE u == LargerOf(a.unique, b.unique)  m == LargerOf(a.missing, b.missing)
  <2>7. u \in Nat /\ m \in Nat /\ m \in {a.missing, b.missing}
    BY <2>6 DEF LargerOf
  <2>8. Product(n, c) = [Column(<<"fe", n, c.name[1]>>, a.kind, u) EXCEPT !.missing = m]
    OBVIOUS
  <2> HIDE DEF a, b, u, m, Product
  <2>9. Product(n, c) = [name |-> <<"fe", n, c.name[1]>>, kind |-> a.kind, unique |-> u,
                         missing |-> m, minor |-> 50, zeroOne |-> FALSE]
    BY <2>8 DEF Column
  <2>10. IsColumn(Product(n, c)) /\ Product(n, c).kind = a.kind /\ Product(n, c).missing = m
    BY <2>7, <2>9 DEF IsColumn
  <2> QED
    BY <2>1, <2>4, <2>5, <2>7, <2>10 DEF GapsIn, Numeric
<1>7. ASSUME NEW n \in Elements(squares)
      PROVE  /\ IsColumn(Square(n))
             /\ GapsIn(cols, M) /\ Numeric(Square(n)) => Square(n).missing \in {0} \cup M
  <2> DEFINE a == Named(cols, <<n>>)
  <2>1. PICK c \in Elements(numeric) : c.name = <<n>>
    BY <1>5
  <2>2. PICK d \in Elements(cols) : d.name = <<n>>
    BY <1>2, <2>1 DEF NumbersStay
  <2>3. a \in Elements(cols)
    BY <2>2, NamedThere
  <2>4. IsColumn(a)
    BY <2>3 DEF AreColumns
  <2>5. Square(n) = [a EXCEPT !.name = <<"fe", n, "squared">>]
    OBVIOUS
  <2> HIDE DEF a, Square
  <2>6. IsColumn(Square(n)) /\ Square(n).kind = a.kind /\ Square(n).missing = a.missing
    BY <2>4, <2>5 DEF IsColumn
  <2> QED
    BY <2>3, <2>6 DEF GapsIn, Numeric
<1> DEFINE Both == P \cup Q
<1>8. FlattenSeq(rows) \in Seq(P)
  <2>1. /\ Len(present) \in Nat /\ DOMAIN present = 1..Len(present)
        /\ \A i \in 1..Len(present) : present[i] \in Elements(present)
    BY <1>4
  <2>2. IsSequence(confounders)
    BY <1>3, SequenceOver
  <2>3. /\ Len(confounders) \in Nat /\ DOMAIN confounders = 1..Len(confounders)
        /\ \A j \in 1..Len(confounders) : confounders[j] \in Elements(confounders)
    BY <2>2, SequenceFacts
  <2>4. ASSUME NEW i \in 1..Len(present)
        PROVE  [j \in DOMAIN confounders |-> Product(present[i], confounders[j])] \in Seq(P)
    <3> HIDE DEF Product
    <3>1. \A j \in 1..Len(confounders) : Product(present[i], confounders[j]) \in P
      BY <2>1, <2>3
    <3> HIDE DEF P
    <3> QED
      BY <2>3, <3>1
  <2> HIDE DEF Product, P
  <2>5. rows \in Seq(Seq(P))
    BY <2>1, <2>4
  <2> QED
    BY <2>5, FlattenType
<1>9. [i \in DOMAIN squares |-> Square(squares[i])] \in Seq(Q)
  <2>1. /\ Len(squares) \in Nat /\ DOMAIN squares = 1..Len(squares)
        /\ \A i \in 1..Len(squares) : squares[i] \in Elements(squares)
    BY <1>5
  <2> HIDE DEF Square
  <2>2. \A i \in 1..Len(squares) : Square(squares[i]) \in Q
    BY <2>1
  <2> HIDE DEF Q
  <2> QED
    BY <2>1, <2>2
<1> HIDE DEF rows
<1>10. both \in Seq(Both)
  <2> DEFINE made == FlattenSeq(rows)  squared == [i \in DOMAIN squares |-> Square(squares[i])]
  <2>1. made \in Seq(P) /\ squared \in Seq(Q)
    BY <1>8, <1>9
  <2> HIDE DEF made, squared, P, Q
  <2>2. made \in Seq(Both) /\ squared \in Seq(Both)
    BY <2>1, SeqMonotone
  <2>3. both = made \o squared
    BY DEF made, squared
  <2> HIDE DEF both, Both
  <2> QED
    BY <2>2, <2>3
<1>11. /\ Len(both) \in Nat /\ DOMAIN both = 1..Len(both)
       /\ \A i \in 1..Len(both) : both[i] \in Both
  <2> HIDE DEF both, Both
  <2> QED
    BY <1>10
<1> HIDE DEF both
<1>12. first \in Seq(1..Len(both))
  <2> DEFINE places == [i \in DOMAIN both |-> i]
  <2>1. places \in Seq(1..Len(both))
    BY <1>11
  <2> HIDE DEF places
  <2>2. \A S : Keep(places, S) \in Seq(1..Len(both))
    BY <2>1, KeepElements
  <2> QED
    BY <2>2 DEF places
<1> HIDE DEF first
<1>13. extra \in Seq(Both)
  <2>1. /\ Len(first) \in Nat /\ DOMAIN first = 1..Len(first)
        /\ \A k \in 1..Len(first) : first[k] \in 1..Len(both)
    BY <1>12
  <2> HIDE DEF Both
  <2> QED
    BY <1>11, <2>1
<1> HIDE DEF extra
<1>14. IsSequence(extra) /\ Elements(extra) \subseteq Both
  <2> HIDE DEF Both
  <2> QED
    BY <1>13, SequenceOver
<1>15. /\ IsSequence(cols \o extra)
       /\ Elements(cols \o extra) = Elements(cols) \cup Elements(extra)
  BY <1>14, ConcatElements DEF AreColumns
<1>16. /\ \A d \in Both : IsColumn(d)
       /\ GapsIn(cols, M) => \A d \in Both : Numeric(d) => d.missing \in {0} \cup M
  <2> HIDE DEF Product, Square
  <2> QED
    BY <1>6, <1>7
<1> HIDE DEF Both
<1>17. AreColumns(cols \o extra)
  <2>1. \A d \in Elements(cols \o extra) : d \in Elements(cols) \/ d \in Both
    BY <1>14, <1>15
  <2> QED
    BY <1>15, <1>16, <2>1 DEF AreColumns
<1>18. GapsIn(cols, M) => GapsIn(cols \o extra, M)
  <2>1. \A d \in Elements(cols \o extra) : d \in Elements(cols) \/ d \in Both
    BY <1>14, <1>15
  <2> QED
    BY <1>16, <2>1 DEF GapsIn
<1> QED
  BY <1>1, <1>15, <1>17, <1>18

\* Columns that are changed one by one, and keep their names and kinds.
Follow(new, cols) ==
  /\ \A d \in Elements(new) : \E c \in Elements(cols) : d.name = c.name /\ d.kind = c.kind
  /\ \A c \in Elements(cols) : \E d \in Elements(new) : d.name = c.name /\ d.kind = c.kind

LEMMA MappedColumns ==
  ASSUME NEW cols, AreColumns(cols), NEW new, new = [i \in DOMAIN cols |-> new[i]],
         \A i \in DOMAIN cols : StaysAs(new[i], cols[i])
  PROVE  AreColumns(new) /\ Follow(new, cols)
<1>1. IsSequence(cols)
  BY DEF AreColumns
<1>2. /\ IsSequence(new)
      /\ Elements(new) = {new[i] : i \in DOMAIN cols}
  BY <1>1, EachStays
<1>3. \A i \in DOMAIN cols : cols[i] \in Elements(cols)
  BY DEF Elements
<1> QED
  BY <1>2, <1>3 DEF AreColumns, Follow, StaysAs, Elements

\* The columns of a table have names of length one, each its own.
LEMMA TableColumns ==
  ASSUME NEW t, IsTable(t)
  PROVE  /\ AreColumns(t.cols)
         /\ \A c \in Elements(t.cols) : Len(c.name) = 1
         /\ \A c, d \in Elements(t.cols) : c.name = d.name => c = d
         /\ IsInjectiveSeq(t.cols)
         /\ \A cols : [t EXCEPT !.cols = cols].cols = cols
<1>1. IsSequence(t.cols)
  BY DEF IsTable, IsSequence
<1>2. ASSUME NEW c \in Elements(t.cols) PROVE IsColumn(c) /\ Len(c.name) = 1
  <2>1. c \in [name : {<<c.name[1]>>}, kind : {"number", "string", "date"}, unique : Nat,
               missing : 0..10, minor : 0..50, zeroOne : BOOLEAN]
    BY DEF IsTable
  <2>2. IsColumn(c) /\ c.name = <<c.name[1]>>
    BY <2>1 DEF IsColumn
  <2> QED
    BY <2>2
<1>3. \A i, j \in DOMAIN t.cols : t.cols[i].name = t.cols[j].name => i = j
  BY DEF IsTable
<1>4. \A c, d \in Elements(t.cols) : c.name = d.name => c = d
  BY <1>3 DEF Elements
<1>5. IsInjectiveSeq(t.cols)
  BY <1>3 DEF IsInjectiveSeq
<1>6. \A cols : [t EXCEPT !.cols = cols].cols = cols
  BY DEF IsTable
<1> QED
  BY <1>1, <1>2, <1>4, <1>5, <1>6 DEF AreColumns

\* What preprocessing makes of a table: columns again, among them the numbers of
\* the file under their names; and if gaps are filled, a number lacks nothing or
\* what a column of the file lacked in more than eight tenths of the rows.
LEMMA PreprocessedColumns ==
  ASSUME NEW t, IsTable(t), NEW pp, NEW cand, AreCandidates(cand)
  PROVE  LET cols == Preprocess(t, pp, cand).cols IN
         /\ AreColumns(cols)
         /\ \A c \in Elements(t.cols) :
              Numeric(c) => \E d \in Elements(cols) : d.name = c.name /\ Numeric(d)
         /\ pp.impute => GapsIn(cols, WideGaps(t))
<1> DEFINE imputed == IF pp.impute THEN [i \in DOMAIN t.cols |-> Imputed(t.cols[i])] ELSE t.cols
           clipped == IF pp.outliers = "off" THEN imputed
                      ELSE [i \in DOMAIN imputed |-> Clipped(imputed[i], pp.outliers)]
           encoded == IF pp.encoding = "off" THEN clipped
                      ELSE Encoded(clipped, pp.encoding, cand.outcome)
           engineered == IF pp.engineer THEN Engineered(encoded, t.cols, cand) ELSE encoded
           scaled == IF pp.scale THEN [i \in DOMAIN engineered |-> Scaled(engineered[i])]
                     ELSE engineered
<1>1. Preprocess(t, pp, cand).cols = scaled
  <2>1. Preprocess(t, pp, cand) = [t EXCEPT !.cols = scaled]
    BY DEF Preprocess
  <2> HIDE DEF scaled
  <2> QED
    BY <2>1, TableColumns
<1>2. AreColumns(t.cols) /\ Follow(t.cols, t.cols)
  BY TableColumns DEF Follow
<1>3. AreColumns(imputed) /\ Follow(imputed, t.cols) /\ (pp.impute => GapsIn(imputed, WideGaps(t)))
  <2>1. CASE pp.impute
    <3> DEFINE new == [i \in DOMAIN t.cols |-> Imputed(t.cols[i])]
    <3>1. imputed = new
      BY <2>1
    <3>2. \A i \in DOMAIN t.cols : new[i] = Imputed(t.cols[i]) /\ t.cols[i] \in Elements(t.cols)
      BY DEF Elements
    <3>3. new = [i \in DOMAIN t.cols |-> new[i]] /\ DOMAIN new = DOMAIN t.cols
      OBVIOUS
    <3> HIDE DEF new, imputed
    <3>4. \A i \in DOMAIN t.cols : StaysAs(new[i], t.cols[i])
      BY <1>2, <3>2, ImputedStays DEF AreColumns
    <3>5. AreColumns(new) /\ Follow(new, t.cols)
      BY <1>2, <3>3, <3>4, MappedColumns
    <3>6. ASSUME NEW i \in DOMAIN t.cols, Numeric(new[i])
          PROVE  new[i].missing \in {0} \cup WideGaps(t)
      <4>1. Numeric(t.cols[i]) /\ IsColumn(t.cols[i])
        BY <1>2, <3>2, <3>4, <3>6 DEF AreColumns, StaysAs, Numeric
      <4>2. \/ new[i].missing = 0
            \/ t.cols[i].missing > 8 /\ new[i].missing = t.cols[i].missing
        BY <3>2, <4>1, ImputedStays
      <4> QED
        BY <3>2, <4>2 DEF WideGaps
    <3>7. GapsIn(new, WideGaps(t))
      BY <3>3, <3>6 DEF GapsIn, Elements
    <3> QED
      BY <3>1, <3>5, <3>7
  <2>2. CASE ~pp.impute
    BY <1>2, <2>2
  <2> QED
    BY <2>1, <2>2
<1> HIDE DEF imputed
<1>4. AreColumns(clipped) /\ Follow(clipped, t.cols) /\ (pp.impute => GapsIn(clipped, WideGaps(t)))
  <2>1. CASE pp.outliers # "off"
    <3> DEFINE new == [i \in DOMAIN imputed |-> Clipped(imputed[i], pp.outliers)]
    <3>1. clipped = new
      BY <2>1
    <3>2. \A i \in DOMAIN imputed : /\ new[i] = Clipped(imputed[i], pp.outliers)
                                    /\ imputed[i] \in Elements(imputed)
      BY DEF Elements
    <3>3. new = [i \in DOMAIN imputed |-> new[i]] /\ DOMAIN new = DOMAIN imputed
      OBVIOUS
    <3> HIDE DEF new, clipped
    <3>4. \A i \in DOMAIN imputed : /\ StaysAs(new[i], imputed[i])
                                    /\ new[i].missing = imputed[i].missing
      BY <1>3, <3>2, ClippedStays DEF AreColumns
    <3>5. AreColumns(new) /\ Follow(new, imputed)
      BY <1>3, <3>3, <3>4, MappedColumns
    <3>6. Follow(new, t.cols)
      BY <1>3, <3>5 DEF Follow
    <3>7. GapsIn(imputed, WideGaps(t)) => GapsIn(new, WideGaps(t))
      BY <3>2, <3>3, <3>4 DEF GapsIn, Elements, StaysAs, Numeric
    <3> QED
      BY <1>3, <3>1, <3>5, <3>6, <3>7
  <2>2. CASE pp.outliers = "off"
    BY <1>3, <2>2
  <2> QED
    BY <2>1, <2>2
<1> HIDE DEF clipped
<1>5. /\ AreColumns(encoded) /\ NumbersStay(t.cols, encoded) /\ (pp.impute => GapsIn(encoded, WideGaps(t)))
  <2>1. /\ AreColumns(encoded)
        /\ \A d \in Elements(encoded) :
             \/ IsDummy(d) \/ d \in Elements(clipped)
             \/ \E c \in Elements(clipped) : ~Numeric(c) /\ d = AsNumber(c)
        /\ \A c \in Elements(clipped) : Numeric(c) => c \in Elements(encoded)
    BY <1>4, EncodedColumns
  <2> HIDE DEF encoded
  <2>2. \A c \in Elements(clipped) : Numeric(AsNumber(c)) /\ AsNumber(c).missing = 0
    BY <1>4, AsNumberColumn DEF AreColumns
  <2>3. pp.impute => GapsIn(encoded, WideGaps(t))
    BY <1>4, <2>1, <2>2 DEF GapsIn, IsDummy
  <2>4. ASSUME NEW c \in Elements(t.cols), Numeric(c)
        PROVE  /\ \E d \in Elements(encoded) : d.name = c.name
               /\ \A d \in Elements(encoded) : d.name = c.name => Numeric(d)
    <3>1. \E d \in Elements(encoded) : d.name = c.name
      BY <1>4, <2>1, <2>4 DEF Follow, Numeric
    <3>2. ASSUME NEW d \in Elements(encoded), d.name = c.name PROVE Numeric(d)
      <4>1. ~IsDummy(d)
        BY <3>2, TableColumns DEF IsDummy
      <4>2. CASE d \in Elements(clipped)
        <5>1. PICK e \in Elements(t.cols) : d.name = e.name /\ d.kind = e.kind
          BY <1>4, <4>2 DEF Follow
        <5>2. e = c
          BY <3>2, <5>1, TableColumns
        <5> QED
          BY <2>4, <5>1, <5>2 DEF Numeric
      <4> QED
        BY <2>1, <2>2, <4>1, <4>2
    <3> QED
      BY <3>1, <3>2
  <2> QED
    BY <2>1, <2>3, <2>4 DEF NumbersStay
<1> HIDE DEF encoded
<1>6. /\ AreColumns(engineered) /\ (pp.impute => GapsIn(engineered, WideGaps(t)))
      /\ Elements(encoded) \subseteq Elements(engineered)
  BY <1>2, <1>5, EngineeredColumns
<1> HIDE DEF engineered
<1>7. /\ AreColumns(scaled) /\ (pp.impute => GapsIn(scaled, WideGaps(t))) /\ Follow(scaled, engineered)
  <2>1. CASE pp.scale
    <3> DEFINE new == [i \in DOMAIN engineered |-> Scaled(engineered[i])]
    <3>1. scaled = new
      BY <2>1
    <3>2. \A i \in DOMAIN engineered : /\ new[i] = Scaled(engineered[i])
                                       /\ engineered[i] \in Elements(engineered)
      BY DEF Elements
    <3>3. new = [i \in DOMAIN engineered |-> new[i]] /\ DOMAIN new = DOMAIN engineered
      OBVIOUS
    <3> HIDE DEF new, scaled
    <3>4. \A i \in DOMAIN engineered : /\ StaysAs(new[i], engineered[i])
                                       /\ new[i].missing = engineered[i].missing
      BY <1>6, <3>2, ScaledStays DEF AreColumns
    <3>5. AreColumns(new) /\ Follow(new, engineered)
      BY <1>6, <3>3, <3>4, MappedColumns
    <3>6. GapsIn(engineered, WideGaps(t)) => GapsIn(new, WideGaps(t))
      BY <3>2, <3>3, <3>4 DEF GapsIn, Elements, StaysAs, Numeric
    <3> QED
      BY <1>6, <3>1, <3>5, <3>6
  <2>2. CASE ~pp.scale
    BY <1>6, <2>2 DEF Follow
  <2> QED
    BY <2>1, <2>2
<1> HIDE DEF scaled
<1>8. ASSUME NEW c \in Elements(t.cols), Numeric(c)
      PROVE  \E d \in Elements(scaled) : d.name = c.name /\ Numeric(d)
  <2>1. PICK e \in Elements(engineered) : e.name = c.name /\ Numeric(e)
    BY <1>5, <1>6, <1>8 DEF NumbersStay
  <2> QED
    BY <1>7, <2>1 DEF Follow, Numeric
<1> QED
  BY <1>1, <1>7, <1>8

-----------------------------------------------------------------------------
(* What passes the gate *)

\* No error: nothing lacks more than five tenths, and there are two numbers.
LEMMA GateOpen ==
  ASSUME NEW t, IsTable(t), WithoutErrors(t)
  PROVE  /\ \A c \in Elements(t.cols) : c.missing <= 5
         /\ Len(Numbers(t.cols)) >= 2
<1>1. CheckMissingValues(t) \subseteq Issues(t) /\ CheckNumericColumns(t) \subseteq Issues(t)
  BY DEF Issues
<1>2. \A i \in CheckMissingValues(t) \cup CheckNumericColumns(t) : i.level = "warning"
  BY <1>1 DEF WithoutErrors
<1>3. CheckMissingValues(t) = {}
  BY <1>2 DEF CheckMissingValues, Issue
<1>4. ASSUME NEW c \in Elements(t.cols) PROVE c.missing <= 5
  <2>1. c.missing \in Nat
    BY TableColumns, ColumnFields DEF AreColumns
  <2>2. ~(c.missing > 5)
    BY <1>3 DEF CheckMissingValues
  <2> QED
    BY <2>1, <2>2
<1>5. Len(Numbers(t.cols)) >= 2
  <2>1. Numbers(t.cols) \in Seq(Elements(t.cols))
    BY TableColumns, KeepElements DEF Numbers, AreColumns, IsSequence
  <2>2. Len(Numbers(t.cols)) \in Nat
    BY <2>1
  <2>3. Len(Numbers(t.cols)) < 2 => Issue("error", "numeric_columns") \in CheckNumericColumns(t)
    BY DEF CheckNumericColumns
  <2> QED
    BY <1>2, <2>2, <2>3 DEF Issue
<1> QED
  BY <1>4, <1>5

LEMMA TwoElements ==
  ASSUME NEW s, IsSequence(s), NEW x \in Elements(s), NEW y \in Elements(s), x # y
  PROVE  Len(s) >= 2
<1>1. Len(s) \in Nat /\ DOMAIN s = 1..Len(s)
  BY SequenceFacts
<1>2. PICK i \in 1..Len(s), j \in 1..Len(s) : i # j
  BY <1>1 DEF Elements
<1> QED
  BY <1>1, <1>2

LEMMA NumbersAreColumns ==
  ASSUME NEW cols, AreColumns(cols)
  PROVE  /\ IsSequence(Numbers(cols)) /\ (IsInjectiveSeq(cols) => IsInjectiveSeq(Numbers(cols)))
         /\ Elements(Numbers(cols)) = {c \in Elements(cols) : Numeric(c)}
<1> DEFINE S == {c \in Elements(cols) : Numeric(c)}
<1>1. Numbers(cols) = Keep(cols, S) /\ cols \in Seq(Elements(cols))
  BY DEF Numbers, AreColumns, IsSequence
<1> HIDE DEF S
<1>2. /\ Keep(cols, S) \in Seq(Elements(cols))
      /\ IsInjectiveSeq(cols) => IsInjectiveSeq(Keep(cols, S))
  BY <1>1, KeepElements
<1>3. Elements(Keep(cols, S)) = Elements(cols) \cap S
  BY <1>1, KeepElements
<1>4. IsSequence(Keep(cols, S))
  BY <1>2, SequenceOver
<1> QED
  BY <1>1, <1>2, <1>3, <1>4 DEF S

\* What a name resolves to is a column of the table.
LEMMA ResolvedThere ==
  ASSUME NEW t, AreColumns(t.cols), NEW n
  PROVE  Resolve(n, t) \in Names(t.cols) \cup {NoName}
<1> DEFINE S == {c \in Elements(t.cols) : Len(c.name) = 2 /\ c.name[1] = n}
           dummies == Keep(t.cols, S)
<1>1. Resolve(n, t) = IF <<n>> \in Names(t.cols) THEN <<n>>
                      ELSE IF Len(dummies) > 0 THEN dummies[1].name ELSE NoName
  BY DEF Resolve
<1>2. t.cols \in Seq(Elements(t.cols))
  BY DEF AreColumns, IsSequence
<1> HIDE DEF S
<1>3. dummies \in Seq(Elements(t.cols))
  BY <1>2, KeepElements
<1> HIDE DEF dummies
<1>4. Len(dummies) > 0 => dummies[1] \in Elements(t.cols)
  BY <1>3
<1> QED
  BY <1>1, <1>4 DEF Names

\* What is selected is a pair of columns or nothing, in any table.
LEMMA SelectedPair ==
  ASSUME NEW t, AreColumns(t.cols), NEW user, NEW named
  PROVE  SelectPair(user, named, t) \in {<< >>} \cup (Names(t.cols) \X Names(t.cols))
<1> DEFINE numbers == Numbers(t.cols)
<1>1. ASSUME NEW n, NEW m
      PROVE  Pair(n, m, t) \in {<< >>} \cup (Names(t.cols) \X Names(t.cols))
  <2>1. {Resolve(n, t), Resolve(m, t)} \subseteq Names(t.cols) \cup {NoName}
    BY ResolvedThere
  <2> QED
    BY <2>1 DEF Pair
<1>2. IsSequence(numbers) /\ Elements(numbers) = {e \in Elements(t.cols) : Numeric(e)}
  BY NumbersAreColumns
<1>3. ASSUME Len(numbers) >= 2
      PROVE  numbers[1].name \in Names(t.cols) /\ numbers[2].name \in Names(t.cols)
  <2> HIDE DEF numbers
  <2>1. 1 \in DOMAIN numbers /\ 2 \in DOMAIN numbers
    BY <1>2, <1>3, SequenceFacts
  <2>2. numbers[1] \in Elements(numbers) /\ numbers[2] \in Elements(numbers)
    BY <2>1 DEF Elements
  <2> QED
    BY <1>2, <2>2 DEF Names
<1> HIDE DEF numbers
<1>4. \/ \E n, m : SelectPair(user, named, t) = Pair(n, m, t)
      \/ Len(numbers) >= 2 /\ SelectPair(user, named, t) = <<numbers[1].name, numbers[2].name>>
      \/ SelectPair(user, named, t) = << >>
  BY DEF SelectPair, numbers
<1> QED
  BY <1>1, <1>3, <1>4

\* A pair of columns is found in what preprocessing makes of a table that has
\* passed, whatever the user asked for and whoever named the candidates.
THEOREM PairThere ==
  ASSUME NEW t, IsTable(t), WithoutErrors(t), NEW pp, NEW cand, AreCandidates(cand),
         NEW user, NEW named
  PROVE  SelectPair(user, named, Preprocess(t, pp, cand)) # << >>
<1> DEFINE made == Preprocess(t, pp, cand)  numbers == Numbers(made.cols)
           before == Numbers(t.cols)
<1>1. /\ IsSequence(before) /\ IsInjectiveSeq(before)
      /\ Elements(before) = {c \in Elements(t.cols) : Numeric(c)}
  BY TableColumns, NumbersAreColumns
<1>2. PICK c \in Elements(t.cols), d \in Elements(t.cols) : Numeric(c) /\ Numeric(d) /\ c # d
  <2> HIDE DEF before
  <2>1. Len(before) >= 2
    BY GateOpen DEF before
  <2>2. 1 \in DOMAIN before /\ 2 \in DOMAIN before
    BY <1>1, <2>1, SequenceFacts
  <2> QED
    BY <1>1, <2>2 DEF IsInjectiveSeq, Elements
<1> HIDE DEF made
<1>3. /\ AreColumns(made.cols)
      /\ \A e \in Elements(t.cols) :
           Numeric(e) => \E f \in Elements(made.cols) : f.name = e.name /\ Numeric(f)
  BY PreprocessedColumns DEF made
<1>4. PICK x \in Elements(made.cols), y \in Elements(made.cols) : Numeric(x) /\ Numeric(y) /\ x # y
  <2>1. c.name # d.name
    BY <1>2, TableColumns
  <2> QED
    BY <1>2, <1>3, <2>1
<1>5. Len(numbers) >= 2
  <2>1. IsSequence(numbers) /\ Elements(numbers) = {e \in Elements(made.cols) : Numeric(e)}
    BY <1>3, NumbersAreColumns
  <2> HIDE DEF numbers
  <2>2. x \in Elements(numbers) /\ y \in Elements(numbers)
    BY <1>4, <2>1
  <2> QED
    BY <1>4, <2>1, <2>2, TwoElements
<1> HIDE DEF numbers
<1>6. SelectPair(user, named, made) = <<numbers[1].name, numbers[2].name>>
      \/ \E p : SelectPair(user, named, made) = p /\ p # << >>
  BY <1>5 DEF SelectPair, numbers
<1>7. \A a, b : <<a, b>> # << >>
  OBVIOUS
<1> QED
  BY <1>6, <1>7 DEF made

\* The gate lets half of a column be missing and imputation fills up to four
\* fifths (data_quality.py:137, data_preprocessing.py:193): no number that
\* preprocessing leaves lacks anything.
THEOREM PassedIsComplete ==
  ASSUME NEW t, IsTable(t), WithoutErrors(t), NEW pp, pp.impute,
         NEW cand, AreCandidates(cand)
  PROVE  GapsIn(Preprocess(t, pp, cand).cols, {})
<1>1. \A c \in Elements(t.cols) : c.missing \in Nat /\ c.missing <= 5
  BY GateOpen, TableColumns, ColumnFields DEF AreColumns
<1>2. WideGaps(t) = {}
  BY <1>1 DEF WideGaps
<1> QED
  BY <1>2, PreprocessedColumns

\* The candidates of the heuristic.
LEMMA HeuristicCandidates ==
  ASSUME NEW cols, IsSequence(cols)
  PROVE  AreCandidates(Heuristic(cols))
<1>1. ASSUME NEW S, NEW k \in Nat PROVE IsSequence(FirstOf(k, OfFile(cols, S)))
  <2> DEFINE names == [i \in DOMAIN cols |-> cols[i].name[1]]
  <2>1. Len(cols) \in Nat /\ DOMAIN cols = 1..Len(cols)
    BY SequenceFacts
  <2>2. names \in Seq({names[i] : i \in DOMAIN cols})
    BY <2>1
  <2> HIDE DEF names
  <2>3. Keep(names, S) \in Seq({names[i] : i \in DOMAIN cols})
    BY <2>2, KeepElements
  <2>4. OfFile(cols, S) = Keep(names, S)
    BY DEF OfFile, names
  <2> QED
    BY <2>3, <2>4, FirstOfType, SequenceOver
<1>2. \E S, R, Q : Heuristic(cols) = [treatment |-> FirstOf(3, OfFile(cols, S)),
                                     outcome |-> FirstOf(3, OfFile(cols, R)),
                                     confounder |-> FirstOf(5, OfFile(cols, Q))]
  BY DEF Heuristic
<1> QED
  BY <1>1, <1>2 DEF AreCandidates

=============================================================================
