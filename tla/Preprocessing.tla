--------------------------- MODULE Preprocessing ---------------------------
(***************************************************************************)
(* What the agents compute from a table of data: the quality gate          *)
(* (services/data_quality.py), the labels, candidates and preprocessing of *)
(* EDA (agents/eda.py, services/data_preprocessing.py), and how discovery  *)
(* and treatment find their columns in what preprocessing has left         *)
(* (agents/discovery.py, agents/treatment.py).                             *)
(*                                                                         *)
(* A table is a record of its rows, the percentage of duplicate rows and   *)
(* the sequence of its columns. A column keeps what the code tells apart:  *)
(* its name, the kind of its values, how many differ ("unique"), tenths of *)
(* missing ones, the percentage of the rarer value of a two-valued column, *)
(* and whether the values are 0 and 1. Numbers are not followed further:   *)
(* a transformation changes these facts or it changes nothing.             *)
(*                                                                         *)
(* A name is a tuple: <<c>> is column c of the file, <<c, k>> its k-th     *)
(* one-hot column c_value, <<"fe", a, b>> an engineered feature. Columns   *)
(* read as bool are left out: quantile, which EDA takes of every column it *)
(* holds numeric, is not defined for them in every version of pandas.      *)
(***************************************************************************)
EXTENDS Naturals, Sequences, SequencesExt

CONSTANTS
  TreatmentNamed,       \* columns whose name contains "treat"
  OutcomeNamed          \* ... contains outcome, target, label or y

Column(name, kind, unique) ==
  [name |-> name, kind |-> kind, unique |-> unique, missing |-> 0, minor |-> 50,
   zeroOne |-> FALSE]

Elements(s) == {s[i] : i \in DOMAIN s}
Names(cols) == {c.name : c \in Elements(cols)}
Named(cols, n) == CHOOSE c \in Elements(cols) : c.name = n

IsSequence(s) == s \in Seq(Elements(s))

\* A table as it is read: pandas gives columns of one name different ones.
IsTable(t) ==
  /\ t \in [rows : Nat, duplicates : 0..100, cols : Seq(Elements(t.cols))]
  /\ \A c \in Elements(t.cols) :
       c \in [name : {<<c.name[1]>>}, kind : {"number", "string", "date"}, unique : Nat,
             missing : 0..10, minor : 0..50, zeroOne : BOOLEAN]
  /\ \A i, j \in DOMAIN t.cols : t.cols[i].name = t.cols[j].name => i = j

AreCandidates(cand) ==
  IsSequence(cand.treatment) /\ IsSequence(cand.outcome) /\ IsSequence(cand.confounder)

\* select_dtypes(include=[np.number]): one-hot columns are bool.
Numeric(c) == c.kind = "number"

\* The elements of s that are in S, in their order. (SelectSeq has no definition
\* that a proof can unfold.)
Keep(s, S) ==
  LET kept[n \in 0..Len(s)] ==
        IF n = 0 THEN << >>
        ELSE IF s[n] \in S THEN Append(kept[n - 1], s[n]) ELSE kept[n - 1]
  IN kept[Len(s)]

Numbers(cols) == Keep(cols, {c \in Elements(cols) : Numeric(c)})

\* _dtype_label
Label(c) == CASE c.kind = "number" -> "numerical"
              [] c.kind = "date"   -> "datetime"
              [] OTHER -> IF c.unique <= 20 THEN "categorical" ELSE "text"

-----------------------------------------------------------------------------
(* DataQualityValidator *)

Issue(level, metric) == [level |-> level, metric |-> metric]

CheckRowCount(t) ==
  IF t.rows < 100 THEN {Issue("error", "row_count")}
  ELSE {Issue("warning", "row_count") : x \in {y \in {t.rows} : y < 500}}

\* The threshold of the warning is that of the error: it never warns.
CheckMissingValues(t) ==
  {Issue("error", "missing_values") : c \in {d \in Elements(t.cols) : d.missing > 5}}

CheckNumericColumns(t) ==
  LET count == Len(Numbers(t.cols)) IN
  IF count < 2 THEN {Issue("error", "numeric_columns")}
  ELSE {Issue("warning", "numeric_columns") : x \in {y \in {count} : y < 3}}

CheckVariance(t) ==
  {Issue("warning", "variance") :
     c \in {d \in Elements(t.cols) : Numeric(d) /\ d.unique = 1}}

CheckDuplicates(t) ==
  {Issue("warning", "duplicates") : x \in {y \in {t.duplicates} : y > 30}}

CheckClassImbalance(t) ==
  {Issue("warning", "class_imbalance") :
     c \in {d \in Elements(t.cols) : d.unique = 2 /\ d.minor < 5}}

Issues(t) == UNION {CheckRowCount(t), CheckMissingValues(t), CheckNumericColumns(t),
                    CheckVariance(t), CheckDuplicates(t), CheckClassImbalance(t)}

WithoutErrors(t) == \A i \in Issues(t) : i.level = "warning"

\* Mutant: an override lets errors pass as well.
PassesOverridden(t, override) ==
  override \/ \A i \in Issues(t) : i.metric \in {"variance", "duplicates"}

\* EDA goes on: no error, and no warning that blocks unless it is overridden.
Passes(t, override) ==
  /\ WithoutErrors(t)
  /\ override \/ \A i \in Issues(t) : i.metric \in {"variance", "duplicates"}

-----------------------------------------------------------------------------
(* Candidates: _heuristic_candidates and the answer of the LLM *)

FirstOf(k, s) == SubSeq(s, 1, IF Len(s) < k THEN Len(s) ELSE k)

OfFile(cols, S) == Keep([i \in DOMAIN cols |-> cols[i].name[1]], S)

Heuristic(cols) ==
  LET treatments == {c.name[1] : c \in {d \in Elements(cols) :
                                          d.name[1] \in TreatmentNamed \/ d.unique = 2}}
      others == {c.name[1] : c \in Elements(cols)} \ treatments
  IN [treatment |-> FirstOf(3, OfFile(cols, treatments)),
      outcome |-> FirstOf(3, OfFile(cols, OutcomeNamed)),
      confounder |-> FirstOf(5, OfFile(cols, others))]

-----------------------------------------------------------------------------
(* DataPreprocessor. pp is its configuration; the categories of the columns *)
(* are those of the original table (columns_info).                          *)

\* _impute_missing. The mean is a value of its own.
Imputed(c) ==
  IF c.missing = 0 \/ c.missing > 8 \/ Label(c) \notin {"numerical", "categorical"}
    THEN c
    ELSE [c EXCEPT !.missing = 0,
                   !.unique = IF Numeric(c) /\ @ > 1 THEN @ + 1 ELSE @,
                   !.zeroOne = FALSE]

\* _handle_outliers: a value held by less than a quarter of the rows lies
\* outside quartiles that coincide, and is clipped to the other; a share of less
\* than a tenth lies beyond three standard deviations, and is moved.
Clipped(c, method) ==
  IF ~Numeric(c) \/ c.unique # 2 THEN c
  ELSE CASE method = "iqr" /\ c.minor < 25    -> [c EXCEPT !.unique = 1]
         [] method = "zscore" /\ c.minor < 10 -> [c EXCEPT !.zeroOne = FALSE]
         [] OTHER -> c

\* _encode_categorical: one-hot for few values unless another encoding is asked
\* for. Text has more than twenty values, so it is never one-hot.
OneHot(c, strategy) == strategy \in {"auto", "onehot"} /\ c.unique <= 10

\* Frequency, target and ordinal encoding put a number for a missing value.
AsNumber(c) == [c EXCEPT !.kind = "number", !.missing = 0]

\* get_dummies(drop_first=True)
Dummies(c) ==
  [k \in 1..(IF c.unique = 0 THEN 0 ELSE c.unique - 1) |->
     [Column(<<c.name[1], k + 1>>, "bool", 2) EXCEPT !.zeroOne = TRUE]]

Encoded(cols, strategy, outcomes) ==
  LET Todo(c) == /\ Label(c) \in {"categorical", "text"}
                 /\ c.name[1] \notin Elements(outcomes)
      Code(c) == IF Todo(c) THEN AsNumber(c) ELSE c
      Hot  == {c \in Elements(cols) : Todo(c) /\ OneHot(c, strategy)}
      kept == Keep(cols, Elements(cols) \ Hot)
      hot  == Keep(cols, Hot)
  IN [i \in DOMAIN kept |-> Code(kept[i])]
       \o FlattenSeq([i \in DOMAIN hot |-> Dummies(hot[i])])

LargerOf(m, n) == IF m > n THEN m ELSE n

\* _engineer_features without the quartile bins of skewed columns: products of
\* each treatment with the first three numeric columns that are no candidate,
\* and squares of the numeric candidates.
Engineered(cols, original, cand) ==
  LET numeric == Numbers(original)
      candidates == Elements(cand.treatment) \cup Elements(cand.outcome)
      confounders == FirstOf(3, Keep(numeric, {c \in Elements(numeric) :
                                                 c.name[1] \notin candidates}))
      present == Keep(cand.treatment, {n \in candidates : <<n>> \in Names(cols)})
      Product(n, c) ==
        LET a == Named(cols, <<n>>)  b == Named(cols, c.name) IN
        [Column(<<"fe", n, c.name[1]>>, a.kind, LargerOf(a.unique, b.unique))
           EXCEPT !.missing = LargerOf(a.missing, b.missing)]
      squares == Keep(cand.treatment \o cand.outcome,
                      {n \in candidates : \E c \in Elements(numeric) : c.name = <<n>>})
      Square(n) == LET a == Named(cols, <<n>>) IN
        [a EXCEPT !.name = <<"fe", n, "squared">>]
      products == FlattenSeq([i \in DOMAIN present |->
                    [j \in DOMAIN confounders |-> Product(present[i], confounders[j])]])
      both == products \o [i \in DOMAIN squares |-> Square(squares[i])]
      first == Keep([i \in DOMAIN both |-> i],
                    {i \in DOMAIN both : \A j \in 1..(i - 1) : both[j].name # both[i].name})
  IN cols \o [k \in DOMAIN first |-> both[first[k]]]

\* _scale_numeric leaves constants and columns of 0 and 1 alone.
Scaled(c) ==
  IF Numeric(c) /\ c.unique > 1 /\ ~(c.unique = 2 /\ c.zeroOne)
    THEN [c EXCEPT !.zeroOne = FALSE] ELSE c

\* preprocess
Preprocess(t, pp, cand) ==
  LET imputed  == IF pp.impute THEN [i \in DOMAIN t.cols |-> Imputed(t.cols[i])] ELSE t.cols
      clipped  == IF pp.outliers = "off" THEN imputed
                  ELSE [i \in DOMAIN imputed |-> Clipped(imputed[i], pp.outliers)]
      encoded  == IF pp.encoding = "off" THEN clipped
                  ELSE Encoded(clipped, pp.encoding, cand.outcome)
      engineered == IF pp.engineer THEN Engineered(encoded, t.cols, cand) ELSE encoded
  IN [t EXCEPT !.cols = IF pp.scale THEN [i \in DOMAIN engineered |-> Scaled(engineered[i])]
                         ELSE engineered]

-----------------------------------------------------------------------------
(* Discovery: _prepare_matrix *)

\* The variables of a graph: columns that vary, and other columns than numbers
\* only with up to twenty values.
Variables(t) ==
  {c.name : c \in {d \in Elements(t.cols) : d.unique > 1 /\ (Numeric(d) \/ d.unique <= 20)}}

-----------------------------------------------------------------------------
(* Treatment: _resolve_column_name, _select_pairs, _confounders_from_state *)

NoName == << >>

Resolve(n, t) ==
  LET dummies == Keep(t.cols, {c \in Elements(t.cols) : Len(c.name) = 2 /\ c.name[1] = n}) IN
  IF <<n>> \in Names(t.cols) THEN <<n>>
  ELSE IF Len(dummies) > 0 THEN dummies[1].name ELSE NoName

\* A pair of two columns of t, or the empty sequence.
Pair(n, m, t) ==
  LET a == Resolve(n, t)  b == Resolve(m, t) IN
  IF a # NoName /\ b # NoName /\ a # b THEN <<a, b>> ELSE << >>

\* The user's pair, or the first candidates, or the first two numeric columns.
SelectPair(user, cand, t) ==
  LET asked == IF user = << >> THEN << >> ELSE Pair(user[1], user[2], t)
      found == IF cand.treatment = << >> \/ cand.outcome = << >> THEN << >>
               ELSE Pair(cand.treatment[1], cand.outcome[1], t)
      numbers == Numbers(t.cols)
  IN IF asked # << >> THEN asked
     ELSE IF found # << >> THEN found
     ELSE IF Len(numbers) >= 2 THEN <<numbers[1].name, numbers[2].name>> ELSE << >>

\* Names of the file, not resolved: those that preprocessing dropped stay.
Confounders(cand, pair) == {<<n>> : n \in Elements(cand.confounder)} \ Elements(pair)

=============================================================================
