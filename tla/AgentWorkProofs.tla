-------------------------- MODULE AgentWorkProofs --------------------------
(***************************************************************************)
(* Proofs about AgentWork, for any analyses, tables of any size, any       *)
(* answers of the LLM, any set of disks and any number of attempts and     *)
(* failures. What the steps compute from a table is in                     *)
(* PreprocessingProofs.                                                    *)
(***************************************************************************)
EXTENDS AgentWork, PreprocessingProofs, FiniteSetTheorems, TLAPS

\* Where the rows are when a step needs them, and the understanding is written
\* once.
RowsThere ==
  /\ hasDataset \/ understanding # None => dataset # None
  /\ pc \in {"fetch", "raw", "register"} => dataset = None
  /\ pc \in {"quality", "explore", "write", "metadata", "understand"} =>
       dataset # None /\ understanding = None
  /\ known # None => known = understanding
  /\ pc \in {"write", "metadata", "understand"} => draft # None
  /\ pc \in {"write", "metadata"} => request.prep
  /\ pc = "retry" => attempt < MaxAttempts

\* What is left to do, and what has been done, is of the stage.
TasksTyped ==
  /\ pc = "search" => todo \in Seq(Elements(Tools))
  /\ pc = "estimate" => todo \in Seq(Elements(Methods) \cup Analyses)
  /\ done \subseteq Elements(Methods)
  /\ pc \notin {"estimate", "retry", "over"} => done = {}

\* disabled_until is set when the threshold is reached.
KaggleSound == \A d \in Disks : kaggle[d].until = "unset" => kaggle[d].failures < Threshold

\* A preprocessed file was made of a table without errors, unless the gate did
\* not judge it; it is the own one when the paths say so.
FilesSound ==
  /\ pc \in {"explore", "write", "metadata", "understand"} =>
       ungated \/ WithoutErrors(request.table)
  /\ dataset # None =>
       /\ dataset.path # "none" => ungated \/ WithoutErrors(request.table)
       /\ dataset.path = "own" => request.prep
       /\ dataset.path = "own" /\ dataset.copy => remote # None
       /\ request.prep /\ (understanding # None \/ pc = "understand") => dataset.path = "own"
  /\ pc = "metadata" /\ stored => remote # None

\* What a stage reads is the file that the row names.
ReadingSound ==
  /\ pc \in {"search", "estimate"} => reading # Unread
  /\ reading # Unread =>
       /\ pc \in {"search", "estimate", "retry", "over"}
       /\ dataset # None /\ dataset.path # "none" /\ reading.owner = dataset.path
       /\ reading.by \in Origins

\* Files made with the candidates that by names, on any disk and in the bucket.
MadeBy(by) == \A d \in Disks : local[d] \in {None, by}

\* As long as no other disk had a file when EDA wrote one, the files are those of
\* the understanding that is stored or about to be.
FilesDescribed ==
  Cardinality(wrote) <= 1 =>
    /\ pc = "metadata" => MadeBy(draft) /\ (stored => remote = draft)
    /\ pc = "understand" /\ dataset.path = "own" =>
         MadeBy(draft) /\ (dataset.copy => remote = draft)
    /\ understanding # None /\ dataset.path = "own" =>
         MadeBy(understanding) /\ (dataset.copy => remote = understanding)

\* What the results of this attempt stand beside.
GraphsBeside == \A g \in graphs : g.consensus => [g EXCEPT !.consensus = FALSE] \in graphs

EffectsBeside ==
  /\ IsFiniteSet(effects)
  /\ \A m \in done : \E e \in effects : e.method = m
  /\ \A e \in effects : e.method = "ensemble" =>
       \E x, y \in effects : /\ x.method # "ensemble" /\ y.method # "ensemble"
                             /\ x.method # y.method

\* How far the reports of this attempt have come.
ReportsBeside ==
  /\ reports # {} => \A k \in Kinds : Report("json", k) \in reports
  /\ pc \in Working \ {"html", "markdown", "pdf", "pptx"} => reports = {}
  /\ pc \in {"html", "markdown", "pdf", "pptx"} => reports # {}
  /\ pc \in {"markdown", "pdf", "pptx"} \/ (pc = "end" /\ ~errors) =>
       Report("html", "technical") \in reports

IInv ==
  /\ TypeOK /\ RowsThere /\ TasksTyped /\ KaggleSound /\ FilesSound /\ ReadingSound
  /\ FilesDescribed /\ UnderstandingDescribesData
  /\ GraphsBeside /\ EffectsBeside /\ ReportsBeside


-----------------------------------------------------------------------------
(* The request and the table of an analysis *)

LEMMA RequestTyped ==
  ASSUME job \in Jobs
  PROVE  /\ IsTable(request.table)
         /\ request.prep \in BOOLEAN /\ request.override \in BOOLEAN
         /\ request.bucket \in BOOLEAN
         /\ request.wanted \in SUBSET {"discovery", "treatment"}
BY AgentWorkAssumption DEF request

LEMMA RequestStays ==
  ASSUME job' = job
  PROVE  request' = request /\ (WithoutErrors(request.table))' = WithoutErrors(request.table)
BY DEF request, WithoutErrors

LEMMA CandidatesTyped ==
  ASSUME NEW j \in Jobs, NEW by \in Origins
  PROVE  AreCandidates(Candidates[j][by])
<1>1. Candidates[j][by] = IF by = "heuristic" THEN Heuristic(Asked[j].table.cols) ELSE LlmAnswers[by]
  BY DEF Candidates
<1>2. IsSequence(Asked[j].table.cols)
  BY AgentWorkAssumption, TableColumns DEF AreColumns
<1>3. by # "heuristic" => AreCandidates(LlmAnswers[by])
  BY AgentWorkAssumption DEF Origins
<1> QED
  BY <1>1, <1>2, <1>3, HeuristicCandidates

\* What discovery and treatment have loaded. Of a table that the gate has judged
\* it has no gaps in its numbers, and a pair.
LEMMA TableFacts ==
  ASSUME IInv, reading # Unread
  PROVE  /\ request.pp.impute => GapsIn(Table.cols, WideGaps(request.table))
         /\ request.pp.impute /\ ~ungated => GapsIn(Table.cols, {})
         /\ ThePair \in {<< >>} \cup (Names(Table.cols) \X Names(Table.cols))
         /\ ~ungated => ThePair # << >>
<1>1. job \in Jobs /\ reading.by \in Origins /\ (ungated \/ WithoutErrors(request.table))
  BY DEF IInv, TypeOK, ReadingSound, FilesSound
<1>2. IsTable(request.table) /\ AreCandidates(Candidates[job][reading.by])
  BY <1>1, RequestTyped, CandidatesTyped
<1> DEFINE made == Preprocess(request.table, request.pp, Candidates[job][reading.by])
<1>3. Table = made
  BY <1>1 DEF Table, Preprocessed, request
<1>4. AreColumns(made.cols) /\ (request.pp.impute => GapsIn(made.cols, WideGaps(request.table)))
  BY <1>2, PreprocessedColumns
<1>5. request.pp.impute /\ ~ungated => GapsIn(made.cols, {})
  BY <1>1, <1>2, PassedIsComplete
<1>6. ~ungated => SelectPair(request.pair, StateCandidates, made) # << >>
  BY <1>1, <1>2, PairThere
<1> HIDE DEF made
<1>7. SelectPair(request.pair, StateCandidates, made)
        \in {<< >>} \cup (Names(made.cols) \X Names(made.cols))
  BY <1>4, SelectedPair
<1> QED
  BY <1>3, <1>4, <1>5, <1>6, <1>7 DEF ThePair

LEMMA KeptTools ==
  ASSUME NEW S
  PROVE  Keep(Tools, S) \in Seq(Elements(Tools))
BY AgentWorkAssumption, KeepElements DEF IsSequence

LEMMA KeptMethods ==
  ASSUME NEW S
  PROVE  Keep(Methods, S) \o Besides \in Seq(Elements(Methods) \cup Analyses)
<1> DEFINE asked == <<"mediation", "heterogeneous", "time_varying">>
           all == Elements(Methods) \cup Analyses
<1>1. Methods \in Seq(Elements(Methods))
  BY DEF Methods, Elements
<1>2. asked \in Seq(Analyses)
  BY DEF Analyses
<1>3. \E R : Besides = Keep(asked, R)
  BY DEF Besides
<1> HIDE DEF asked
<1>4. Keep(Methods, S) \in Seq(Elements(Methods)) /\ Besides \in Seq(Analyses)
  BY <1>1, <1>2, <1>3, KeepElements
<1>5. Elements(Methods) \subseteq all /\ Analyses \subseteq all
  OBVIOUS
<1> HIDE DEF all
<1>6. Keep(Methods, S) \in Seq(all) /\ Besides \in Seq(all)
  BY <1>4, <1>5, SeqMonotone
<1> QED
  BY <1>6 DEF all

LEMMA MethodNames == Elements(Methods) = {"psm", "dr", "iv"}
BY DEF Methods, Elements

-----------------------------------------------------------------------------
(* Two elements and cardinality *)

LEMMA TwoIn ==
  ASSUME NEW S, IsFiniteSet(S)
  PROVE  /\ Cardinality(S) >= 2 => \E x, y \in S : x # y
         /\ (\E x, y \in S : x # y) => Cardinality(S) >= 2
<1>1. Cardinality(S) \in Nat
  BY FS_CardinalityType
<1>2. ASSUME Cardinality(S) >= 2 PROVE \E x, y \in S : x # y
  <2>1. S # {}
    BY <1>2, FS_EmptySet
  <2>2. PICK x \in S : TRUE
    BY <2>1
  <2>3. S # {x}
    BY <1>2, FS_Singleton
  <2> QED
    BY <2>2, <2>3
<1>3. ASSUME NEW x \in S, NEW y \in S, x # y PROVE Cardinality(S) >= 2
  <2>1. {x, y} \subseteq S /\ Cardinality({x, y}) = 2 /\ IsFiniteSet({x, y})
    <3>1. IsFiniteSet({x}) /\ Cardinality({x}) = 1
      BY FS_Singleton
    <3>2. Cardinality({x} \cup {y}) = 2 /\ IsFiniteSet({x} \cup {y})
      BY <1>3, <3>1, FS_AddElement
    <3>3. {x} \cup {y} = {x, y}
      OBVIOUS
    <3> QED
      BY <3>2, <3>3
  <2> QED
    BY <1>1, <2>1, FS_Subset
<1> QED
  BY <1>2, <1>3

-----------------------------------------------------------------------------
(* The stages *)

LEMMA Stages ==
  /\ \A w : After("download", w) = "eda"
  /\ \A w : After("eda", w) \in {"discovery", "treatment", "reporting"}
  /\ \A w : After("discovery", w) \in {"treatment", "reporting"}
  /\ \A w : After("treatment", w) = "validation" /\ After("validation", w) = "reporting"
  /\ \A w : After("reporting", w) = "end"
BY DEF After

\* Where a stage that fails goes on.
LEMMA FailLeads ==
  ASSUME pc \in Working, Fail
  PROVE  /\ pc' \in {"eda", "discovery", "treatment", "validation", "reporting", "end"}
         /\ pc \in {"reporting"} \cup Formats => pc' = "end"
<1>1. CASE pc \in {"download", "fetch", "raw", "register"}
  BY <1>1, Stages DEF Fail, StageOf, Formats
<1>2. CASE pc \in {"eda", "quality", "explore", "write", "metadata", "understand"}
  BY <1>2, Stages DEF Fail, StageOf, Formats
<1>3. CASE pc \in {"discovery", "search"}
  BY <1>3, Stages DEF Fail, StageOf, Formats
<1>4. CASE pc \in {"treatment", "estimate"}
  BY <1>4, Stages DEF Fail, StageOf, Formats
<1>5. CASE pc = "validation"
  BY <1>5, Stages DEF Fail, StageOf, Formats
<1>6. CASE pc \in {"reporting"} \cup Formats
  BY <1>6, Stages DEF Fail, StageOf, Formats
<1> QED
  BY <1>1, <1>2, <1>3, <1>4, <1>5, <1>6 DEF Working

\* The invariant holds of an analysis that begins.
LEMMA InitInv == Init => IInv
<1> SUFFICES ASSUME Init PROVE IInv
  OBVIOUS
<1>1. wanted \in SUBSET {"discovery", "treatment"}
  BY RequestTyped DEF Init
<1>2. TypeOK
  <2>1. attempt \in 1..MaxAttempts /\ faults \in 0..MaxFaults
    BY AgentWorkAssumption DEF Init
  <2>2. local \in [Disks -> Origins \cup {None}] /\ kaggle \in [Disks -> Circuits]
    BY ThresholdAssumption DEF Init, Closed, Circuits
  <2>3. reading \in Source
    BY DEF Init, Unread, Source, Paths
  <2> QED
    BY <1>1, <2>1, <2>2, <2>3 DEF Init, TypeOK, Working
<1>3. RowsThere /\ TasksTyped /\ KaggleSound
  BY ThresholdAssumption DEF Init, RowsThere, TasksTyped, KaggleSound, Closed
<1>4. FilesSound /\ ReadingSound /\ FilesDescribed /\ UnderstandingDescribesData
  BY DEF Init, FilesSound, ReadingSound, FilesDescribed, UnderstandingDescribesData
<1>5. GraphsBeside /\ EffectsBeside /\ ReportsBeside
  BY FS_EmptySet DEF Init, GraphsBeside, EffectsBeside, ReportsBeside
<1> QED
  BY <1>2, <1>3, <1>4, <1>5 DEF IInv

-----------------------------------------------------------------------------
(* A stage that fails *)

LEMMA FailInv ==
  ASSUME IInv, pc \in Working, Fail, faults' \in 0..MaxFaults,
         kaggle' \in [Disks -> Circuits], KaggleSound',
         UNCHANGED <<job, attempt, dataset, understanding, disk, local, remote, otherLocal,
                     wrote, ungated, results>>
  PROVE  IInv'
<1>1. /\ pc' \in {"eda", "discovery", "treatment", "validation", "reporting", "end"}
      /\ pc \in {"reporting"} \cup Formats => pc' = "end"
  BY FailLeads
<1>2. /\ errors' = TRUE /\ draft' = None /\ stored' = FALSE /\ reading' = Unread
      /\ todo' = << >> /\ done' = {}
      /\ UNCHANGED <<hasDataset, known, wanted>>
  BY DEF Fail
<1>3. TypeOK'
  BY <1>1, <1>2 DEF IInv, TypeOK, results, Working, Unread, Source, Paths
<1>4. RowsThere' /\ TasksTyped'
  BY <1>1, <1>2 DEF IInv, RowsThere, TasksTyped
<1>5. FilesSound' /\ ReadingSound'
  BY <1>1, <1>2, RequestStays DEF IInv, FilesSound, ReadingSound
<1>6. FilesDescribed' /\ UnderstandingDescribesData'
  BY <1>1, <1>2 DEF IInv, FilesDescribed, MadeBy, UnderstandingDescribesData, Unread
<1>7. GraphsBeside' /\ EffectsBeside'
  BY <1>2 DEF IInv, GraphsBeside, EffectsBeside, results
<1>8. ReportsBeside'
  BY <1>1, <1>2 DEF IInv, ReportsBeside, results, Working, Formats
<1> QED
  BY <1>3, <1>4, <1>5, <1>6, <1>7, <1>8 DEF IInv

\* A circuit below the threshold, or with a time set, stays one.
Sound(c) == c \in Circuits /\ (c.until = "unset" => c.failures < Threshold)

LEMMA CircuitStays ==
  ASSUME NEW c, Sound(c)
  PROVE  /\ Sound(Closed) /\ Sound(Checked(c)) /\ Sound(RecordSuccess(Checked(c)))
         /\ IsAvailable(c) => Sound(RecordFailure(Checked(c)))
         /\ Sound(Expire(c))
<1>1. Sound(Closed)
  BY ThresholdAssumption DEF Closed, Sound, Circuits
<1>2. Sound(Checked(c)) /\ Sound(RecordSuccess(Checked(c)))
  BY <1>1 DEF Checked, RecordSuccess
<1>3. ASSUME IsAvailable(c) PROVE Sound(RecordFailure(Checked(c)))
  <2>1. Sound(Checked(c)) /\ Checked(c).until = "unset"
    BY <1>1, <1>3 DEF Checked, IsAvailable, Sound, Circuits, Closed
  <2>2. Checked(c).failures \in 0..(Threshold - 1) /\ Threshold \in Nat
    BY <2>1, ThresholdAssumption DEF Sound, Circuits
  <2> QED
    BY <2>1, <2>2 DEF RecordFailure, Sound, Circuits
<1>4. Sound(Expire(c))
  BY DEF Expire, Sound, Circuits
<1> QED
  BY <1>1, <1>2, <1>3, <1>4

LEMMA KaggleStays ==
  ASSUME IInv, NEW d \in Disks, NEW c, Sound(c), kaggle' = [kaggle EXCEPT ![d] = c]
  PROVE  kaggle' \in [Disks -> Circuits] /\ KaggleSound'
BY DEF IInv, TypeOK, KaggleSound, Sound

\* The steps in which a stage fails.
LEMMA FailuresInv ==
  ASSUME IInv,
         \/ DownloadFails \/ DownloadRefused \/ LoadRawFails \/ QualityFails
         \/ LoadForDiscoveryFails \/ LoadForTreatmentFails \/ NoVariables \/ EstimateRaises
         \/ ValidationFails \/ StageFails
  PROVE  IInv'
<1>1. faults \in Nat /\ faults <= MaxFaults /\ MaxFaults \in Nat /\ disk \in Disks
  BY AgentWorkAssumption DEF IInv, TypeOK
<1>2. kaggle \in [Disks -> Circuits] /\ KaggleSound /\ \A d \in Disks : Sound(kaggle[d])
  BY DEF IInv, TypeOK, KaggleSound, Sound
<1>3. UNCHANGED kaggle => kaggle' \in [Disks -> Circuits] /\ KaggleSound'
  BY <1>2 DEF KaggleSound
<1>4. UNCHANGED faults \/ Fault => faults' \in 0..MaxFaults
  BY <1>1 DEF Fault
<1>5. CASE DownloadFails
  <2>1. PICK c : /\ c \in {Checked(kaggle[disk]), RecordFailure(Checked(kaggle[disk]))}
                 /\ kaggle' = [kaggle EXCEPT ![disk] = c]
    BY <1>5 DEF DownloadFails
  <2>2. Sound(c)
    BY <1>1, <1>2, <1>5, <2>1, CircuitStays DEF DownloadFails
  <2>3. kaggle' \in [Disks -> Circuits] /\ KaggleSound'
    BY <1>1, <2>1, <2>2, KaggleStays
  <2>4. pc \in Working
    BY <1>5 DEF DownloadFails, Working
  <2> QED
    BY <1>4, <1>5, <2>3, <2>4, FailInv DEF DownloadFails
<1>6. CASE \/ DownloadRefused \/ LoadRawFails \/ QualityFails
           \/ LoadForDiscoveryFails \/ LoadForTreatmentFails \/ NoVariables \/ EstimateRaises
           \/ ValidationFails \/ StageFails
  <2>1. pc \in Working
    BY <1>6 DEF DownloadRefused, LoadRawFails, QualityFails, LoadForDiscoveryFails,
                LoadForTreatmentFails, NoVariables, EstimateRaises, ValidationFails,
                StageFails, Working
  <2>2. /\ Fail /\ (UNCHANGED faults \/ Fault)
        /\ UNCHANGED <<job, attempt, dataset, understanding, files, results>>
    BY <1>6 DEF DownloadRefused, LoadRawFails, QualityFails, LoadForDiscoveryFails,
                LoadForTreatmentFails, NotFound, NoVariables, EstimateRaises, ValidationFails,
                StageFails
  <2> QED
    BY <1>3, <1>4, <2>1, <2>2, FailInv DEF files
<1> QED
  BY <1>5, <1>6

-----------------------------------------------------------------------------
(* Attempts *)

\* No row is the value that stands for none.
LEMMA RowsAreRows == \A r \in DatasetRows : r # None
BY AgentWorkAssumption

LEMMA InterruptInv ==
  ASSUME IInv, Interrupt
  PROVE  IInv'
<1>1. /\ pc' \in {"retry", "over"} /\ (pc' = "retry" => attempt < MaxAttempts)
      /\ faults' \in 0..MaxFaults
      /\ UNCHANGED <<job, attempt, state, dataset, understanding, files, results>>
  BY AgentWorkAssumption DEF Interrupt, Fault, IInv, TypeOK
<1>2. TypeOK'
  BY <1>1 DEF IInv, TypeOK, state, files, results
<1>3. RowsThere' /\ TasksTyped' /\ KaggleSound'
  BY <1>1 DEF IInv, RowsThere, TasksTyped, KaggleSound, state, files
<1>4. FilesSound' /\ ReadingSound'
  BY <1>1, RequestStays DEF IInv, FilesSound, ReadingSound, state, files
<1>5. FilesDescribed' /\ UnderstandingDescribesData'
  BY <1>1 DEF IInv, FilesDescribed, MadeBy, UnderstandingDescribesData, state, files
<1>6. GraphsBeside' /\ EffectsBeside'
  BY <1>1 DEF IInv, GraphsBeside, EffectsBeside, state, results
<1>7. ReportsBeside'
  BY <1>1 DEF IInv, ReportsBeside, results, Working, Formats
<1> QED
  BY <1>2, <1>3, <1>4, <1>5, <1>6, <1>7 DEF IInv

LEMMA RetryInv ==
  ASSUME IInv, Retry
  PROVE  IInv'
<1>1. /\ pc = "retry" /\ pc' = "download" /\ attempt' = attempt + 1 /\ disk' \in Disks /\ Fresh
      /\ graphs' = {} /\ effects' = {} /\ reports' = {}
      /\ UNCHANGED <<job, faults, dataset, understanding, local, remote, otherLocal, wrote,
                     kaggle, ungated>>
  BY DEF Retry
<1>2. attempt' \in 1..MaxAttempts
  BY <1>1, AgentWorkAssumption DEF IInv, TypeOK, RowsThere
<1>3. wanted' \in SUBSET {"discovery", "treatment"}
  BY <1>1, RequestTyped DEF IInv, TypeOK, Fresh
<1>4. TypeOK'
  BY <1>1, <1>2, <1>3 DEF IInv, TypeOK, Fresh, Working, Unread, Source, Paths
<1>5. RowsThere' /\ TasksTyped' /\ KaggleSound'
  BY <1>1 DEF IInv, RowsThere, TasksTyped, KaggleSound, Fresh
<1>6. FilesSound' /\ ReadingSound'
  BY <1>1, RequestStays DEF IInv, FilesSound, ReadingSound, Fresh
<1>7. FilesDescribed' /\ UnderstandingDescribesData'
  BY <1>1 DEF IInv, FilesDescribed, MadeBy, UnderstandingDescribesData, Fresh, Unread
<1>8. GraphsBeside' /\ EffectsBeside' /\ ReportsBeside'
  BY <1>1, FS_EmptySet DEF GraphsBeside, EffectsBeside, ReportsBeside, Fresh
<1> QED
  BY <1>4, <1>5, <1>6, <1>7, <1>8 DEF IInv

LEMMA FinishInv ==
  ASSUME IInv, Finish
  PROVE  IInv'
<1>1. /\ pc = "end" /\ pc' = "over"
      /\ UNCHANGED <<job, attempt, faults, state, dataset, understanding, files, results>>
  BY DEF Finish
<1>2. TypeOK'
  BY <1>1 DEF IInv, TypeOK, state, files, results
<1>3. RowsThere' /\ TasksTyped' /\ KaggleSound'
  BY <1>1 DEF IInv, RowsThere, TasksTyped, KaggleSound, state, files
<1>4. FilesSound' /\ ReadingSound'
  BY <1>1, RequestStays DEF IInv, FilesSound, ReadingSound, state, files
<1>5. FilesDescribed' /\ UnderstandingDescribesData'
  BY <1>1 DEF IInv, FilesDescribed, MadeBy, UnderstandingDescribesData, state, files
<1>6. GraphsBeside' /\ EffectsBeside' /\ ReportsBeside'
  BY <1>1 DEF IInv, GraphsBeside, EffectsBeside, ReportsBeside, state, results, Working, Formats
<1> QED
  BY <1>2, <1>3, <1>4, <1>5, <1>6 DEF IInv

-----------------------------------------------------------------------------
(* Data acquisition *)

LEMMA LookupInv ==
  ASSUME IInv, Lookup
  PROVE  IInv'
<1>1. /\ pc = "download" /\ pc' \in {"eda", "fetch"}
      /\ UNCHANGED <<job, attempt, faults, errors, known, wanted, draft, stored, reading, todo,
                     done, understanding, disk, local, remote, wrote, kaggle, results>>
  BY DEF Lookup
<1>2. \/ /\ dataset # None /\ dataset' = dataset /\ otherLocal' = otherLocal
         /\ ungated' = ungated /\ hasDataset' = TRUE /\ pc' = "eda"
      \/ /\ dataset = None /\ dataset' \in DatasetRows /\ otherLocal' \in SUBSET Disks
         /\ ungated' \in BOOLEAN /\ dataset'.path \in {"none", "other"}
         /\ dataset'.path = "other" => ungated' \/ WithoutErrors(request.table)
         /\ hasDataset' = TRUE /\ pc' = "eda"
      \/ /\ dataset = None /\ pc' = "fetch" /\ UNCHANGED <<dataset, hasDataset, otherLocal, ungated>>
  <2>1. CASE dataset # None
    BY <2>1 DEF Lookup
  <2>2. CASE dataset = None /\ pc' = "fetch"
    BY <2>2 DEF Lookup
  <2>3. CASE dataset = None /\ pc' = "eda"
    <3>1. hasDataset' = TRUE
      BY <2>3 DEF Lookup
    <3>2. \/ /\ dataset' = [path |-> "none", copy |-> FALSE, raw |-> TRUE]
             /\ otherLocal' = otherLocal /\ ungated' = ungated
          \/ /\ \E c \in BOOLEAN : dataset' = [path |-> "other", copy |-> c, raw |-> TRUE]
             /\ otherLocal' \in {{}, Disks}
             /\ ungated' = (ungated \/ ~WithoutErrors(request.table))
      BY <2>3 DEF Lookup
    <3>3. otherLocal' \in SUBSET Disks /\ ungated' \in BOOLEAN
      BY <3>2 DEF IInv, TypeOK
    <3>4. CASE dataset' = [path |-> "none", copy |-> FALSE, raw |-> TRUE]
      BY <2>3, <3>1, <3>3, <3>4 DEF DatasetRows, Paths
    <3>5. ASSUME NEW c \in BOOLEAN, dataset' = [path |-> "other", copy |-> c, raw |-> TRUE]
          PROVE  dataset' \in DatasetRows /\ dataset'.path = "other"
      BY <3>5 DEF DatasetRows, Paths
    <3>6. dataset'.path = "other" => ungated' \/ WithoutErrors(request.table)
      <4>1. CASE dataset' = [path |-> "none", copy |-> FALSE, raw |-> TRUE]
        BY <4>1
      <4>2. CASE ungated' = (ungated \/ ~WithoutErrors(request.table))
        BY <4>2, Zenon
      <4> QED
        BY <3>2, <4>1, <4>2
    <3> QED
      BY <2>3, <3>1, <3>2, <3>3, <3>4, <3>5, <3>6
  <2> QED
    BY <1>1, <2>1, <2>2, <2>3
<1>3. TypeOK'
  BY <1>1, <1>2 DEF IInv, TypeOK, results, Working
<1>4. RowsThere' /\ TasksTyped' /\ KaggleSound'
  BY <1>1, <1>2, RowsAreRows DEF IInv, RowsThere, TasksTyped, KaggleSound
<1>5. FilesSound' /\ ReadingSound'
  BY <1>1, <1>2, RowsAreRows, RequestStays DEF IInv, FilesSound, ReadingSound, RowsThere
<1>6. FilesDescribed' /\ UnderstandingDescribesData'
  BY <1>1, <1>2 DEF IInv, FilesDescribed, MadeBy, UnderstandingDescribesData, RowsThere
<1>7. GraphsBeside' /\ EffectsBeside' /\ ReportsBeside'
  BY <1>1 DEF IInv, GraphsBeside, EffectsBeside, ReportsBeside, results, Working, Formats
<1> QED
  BY <1>3, <1>4, <1>5, <1>6, <1>7 DEF IInv

LEMMA DownloadInv ==
  ASSUME IInv, Download
  PROVE  IInv'
<1>1. /\ pc = "fetch" /\ pc' = "raw"
      /\ UNCHANGED <<job, attempt, faults, state, dataset, understanding, disk, local, remote,
                     otherLocal, wrote, ungated, results>>
  BY DEF Download
<1>2. kaggle' \in [Disks -> Circuits] /\ KaggleSound'
  <2>1. disk \in Disks /\ Sound(kaggle[disk])
    BY DEF IInv, TypeOK, KaggleSound, Sound
  <2>2. kaggle' = [kaggle EXCEPT ![disk] = RecordSuccess(Checked(kaggle[disk]))]
    BY DEF Download
  <2> QED
    BY <2>1, <2>2, CircuitStays, KaggleStays
<1>3. TypeOK'
  BY <1>1, <1>2 DEF IInv, TypeOK, state, results, Working
<1>4. RowsThere' /\ TasksTyped'
  BY <1>1 DEF IInv, RowsThere, TasksTyped, state
<1>5. FilesSound' /\ ReadingSound'
  BY <1>1, RequestStays DEF IInv, FilesSound, ReadingSound, RowsThere, state
<1>6. FilesDescribed' /\ UnderstandingDescribesData'
  BY <1>1 DEF IInv, FilesDescribed, MadeBy, UnderstandingDescribesData, state
<1>7. GraphsBeside' /\ EffectsBeside' /\ ReportsBeside'
  BY <1>1 DEF IInv, GraphsBeside, EffectsBeside, ReportsBeside, state, results, Working, Formats
<1> QED
  BY <1>2, <1>3, <1>4, <1>5, <1>6, <1>7 DEF IInv

LEMMA KaggleExpiresInv ==
  ASSUME IInv, NEW d \in Disks, KaggleExpires(d)
  PROVE  IInv'
<1>1. UNCHANGED <<job, pc, attempt, faults, state, dataset, understanding, disk, local, remote,
                  otherLocal, wrote, ungated, results>>
  BY DEF KaggleExpires
<1>2. kaggle' \in [Disks -> Circuits] /\ KaggleSound'
  <2>1. Sound(kaggle[d]) /\ kaggle' = [kaggle EXCEPT ![d] = Expire(kaggle[d])]
    BY DEF IInv, TypeOK, KaggleSound, Sound, KaggleExpires
  <2> QED
    BY <2>1, CircuitStays, KaggleStays
<1>3. TypeOK'
  BY <1>1, <1>2 DEF IInv, TypeOK, state, results
<1>4. RowsThere' /\ TasksTyped'
  BY <1>1, RequestStays DEF IInv, RowsThere, TasksTyped, state
<1>5. FilesSound' /\ ReadingSound'
  BY <1>1, RequestStays DEF IInv, FilesSound, ReadingSound, state
<1>6. FilesDescribed' /\ UnderstandingDescribesData'
  BY <1>1 DEF IInv, FilesDescribed, MadeBy, UnderstandingDescribesData, state
<1>7. GraphsBeside' /\ EffectsBeside' /\ ReportsBeside'
  BY <1>1 DEF IInv, GraphsBeside, EffectsBeside, ReportsBeside, state, results
<1> QED
  BY <1>2, <1>3, <1>4, <1>5, <1>6, <1>7 DEF IInv

LEMMA StoreRawInv ==
  ASSUME IInv, StoreRaw
  PROVE  IInv'
<1>1. /\ pc = "raw" /\ pc' = "register" /\ stored' \in BOOLEAN /\ faults' \in 0..MaxFaults
      /\ UNCHANGED <<job, attempt, errors, hasDataset, known, wanted, draft, reading, todo, done,
                     dataset, understanding, files, results>>
  <2>1. job \in Jobs /\ faults \in 0..MaxFaults /\ MaxFaults \in Nat
    BY AgentWorkAssumption DEF IInv, TypeOK
  <2>2. request.bucket \in BOOLEAN
    BY <2>1, RequestTyped
  <2>3. stored' \in BOOLEAN
    BY <2>2 DEF StoreRaw
  <2>4. faults' \in 0..MaxFaults
    BY <2>1 DEF StoreRaw, Fault
  <2> QED
    BY <2>3, <2>4 DEF StoreRaw
<1>2. TypeOK'
  BY <1>1 DEF IInv, TypeOK, files, results, Working
<1>3. RowsThere' /\ TasksTyped' /\ KaggleSound'
  BY <1>1 DEF IInv, RowsThere, TasksTyped, KaggleSound, files
<1>4. FilesSound' /\ ReadingSound'
  BY <1>1, RequestStays DEF IInv, FilesSound, ReadingSound, files
<1>5. FilesDescribed' /\ UnderstandingDescribesData'
  BY <1>1 DEF IInv, FilesDescribed, MadeBy, UnderstandingDescribesData, files
<1>6. GraphsBeside' /\ EffectsBeside' /\ ReportsBeside'
  BY <1>1 DEF IInv, GraphsBeside, EffectsBeside, ReportsBeside, results, Working, Formats
<1> QED
  BY <1>2, <1>3, <1>4, <1>5, <1>6 DEF IInv

LEMMA RegisterInv ==
  ASSUME IInv, Register
  PROVE  IInv'
<1>1. /\ pc = "register" /\ pc' = "eda" /\ hasDataset' = TRUE /\ stored' = FALSE
      /\ UNCHANGED <<job, attempt, faults, errors, known, wanted, draft, reading, todo, done,
                     understanding, files, results>>
  BY DEF Register
<1>2. dataset' \in DatasetRows /\ dataset'.path = "none"
  BY DEF Register, DatasetRows, Paths, IInv, TypeOK
<1>3. dataset = None /\ understanding = None
  BY <1>1 DEF IInv, RowsThere
<1>4. TypeOK'
  BY <1>1, <1>2 DEF IInv, TypeOK, files, results, Working
<1>5. RowsThere' /\ TasksTyped' /\ KaggleSound'
  BY <1>1, <1>2, RowsAreRows DEF IInv, RowsThere, TasksTyped, KaggleSound, files
<1>6. FilesSound' /\ ReadingSound'
  BY <1>1, <1>2, <1>3, RequestStays DEF IInv, FilesSound, ReadingSound, files
<1>7. FilesDescribed' /\ UnderstandingDescribesData'
  BY <1>1, <1>2, <1>3 DEF IInv, FilesDescribed, MadeBy, UnderstandingDescribesData, files
<1>8. GraphsBeside' /\ EffectsBeside' /\ ReportsBeside'
  BY <1>1 DEF IInv, GraphsBeside, EffectsBeside, ReportsBeside, results, Working, Formats
<1> QED
  BY <1>4, <1>5, <1>6, <1>7, <1>8 DEF IInv

-----------------------------------------------------------------------------
(* Exploratory analysis *)

LEMMA AugmentedTyped ==
  ASSUME TypeOK
  PROVE  Augmented \in SUBSET {"discovery", "treatment"}
BY DEF TypeOK, Augmented

LEMMA ReuseUnderstandingInv ==
  ASSUME IInv, ReuseUnderstanding
  PROVE  IInv'
<1>1. /\ pc = "eda" /\ hasDataset /\ understanding # None
      /\ known' = understanding /\ wanted' = Augmented
      /\ UNCHANGED <<job, attempt, faults, errors, hasDataset, draft, stored, reading, todo,
                     done, dataset, understanding, files, results>>
  BY DEF ReuseUnderstanding
<1>2. pc' \in {"discovery", "treatment", "reporting"}
  BY Stages DEF ReuseUnderstanding
<1>3. wanted' \in SUBSET {"discovery", "treatment"}
  BY <1>1, AugmentedTyped DEF IInv
<1>4. TypeOK'
  BY <1>1, <1>2, <1>3 DEF IInv, TypeOK, UnderstandingRows, files, results, Working
<1>5. RowsThere' /\ TasksTyped' /\ KaggleSound'
  BY <1>1, <1>2 DEF IInv, RowsThere, TasksTyped, KaggleSound, files
<1>6. FilesSound' /\ ReadingSound'
  BY <1>1, <1>2, RequestStays DEF IInv, FilesSound, ReadingSound, files
<1>7. FilesDescribed' /\ UnderstandingDescribesData'
  BY <1>1, <1>2
     DEF IInv, FilesDescribed, MadeBy, ReadingSound, UnderstandingDescribesData, Unread, files
<1>8. GraphsBeside' /\ EffectsBeside' /\ ReportsBeside'
  BY <1>1, <1>2
     DEF IInv, GraphsBeside, EffectsBeside, ReportsBeside, results, Working, Formats
<1> QED
  BY <1>4, <1>5, <1>6, <1>7, <1>8 DEF IInv

LEMMA LoadRawInv ==
  ASSUME IInv, LoadRaw
  PROVE  IInv'
<1>1. /\ pc = "eda" /\ hasDataset /\ understanding = None /\ pc' = "quality"
      /\ UNCHANGED <<job, attempt, faults, state, dataset, understanding, files, results>>
  BY DEF LoadRaw
<1>2. TypeOK'
  BY <1>1 DEF IInv, TypeOK, state, files, results, Working
<1>3. RowsThere' /\ TasksTyped' /\ KaggleSound'
  BY <1>1 DEF IInv, RowsThere, TasksTyped, KaggleSound, state, files
<1>4. FilesSound' /\ ReadingSound'
  BY <1>1, RequestStays DEF IInv, FilesSound, ReadingSound, state, files
<1>5. FilesDescribed' /\ UnderstandingDescribesData'
  BY <1>1 DEF IInv, FilesDescribed, MadeBy, UnderstandingDescribesData, state, files
<1>6. GraphsBeside' /\ EffectsBeside' /\ ReportsBeside'
  BY <1>1 DEF IInv, GraphsBeside, EffectsBeside, ReportsBeside, state, results, Working, Formats
<1> QED
  BY <1>2, <1>3, <1>4, <1>5, <1>6 DEF IInv

\* After the gate, which has passed the table or has raised.
LEMMA QualityInv ==
  ASSUME IInv, QualityPasses \/ QualityRaises
  PROVE  IInv'
<1>1. /\ pc = "quality" /\ pc' = "explore"
      /\ UNCHANGED <<job, attempt, state, dataset, understanding, disk, local, remote,
                     otherLocal, wrote, kaggle, results>>
  BY DEF QualityPasses, QualityRaises, files
<1>2. \/ ungated' = ungated /\ WithoutErrors(request.table)
      \/ ungated' = TRUE
  BY DEF QualityPasses, QualityRaises, Passes, files
<1>3. faults' \in 0..MaxFaults /\ ungated' \in BOOLEAN
  <2>1. faults \in 0..MaxFaults /\ MaxFaults \in Nat /\ ungated \in BOOLEAN
    BY AgentWorkAssumption DEF IInv, TypeOK
  <2>2. UNCHANGED faults \/ Fault
    BY DEF QualityPasses, QualityRaises
  <2>3. faults' \in 0..MaxFaults
    BY <2>1, <2>2 DEF Fault
  <2>4. ungated' \in BOOLEAN
    BY <1>2, <2>1
  <2> QED
    BY <2>3, <2>4
<1>4. TypeOK'
  BY <1>1, <1>3 DEF IInv, TypeOK, state, results, Working
<1>5. RowsThere' /\ TasksTyped' /\ KaggleSound'
  BY <1>1 DEF IInv, RowsThere, TasksTyped, KaggleSound, state
<1>6. FilesSound' /\ ReadingSound'
  BY <1>1, <1>2, RequestStays DEF IInv, FilesSound, ReadingSound, state
<1>7. FilesDescribed' /\ UnderstandingDescribesData'
  BY <1>1 DEF IInv, FilesDescribed, MadeBy, UnderstandingDescribesData, state
<1>8. GraphsBeside' /\ EffectsBeside' /\ ReportsBeside'
  BY <1>1 DEF IInv, GraphsBeside, EffectsBeside, ReportsBeside, state, results, Working, Formats
<1> QED
  BY <1>4, <1>5, <1>6, <1>7, <1>8 DEF IInv

LEMMA ExploreInv ==
  ASSUME IInv, Explore
  PROVE  IInv'
<1>1. /\ pc = "explore" /\ draft' \in Origins
      /\ wanted' = Augmented
      /\ \/ pc' = "write" /\ request.prep
         \/ pc' = "understand" /\ ~request.prep
      /\ UNCHANGED <<job, attempt, faults, errors, hasDataset, known, stored, reading, todo,
                     done, dataset, understanding, files, results>>
  BY DEF Explore
<1>2. wanted' \in SUBSET {"discovery", "treatment"}
  BY <1>1, AugmentedTyped DEF IInv
<1>3. draft' # None
  BY <1>1, AgentWorkAssumption
<1>4. TypeOK'
  BY <1>1, <1>2 DEF IInv, TypeOK, files, results, Working
<1>5. RowsThere' /\ TasksTyped' /\ KaggleSound'
  BY <1>1, <1>3, RequestStays DEF IInv, RowsThere, TasksTyped, KaggleSound, files
<1>6. FilesSound' /\ ReadingSound'
  BY <1>1, RequestStays DEF IInv, RowsThere, FilesSound, ReadingSound, files
<1>7. FilesDescribed' /\ UnderstandingDescribesData'
  BY <1>1 DEF IInv, RowsThere, FilesSound, FilesDescribed, MadeBy,
              UnderstandingDescribesData, files
<1>8. GraphsBeside' /\ EffectsBeside' /\ ReportsBeside'
  BY <1>1 DEF IInv, GraphsBeside, EffectsBeside, ReportsBeside, results, Working, Formats
<1> QED
  BY <1>4, <1>5, <1>6, <1>7, <1>8 DEF IInv

LEMMA WritePreprocessedInv ==
  ASSUME IInv, WritePreprocessed
  PROVE  IInv'
<1>1. /\ pc = "write" /\ pc' = "metadata" /\ local' = [local EXCEPT ![disk] = draft]
      /\ \/ stored' = request.bucket /\ remote' = IF request.bucket THEN draft ELSE remote
         \/ stored' = FALSE /\ remote' = remote
      /\ wrote' = wrote \cup {d \in Disks : local'[d] # None}
      /\ UNCHANGED <<job, attempt, errors, hasDataset, known, wanted, draft, reading, todo,
                     done, dataset, understanding, disk, otherLocal, kaggle, ungated,
                     results>>
  BY DEF WritePreprocessed
<1>2. /\ job \in Jobs /\ disk \in Disks /\ draft \in Origins /\ draft # None
      /\ local \in [Disks -> Origins \cup {None}] /\ wrote \subseteq Disks
      /\ understanding = None /\ dataset # None /\ known = None /\ request.prep
  BY <1>1 DEF IInv, TypeOK, RowsThere
<1>3. stored' \in BOOLEAN /\ (stored' => remote' = draft) /\ remote' \in Origins \cup {None}
  <2>1. request.bucket \in BOOLEAN
    BY <1>2, RequestTyped
  <2>2. remote \in Origins \cup {None}
    BY DEF IInv, TypeOK
  <2> QED
    BY <1>1, <1>2, <2>1, <2>2
<1>4. faults' \in 0..MaxFaults
  <2>1. faults \in 0..MaxFaults /\ MaxFaults \in Nat
    BY AgentWorkAssumption DEF IInv, TypeOK
  <2> QED
    BY <2>1 DEF WritePreprocessed, Fault
<1>5. local' \in [Disks -> Origins \cup {None}]
  BY <1>1, <1>2
<1>6. TypeOK'
  BY <1>1, <1>3, <1>4, <1>5 DEF IInv, TypeOK, results, Working
<1>7. RowsThere' /\ TasksTyped' /\ KaggleSound'
  BY <1>1, <1>2, RequestStays DEF IInv, RowsThere, TasksTyped, KaggleSound
<1>8. FilesSound' /\ ReadingSound'
  <2>1. dataset.path = "own" /\ dataset.copy => remote' # None
    BY <1>1, <1>2 DEF IInv, FilesSound
  <2> QED
    BY <1>1, <1>2, <1>3, <2>1, RequestStays DEF IInv, FilesSound, ReadingSound
\* When no other disk has a file, the new one is the only one.
<1>9. Cardinality(wrote') <= 1 => MadeBy(draft)'
  <2> SUFFICES ASSUME NEW d \in Disks, local'[d] \notin {None, draft}
               PROVE  ~(Cardinality(wrote') <= 1)
    BY <1>1 DEF MadeBy
  <2>1. d # disk /\ d \in wrote' /\ disk \in wrote'
    BY <1>1, <1>2
  <2>2. IsFiniteSet(wrote') /\ Cardinality(wrote') \in Nat
    BY <1>1, <1>2, AgentWorkAssumption, FS_Subset, FS_CardinalityType
  <2> QED
    BY <2>1, <2>2, TwoIn
<1>10. FilesDescribed' /\ UnderstandingDescribesData'
  BY <1>1, <1>2, <1>3, <1>9 DEF FilesDescribed, UnderstandingDescribesData
<1>11. GraphsBeside' /\ EffectsBeside' /\ ReportsBeside'
  BY <1>1 DEF IInv, GraphsBeside, EffectsBeside, ReportsBeside, results, Working, Formats
<1> QED
  BY <1>6, <1>7, <1>8, <1>10, <1>11 DEF IInv

LEMMA StorePathsInv ==
  ASSUME IInv, StorePaths
  PROVE  IInv'
<1>1. /\ pc = "metadata" /\ pc' = "understand"
      /\ dataset' = [dataset EXCEPT !.path = "own", !.copy = stored] /\ stored' = FALSE
      /\ UNCHANGED <<job, attempt, faults, errors, hasDataset, known, wanted, draft, reading,
                     todo, done, understanding, files, results>>
  BY DEF StorePaths
<1>2. /\ dataset \in DatasetRows /\ stored \in BOOLEAN /\ understanding = None /\ draft # None
      /\ known = None /\ request.prep
  BY <1>1 DEF IInv, TypeOK, RowsThere
<1>3. dataset' \in DatasetRows /\ dataset'.path = "own" /\ dataset'.copy = stored
  BY <1>1, <1>2 DEF DatasetRows, Paths
<1>4. TypeOK'
  BY <1>1, <1>3 DEF IInv, TypeOK, files, results, Working
<1>5. RowsThere' /\ TasksTyped' /\ KaggleSound'
  BY <1>1, <1>2, <1>3, RowsAreRows, RequestStays
     DEF IInv, RowsThere, TasksTyped, KaggleSound, files
<1>6. FilesSound' /\ ReadingSound'
  BY <1>1, <1>2, <1>3, RequestStays DEF IInv, FilesSound, ReadingSound, files
<1>7. FilesDescribed' /\ UnderstandingDescribesData'
  BY <1>1, <1>2, <1>3 DEF IInv, FilesDescribed, MadeBy, UnderstandingDescribesData, files
<1>8. GraphsBeside' /\ EffectsBeside' /\ ReportsBeside'
  BY <1>1 DEF IInv, GraphsBeside, EffectsBeside, ReportsBeside, results, Working, Formats
<1> QED
  BY <1>4, <1>5, <1>6, <1>7, <1>8 DEF IInv

LEMMA StoreUnderstandingInv ==
  ASSUME IInv, StoreUnderstanding
  PROVE  IInv'
<1>1. /\ pc = "understand" /\ understanding' = draft /\ known' = draft /\ draft' = None
      /\ UNCHANGED <<job, attempt, faults, errors, hasDataset, wanted, stored, reading, todo,
                     done, dataset, files, results>>
  BY DEF StoreUnderstanding
<1>2. pc' \in {"discovery", "treatment", "reporting"}
  BY Stages DEF StoreUnderstanding
<1>3. draft \in Origins /\ dataset # None
  BY <1>1 DEF IInv, TypeOK, RowsThere
<1>4. reading = Unread
  BY <1>1 DEF IInv, ReadingSound
<1>5. TypeOK'
  BY <1>1, <1>2, <1>3 DEF IInv, TypeOK, UnderstandingRows, files, results, Working
<1>6. RowsThere' /\ TasksTyped' /\ KaggleSound'
  BY <1>1, <1>2, <1>3 DEF IInv, RowsThere, TasksTyped, KaggleSound, files
<1>7. FilesSound' /\ ReadingSound'
  BY <1>1, <1>2, RequestStays DEF IInv, FilesSound, ReadingSound, files
<1>8. FilesDescribed' /\ UnderstandingDescribesData'
  BY <1>1, <1>2, <1>4
     DEF IInv, FilesDescribed, MadeBy, UnderstandingDescribesData, Unread, files
<1>9. GraphsBeside' /\ EffectsBeside' /\ ReportsBeside'
  BY <1>1, <1>2
     DEF IInv, GraphsBeside, EffectsBeside, ReportsBeside, results, Working, Formats
<1> QED
  BY <1>5, <1>6, <1>7, <1>8, <1>9 DEF IInv

-----------------------------------------------------------------------------
(* Discovery and treatment load the table *)

\* What is found is the file that the row names.
LEMMA FoundFacts ==
  ASSUME IInv, Found # Unread
  PROVE  /\ Found \in Source /\ Found.by \in Origins
         /\ dataset # None /\ dataset.path # "none" /\ Found.owner = dataset.path
         /\ Found.owner = "own" => Found.by \in {local[disk], remote}
         /\ Found.owner = "own" /\ local[disk] # None => Found.by = local[disk]
         /\ Found.owner = "own" /\ local[disk] = None => dataset.copy /\ Found.by = remote
<1>1. /\ disk \in Disks /\ local[disk] \in Origins \cup {None} /\ remote \in Origins \cup {None}
      /\ dataset # None => dataset.path \in Paths /\ dataset.copy \in BOOLEAN
      /\ dataset # None /\ dataset.path = "own" /\ dataset.copy => remote # None
  BY DEF IInv, TypeOK, FilesSound, DatasetRows
<1>2. dataset # None
  BY DEF Found
<1>3. CASE dataset.path = "own" /\ local[disk] # None
  <2>1. Found = [owner |-> "own", by |-> local[disk]]
    BY <1>2, <1>3 DEF Found
  <2> QED
    BY <1>1, <1>2, <1>3, <2>1 DEF Source, Paths
<1>4. CASE dataset.path = "own" /\ local[disk] = None /\ dataset.copy
  <2>1. Found = [owner |-> "own", by |-> remote]
    BY <1>2, <1>4 DEF Found
  <2> QED
    BY <1>1, <1>2, <1>4, <2>1 DEF Source, Paths
<1>5. CASE dataset.path = "other" /\ (disk \in otherLocal \/ dataset.copy)
  <2>1. Found = [owner |-> "other", by |-> "heuristic"]
    BY <1>2, <1>5 DEF Found
  <2> QED
    BY <1>2, <1>5, <2>1 DEF Source, Paths, Origins
<1>6. CASE /\ ~(dataset.path = "own" /\ local[disk] # None)
           /\ ~(dataset.path = "own" /\ local[disk] = None /\ dataset.copy)
           /\ ~(dataset.path = "other" /\ (disk \in otherLocal \/ dataset.copy))
  <2>1. Found = Unread
    BY <1>2, <1>6 DEF Found
  <2> QED
    BY <2>1
<1> QED
  BY <1>3, <1>4, <1>5, <1>6

LEMMA LoadedInv ==
  ASSUME IInv, pc \in {"discovery", "treatment"}, Found # Unread,
         reading' = Found, Downloaded,
         \/ pc' = "search" /\ todo' \in Seq(Elements(Tools))
         \/ pc' = "estimate" /\ todo' \in Seq(Elements(Methods) \cup Analyses),
         UNCHANGED <<job, attempt, faults, errors, hasDataset, known, wanted, draft, stored,
                     done, dataset, understanding, results>>
  PROVE  IInv'
<1>1. /\ Found \in Source /\ Found.by \in Origins
      /\ dataset # None /\ dataset.path # "none" /\ Found.owner = dataset.path
      /\ Found.owner = "own" /\ local[disk] # None => Found.by = local[disk]
      /\ Found.owner = "own" /\ local[disk] = None => dataset.copy /\ Found.by = remote
  BY FoundFacts
<1>2. /\ disk \in Disks /\ local \in [Disks -> Origins \cup {None}]
      /\ otherLocal \in SUBSET Disks
  BY DEF IInv, TypeOK
<1>3. /\ local' = [local EXCEPT ![disk] = IF Found.owner = "own" THEN Found.by
                                          ELSE local[disk]]
      /\ otherLocal' \in SUBSET Disks
      /\ UNCHANGED <<disk, remote, wrote, kaggle, ungated>>
  BY <1>2 DEF Downloaded
<1>4. local' \in [Disks -> Origins \cup {None}]
  BY <1>1, <1>2, <1>3
<1>5. TypeOK'
  BY <1>1, <1>3, <1>4 DEF IInv, TypeOK, results, Working
<1>6. RowsThere' /\ TasksTyped' /\ KaggleSound'
  BY <1>3 DEF IInv, RowsThere, TasksTyped, KaggleSound
<1>7. FilesSound' /\ ReadingSound'
  BY <1>1, <1>3, RequestStays DEF IInv, FilesSound, ReadingSound
\* The files keep their makers, and what is read is one of them.
<1>8. \A by : MadeBy(by) /\ (Found.owner = "own" /\ dataset.copy => remote = by)
              => MadeBy(by)' /\ (Found.owner = "own" => Found.by = by)
  <2> SUFFICES ASSUME NEW by, MadeBy(by),
                      Found.owner = "own" /\ dataset.copy => remote = by
               PROVE  /\ \A d \in Disks : local'[d] \in {None, by}
                      /\ Found.owner = "own" => Found.by = by
    BY DEF MadeBy
  <2>1. local[disk] \in {None, by}
    BY <1>2 DEF MadeBy
  <2>2. Found.owner = "own" => Found.by = by
    BY <1>1, <2>1
  <2> QED
    BY <1>2, <1>3, <2>1, <2>2 DEF MadeBy
<1>9. FilesDescribed' /\ UnderstandingDescribesData'
  <2>1. known # None => known = understanding
    BY DEF IInv, RowsThere
  <2> SUFFICES ASSUME Cardinality(wrote) <= 1
               PROVE  /\ understanding # None /\ dataset.path = "own" =>
                           MadeBy(understanding)' /\ (dataset.copy => remote = understanding)
                      /\ known # None /\ Found.owner = "own" => Found.by = understanding
    BY <1>3, <2>1 DEF FilesDescribed, UnderstandingDescribesData, MadeBy
  <2>2. understanding # None /\ dataset.path = "own" =>
          MadeBy(understanding) /\ (dataset.copy => remote = understanding)
    BY DEF IInv, FilesDescribed
  <2> QED
    BY <1>1, <1>8, <2>1, <2>2
<1>10. GraphsBeside' /\ EffectsBeside' /\ ReportsBeside'
  BY DEF IInv, GraphsBeside, EffectsBeside, ReportsBeside, results, Working, Formats
<1> QED
  BY <1>5, <1>6, <1>7, <1>9, <1>10 DEF IInv

LEMMA LoadInv ==
  ASSUME IInv, LoadForDiscovery \/ LoadForTreatment
  PROVE  IInv'
<1>1. CASE LoadForDiscovery
  <2>1. todo' \in Seq(Elements(Tools))
    BY <1>1, KeptTools DEF LoadForDiscovery
  <2> QED
    BY <1>1, <2>1, LoadedInv DEF LoadForDiscovery
<1>2. CASE LoadForTreatment
  <2>1. todo' \in Seq(Elements(Methods) \cup Analyses)
    BY <1>2, KeptMethods DEF LoadForTreatment
  <2> QED
    BY <1>2, <2>1, LoadedInv DEF LoadForTreatment
<1> QED
  BY <1>1, <1>2

-----------------------------------------------------------------------------
(* Discovery *)

LEMMA StoreGraphInv ==
  ASSUME IInv, StoreGraph
  PROVE  IInv'
<1>1. /\ pc = "search" /\ pc' = pc /\ todo # << >> /\ todo' = Tail(todo)
      /\ \E consensus \in Consensuses : graphs' = graphs \cup {Graph(FALSE)} \cup consensus
      /\ UNCHANGED <<job, attempt, faults, errors, hasDataset, known, wanted, draft, stored,
                     reading, done, dataset, understanding, files, effects, reports,
                     earlierEffects>>
  BY DEF StoreGraph
<1>2. todo \in Seq(Elements(Tools)) /\ reading \in Source
  BY <1>1 DEF IInv, TasksTyped, TypeOK
<1>3. Head(todo) \in Elements(Tools) /\ todo' \in Seq(Elements(Tools))
  BY <1>1, <1>2
<1>4. \A c \in BOOLEAN : Graph(c) \in GraphRows
  BY <1>2, <1>3 DEF Graph, GraphRows, Elements
<1>5. graphs' = graphs \cup {Graph(FALSE)} \/ graphs' = graphs \cup {Graph(FALSE), Graph(TRUE)}
  BY <1>1 DEF Consensuses
<1>6. graphs \subseteq GraphRows /\ graphs' \subseteq GraphRows
  BY <1>4, <1>5 DEF IInv, TypeOK
<1>7. TypeOK'
  BY <1>1, <1>6 DEF IInv, TypeOK, files
<1>8. RowsThere' /\ TasksTyped' /\ KaggleSound'
  BY <1>1, <1>3, RequestStays DEF IInv, RowsThere, TasksTyped, KaggleSound, files
<1>9. FilesSound' /\ ReadingSound'
  BY <1>1, RequestStays DEF IInv, FilesSound, ReadingSound, files
<1>10. FilesDescribed' /\ UnderstandingDescribesData'
  BY <1>1 DEF IInv, FilesDescribed, MadeBy, UnderstandingDescribesData, files
\* The graph is stored with its consensus.
<1>11. GraphsBeside'
  <2>1. \A a, b, v, w : LET g == [tool |-> a, consensus |-> w, from |-> b] IN
          [g EXCEPT !.consensus = v] = [tool |-> a, consensus |-> v, from |-> b]
    OBVIOUS
  <2>2. [Graph(TRUE) EXCEPT !.consensus = FALSE] = Graph(FALSE)
    BY <2>1 DEF Graph
  <2>3. Graph(FALSE).consensus = FALSE
    BY DEF Graph
  <2> HIDE DEF Graph
  <2> QED
    BY <1>5, <2>2, <2>3 DEF IInv, GraphsBeside
<1>12. EffectsBeside' /\ ReportsBeside'
  BY <1>1 DEF IInv, EffectsBeside, ReportsBeside
<1> QED
  BY <1>7, <1>8, <1>9, <1>10, <1>11, <1>12 DEF IInv

LEMMA DiscoveryDoneInv ==
  ASSUME IInv, DiscoveryDone
  PROVE  IInv'
<1>1. /\ pc = "search" /\ reading' = Unread
      /\ UNCHANGED <<job, attempt, faults, errors, hasDataset, known, wanted, draft, stored,
                     todo, done, dataset, understanding, files, results>>
  BY DEF DiscoveryDone
<1>2. pc' \in {"treatment", "reporting"}
  BY Stages DEF DiscoveryDone
<1>3. TypeOK'
  BY <1>1, <1>2 DEF IInv, TypeOK, files, results, Working, Unread, Source, Paths
<1>4. RowsThere' /\ TasksTyped' /\ KaggleSound'
  BY <1>1, <1>2 DEF IInv, RowsThere, TasksTyped, KaggleSound, files
<1>5. FilesSound' /\ ReadingSound'
  BY <1>1, <1>2, RequestStays DEF IInv, FilesSound, ReadingSound, files
<1>6. FilesDescribed' /\ UnderstandingDescribesData'
  BY <1>1, <1>2
     DEF IInv, FilesDescribed, MadeBy, UnderstandingDescribesData, Unread, files
<1>7. GraphsBeside' /\ EffectsBeside' /\ ReportsBeside'
  BY <1>1, <1>2
     DEF IInv, GraphsBeside, EffectsBeside, ReportsBeside, results, Working, Formats
<1> QED
  BY <1>3, <1>4, <1>5, <1>6, <1>7 DEF IInv

-----------------------------------------------------------------------------
(* Treatment effects *)

LEMMA NoPairInv ==
  ASSUME IInv, NoPair
  PROVE  IInv'
<1>1. /\ pc = "estimate" /\ pc' = "validation" /\ reading' = Unread /\ todo' = << >>
      /\ done' = {}
      /\ UNCHANGED <<job, attempt, faults, errors, hasDataset, known, wanted, draft, stored,
                     dataset, understanding, files, results>>
  BY Stages DEF NoPair
<1>2. TypeOK'
  BY <1>1 DEF IInv, TypeOK, files, results, Working, Unread, Source, Paths
<1>3. RowsThere' /\ TasksTyped' /\ KaggleSound'
  BY <1>1 DEF IInv, RowsThere, TasksTyped, KaggleSound, files
<1>4. FilesSound' /\ ReadingSound'
  BY <1>1, RequestStays DEF IInv, FilesSound, ReadingSound, files
<1>5. FilesDescribed' /\ UnderstandingDescribesData'
  BY <1>1 DEF IInv, FilesDescribed, MadeBy, UnderstandingDescribesData, Unread, files
<1>6. GraphsBeside' /\ EffectsBeside' /\ ReportsBeside'
  BY <1>1 DEF IInv, GraphsBeside, EffectsBeside, ReportsBeside, results, Working, Formats
<1> QED
  BY <1>2, <1>3, <1>4, <1>5, <1>6 DEF IInv

LEMMA EffectTyped ==
  ASSUME IInv, reading # Unread, ThePair # << >>, NEW m
  PROVE  Len(Effect(m).pair) = 2 /\ Effect(m).from \in Source /\ Effect(m).method = m
BY TableFacts DEF Effect, IInv, TypeOK

LEMMA EstimateInv ==
  ASSUME IInv, Estimate
  PROVE  IInv'
<1> DEFINE m == Head(todo)
<1>1. /\ pc = "estimate" /\ pc' = pc /\ todo # << >> /\ m \notin Analyses /\ ThePair # << >>
      /\ effects' = effects \cup {Effect(m)} /\ done' = done \cup {m} /\ todo' = Tail(todo)
      /\ UNCHANGED <<job, attempt, faults, errors, hasDataset, known, wanted, draft, stored,
                     reading, dataset, understanding, files, graphs, reports, earlierEffects>>
  BY DEF Estimate
<1>2. todo \in Seq(Elements(Methods) \cup Analyses) /\ reading # Unread
  BY <1>1 DEF IInv, TasksTyped, ReadingSound
<1>3. m \in Elements(Methods) /\ todo' \in Seq(Elements(Methods) \cup Analyses)
  BY <1>1, <1>2
<1> HIDE DEF m
<1>4. Len(Effect(m).pair) = 2 /\ Effect(m).from \in Source /\ Effect(m).method = m
  BY <1>1, <1>2, EffectTyped
<1>5. TypeOK'
  BY <1>1, <1>4 DEF IInv, TypeOK, files
<1>6. RowsThere' /\ TasksTyped' /\ KaggleSound'
  BY <1>1, <1>3, RequestStays DEF IInv, RowsThere, TasksTyped, KaggleSound, files
<1>7. FilesSound' /\ ReadingSound'
  BY <1>1, RequestStays DEF IInv, FilesSound, ReadingSound, files
<1>8. FilesDescribed' /\ UnderstandingDescribesData'
  BY <1>1 DEF IInv, FilesDescribed, MadeBy, UnderstandingDescribesData, files
<1>9. EffectsBeside'
  <2>1. IsFiniteSet(effects')
    BY <1>1, FS_AddElement DEF IInv, EffectsBeside
  <2>2. m # "ensemble"
    BY <1>3, MethodNames
  <2>3. \A n \in done' : \E e \in effects' : e.method = n
    BY <1>1, <1>4 DEF IInv, EffectsBeside
  <2>4. \A e \in effects' : e.method = "ensemble" =>
          \E x, y \in effects' : /\ x.method # "ensemble" /\ y.method # "ensemble"
                                 /\ x.method # y.method
    BY <1>1, <1>4, <2>2 DEF IInv, EffectsBeside
  <2> QED
    BY <2>1, <2>3, <2>4 DEF EffectsBeside
<1>10. GraphsBeside' /\ ReportsBeside'
  BY <1>1 DEF IInv, GraphsBeside, ReportsBeside
<1> QED
  BY <1>5, <1>6, <1>7, <1>8, <1>9, <1>10 DEF IInv

LEMMA NoEstimateInv ==
  ASSUME IInv, NoEstimate
  PROVE  IInv'
<1>1. /\ pc = "estimate" /\ pc' = pc /\ todo # << >> /\ todo' = Tail(todo)
      /\ UNCHANGED <<job, attempt, faults, errors, hasDataset, known, wanted, draft, stored,
                     reading, done, dataset, understanding, files, results>>
  BY DEF NoEstimate
<1>2. todo' \in Seq(Elements(Methods) \cup Analyses)
  BY <1>1 DEF IInv, TasksTyped
<1>3. TypeOK'
  BY <1>1 DEF IInv, TypeOK, files, results
<1>4. RowsThere' /\ TasksTyped' /\ KaggleSound'
  BY <1>1, <1>2, RequestStays DEF IInv, RowsThere, TasksTyped, KaggleSound, files
<1>5. FilesSound' /\ ReadingSound'
  BY <1>1, RequestStays DEF IInv, FilesSound, ReadingSound, files
<1>6. FilesDescribed' /\ UnderstandingDescribesData'
  BY <1>1 DEF IInv, FilesDescribed, MadeBy, UnderstandingDescribesData, files
<1>7. GraphsBeside' /\ EffectsBeside' /\ ReportsBeside'
  BY <1>1 DEF IInv, GraphsBeside, EffectsBeside, ReportsBeside, results
<1> QED
  BY <1>3, <1>4, <1>5, <1>6, <1>7 DEF IInv

LEMMA EnsembleInv ==
  ASSUME IInv, Ensemble
  PROVE  IInv'
<1>1. /\ pc = "estimate" /\ pc' = "validation" /\ reading' = Unread /\ done' = {}
      /\ ThePair # << >>
      /\ effects' = IF Cardinality(done) >= 2 THEN effects \cup {Effect("ensemble")} ELSE effects
      /\ UNCHANGED <<job, attempt, faults, errors, hasDataset, known, wanted, draft, stored,
                     todo, dataset, understanding, files, graphs, reports, earlierEffects>>
  BY Stages DEF Ensemble
<1>2. /\ reading # Unread /\ done \subseteq Elements(Methods)
  BY <1>1 DEF IInv, TasksTyped, ReadingSound
<1>3. /\ Len(Effect("ensemble").pair) = 2 /\ Effect("ensemble").from \in Source
      /\ Effect("ensemble").method = "ensemble"
  BY <1>1, <1>2, EffectTyped
<1>4. TypeOK'
  BY <1>1, <1>3 DEF IInv, TypeOK, files, Working, Unread, Source, Paths
<1>5. RowsThere' /\ TasksTyped' /\ KaggleSound'
  BY <1>1 DEF IInv, RowsThere, TasksTyped, KaggleSound, files
<1>6. FilesSound' /\ ReadingSound'
  BY <1>1, RequestStays DEF IInv, FilesSound, ReadingSound, files
<1>7. FilesDescribed' /\ UnderstandingDescribesData'
  BY <1>1 DEF IInv, FilesDescribed, MadeBy, UnderstandingDescribesData, Unread, files
\* Two methods gave a result, and their effects are there.
<1>8. EffectsBeside'
  <2>1. CASE Cardinality(done) >= 2
    <3>1. IsFiniteSet(done)
      <4>1. IsFiniteSet({"psm"} \cup {"dr"} \cup {"iv"})
        BY FS_Singleton, FS_AddElement
      <4>2. done \subseteq {"psm"} \cup {"dr"} \cup {"iv"}
        BY <1>2, MethodNames
      <4> QED
        BY <4>1, <4>2, FS_Subset
    <3>2. PICK m \in done, n \in done : m # n
      BY <2>1, <3>1, TwoIn
    <3>3. m # "ensemble" /\ n # "ensemble"
      BY <1>2, MethodNames
    <3>4. PICK x \in effects, y \in effects : x.method = m /\ y.method = n
      BY DEF IInv, EffectsBeside
    <3>5. IsFiniteSet(effects')
      BY <1>1, <2>1, FS_AddElement DEF IInv, EffectsBeside
    <3> QED
      BY <1>1, <2>1, <3>2, <3>3, <3>4, <3>5 DEF EffectsBeside
  <2>2. CASE ~(Cardinality(done) >= 2)
    BY <1>1, <2>2 DEF IInv, EffectsBeside
  <2> QED
    BY <2>1, <2>2
<1>9. GraphsBeside' /\ ReportsBeside'
  BY <1>1 DEF IInv, GraphsBeside, ReportsBeside, Working, Formats
<1> QED
  BY <1>4, <1>5, <1>6, <1>7, <1>8, <1>9 DEF IInv

-----------------------------------------------------------------------------
(* Validation and reports *)

\* A step that only goes on, where no row is asked for.
LEMMA GoOnInv ==
  ASSUME IInv,
         \/ pc = "validation" /\ pc' = "reporting"
         \/ pc = "reporting" /\ pc' = "json",
         UNCHANGED <<job, attempt, faults, state, dataset, understanding, files, results>>
  PROVE  IInv'
<1>1. TypeOK'
  BY DEF IInv, TypeOK, state, files, results, Working, Formats
<1>2. RowsThere' /\ TasksTyped' /\ KaggleSound'
  BY DEF IInv, RowsThere, TasksTyped, KaggleSound, state, files
<1>3. FilesSound' /\ ReadingSound'
  BY RequestStays DEF IInv, FilesSound, ReadingSound, state, files
<1>4. FilesDescribed' /\ UnderstandingDescribesData'
  BY DEF IInv, FilesDescribed, MadeBy, UnderstandingDescribesData, state, files
<1>5. GraphsBeside' /\ EffectsBeside' /\ ReportsBeside'
  BY DEF IInv, GraphsBeside, EffectsBeside, ReportsBeside, state, results, Working, Formats
<1> QED
  BY <1>1, <1>2, <1>3, <1>4, <1>5 DEF IInv

\* A step that stores reports.
LEMMA ReportingInv ==
  ASSUME IInv, pc \in Formats, pc' \in {"html", "markdown", "pdf", "pptx", "end"},
         reports' \subseteq ReportRows, reports \subseteq reports',
         \A k \in Kinds : Report("json", k) \in reports',
         pc' # "html" => Report("html", "technical") \in reports',
         UNCHANGED <<job, attempt, faults, state, dataset, understanding, files, graphs,
                     effects, earlierEffects>>
  PROVE  IInv'
<1>1. TypeOK'
  BY DEF IInv, TypeOK, state, files, Working, Formats
<1>2. RowsThere' /\ TasksTyped' /\ KaggleSound'
  BY DEF IInv, RowsThere, TasksTyped, KaggleSound, state, files, Formats
<1>3. FilesSound' /\ ReadingSound'
  BY RequestStays DEF IInv, FilesSound, ReadingSound, state, files, Formats
<1>4. FilesDescribed' /\ UnderstandingDescribesData'
  BY DEF IInv, FilesDescribed, MadeBy, UnderstandingDescribesData, state, files, Formats
<1>5. GraphsBeside' /\ EffectsBeside'
  BY DEF IInv, GraphsBeside, EffectsBeside, state
<1>6. ReportsBeside'
  <2>1. reports' # {}
    BY DEF Kinds
  <2>2. pc' \notin Working \ {"html", "markdown", "pdf", "pptx"}
    BY DEF Working, Formats
  <2> QED
    BY <2>1, <2>2 DEF ReportsBeside
<1> QED
  BY <1>1, <1>2, <1>3, <1>4, <1>5, <1>6 DEF IInv

LEMMA ReportTyped ==
  ASSUME NEW format \in Formats, NEW kind \in Kinds
  PROVE  Report(format, kind) \in ReportRows
BY DEF Report, ReportRows

LEMMA StoreJsonInv ==
  ASSUME IInv, StoreJson
  PROVE  IInv'
<1>1. /\ pc = "json" /\ pc' = "html"
      /\ reports' = reports \cup {Report("json", k) : k \in Kinds}
      /\ UNCHANGED <<job, attempt, faults, state, dataset, understanding, files, graphs,
                     effects, earlierEffects>>
  BY DEF StoreJson
<1>2. "json" \in Formats /\ reports \subseteq ReportRows
  BY DEF Formats, IInv, TypeOK
<1>3. /\ reports' \subseteq ReportRows /\ reports \subseteq reports'
      /\ \A k \in Kinds : Report("json", k) \in reports'
  <2>1. \A k \in Kinds : Report("json", k) \in ReportRows
    BY <1>2, ReportTyped
  <2> QED
    BY <1>1, <1>2, <2>1
<1> QED
  BY <1>1, <1>2, <1>3, ReportingInv

LEMMA FilesInv ==
  ASSUME IInv, StoreHtml \/ StoreMarkdown \/ StorePdf \/ StorePptx
  PROVE  IInv'
<1>1. /\ "html" \in Formats /\ "markdown" \in Formats /\ "pdf" \in Formats /\ "pptx" \in Formats
      /\ "technical" \in Kinds /\ "executive" \in Kinds
  BY DEF Formats, Kinds
<1>2. PICK format \in {"html", "markdown", "pdf", "pptx"}, kind \in {"technical", "executive"} :
        \/ StoreFile(format, kind) /\ (format = "html" => kind = "technical")
        \/ SkipFile(format) /\ format # "html"
  BY DEF StoreHtml, StoreMarkdown, StorePdf, StorePptx
<1>3. /\ pc = format /\ pc' = NextFormat
      /\ \/ reports' = reports \cup {Report(format, kind)} /\ (format = "html" => kind = "technical")
         \/ reports' = reports /\ format # "html"
      /\ UNCHANGED <<job, attempt, faults, state, dataset, understanding, files, graphs,
                     effects, earlierEffects>>
  BY <1>2 DEF StoreFile, SkipFile, results
<1>4. pc' \in {"markdown", "pdf", "pptx", "end"}
  BY <1>3 DEF NextFormat
<1>5. /\ reports \subseteq ReportRows /\ \A k \in Kinds : Report("json", k) \in reports
      /\ format # "html" => Report("html", "technical") \in reports
  BY <1>3 DEF IInv, TypeOK, ReportsBeside
<1>6. Report(format, kind) \in ReportRows
  BY <1>1, <1>2, ReportTyped
<1>7. /\ reports' \subseteq ReportRows /\ reports \subseteq reports'
      /\ \A k \in Kinds : Report("json", k) \in reports'
      /\ Report("html", "technical") \in reports'
  BY <1>3, <1>5, <1>6
<1>8. pc \in Formats
  BY <1>1, <1>3
<1> QED
  BY <1>3, <1>4, <1>7, <1>8, ReportingInv

-----------------------------------------------------------------------------
(* The invariant is inductive *)

LEMMA NextInv == IInv /\ [Next]_vars => IInv'
<1> SUFFICES ASSUME IInv, [Next]_vars PROVE IInv'
  OBVIOUS
<1>1. CASE Acquire
  BY <1>1, LookupInv, DownloadInv, FailuresInv, StoreRawInv, RegisterInv DEF Acquire
<1>2. CASE Eda
  BY <1>2, ReuseUnderstandingInv, LoadRawInv, FailuresInv, QualityInv, ExploreInv, WritePreprocessedInv,
     StorePathsInv, StoreUnderstandingInv DEF Eda
<1>3. CASE Discover
  BY <1>3, LoadInv, FailuresInv, StoreGraphInv, DiscoveryDoneInv DEF Discover
<1>4. CASE Treat
  BY <1>4, LoadInv, FailuresInv, NoPairInv, EstimateInv, NoEstimateInv, EnsembleInv DEF Treat
<1>5. CASE Conclude
  <2>1. CASE NothingToValidate
    BY <2>1, Stages, GoOnInv DEF NothingToValidate
  <2>2. CASE ReadResults
    BY <2>2, GoOnInv DEF ReadResults
  <2> QED
    BY <1>5, <2>1, <2>2, FailuresInv, StoreJsonInv, FilesInv, FinishInv DEF Conclude
<1>6. CASE DownloadFails \/ QualityRaises \/ StageFails
  BY <1>6, FailuresInv, QualityInv
<1>7. CASE Interrupt \/ Retry
  BY <1>7, InterruptInv, RetryInv
<1>8. CASE \E d \in Disks : KaggleExpires(d)
  BY <1>8, KaggleExpiresInv
<1>9. CASE UNCHANGED vars
  <2>1. UNCHANGED <<job, pc, attempt, faults, state, dataset, understanding, files, results>>
    BY <1>9 DEF vars
  <2>2. TypeOK'
    BY <2>1 DEF IInv, TypeOK, state, files, results
  <2>3. RowsThere' /\ TasksTyped' /\ KaggleSound'
    BY <2>1, RequestStays DEF IInv, RowsThere, TasksTyped, KaggleSound, state, files
  <2>4. FilesSound' /\ ReadingSound'
    BY <2>1, RequestStays DEF IInv, FilesSound, ReadingSound, state, files
  <2>5. FilesDescribed' /\ UnderstandingDescribesData'
    BY <2>1 DEF IInv, FilesDescribed, MadeBy, UnderstandingDescribesData, state, files
  <2>6. GraphsBeside' /\ EffectsBeside' /\ ReportsBeside'
    BY <2>1 DEF IInv, GraphsBeside, EffectsBeside, ReportsBeside, state, results
  <2> QED
    BY <2>2, <2>3, <2>4, <2>5, <2>6 DEF IInv
<1> QED
  BY <1>1, <1>2, <1>3, <1>4, <1>5, <1>6, <1>7, <1>8, <1>9 DEF Next

THEOREM AgentWorkInvariant == Spec => []IInv
BY InitInv, NextInv, PTL DEF Spec

-----------------------------------------------------------------------------
(* The properties *)

\* Type correctness: every variable has its type and every row that of its table,
\* in particular a pair of columns for every effect.
THEOREM TypeCorrect == Spec => []TypeOK
<1>1. IInv => TypeOK
  BY DEF IInv
<1> QED
  BY <1>1, AgentWorkInvariant, PTL

\* Discovery and treatment work on the analysis' own preprocessed table once EDA
\* has been through, whatever file the row of the dataset named before.
THEOREM OwnDataCorrect == Spec => []OwnDataAnalysed
<1>1. IInv => OwnDataAnalysed
  BY DEF IInv, OwnDataAnalysed, RowsThere, FilesSound, ReadingSound
<1> QED
  BY <1>1, AgentWorkInvariant, PTL

\* What discovery and treatment load was made with the candidates that the state
\* and the understanding name, over any number of attempts, as long as no other
\* disk had a file when EDA wrote one.
THEOREM UnderstandingCorrect == Spec => []UnderstandingDescribesData
<1>1. IInv => UnderstandingDescribesData
  BY DEF IInv
<1> QED
  BY <1>1, AgentWorkInvariant, PTL

\* The numbers that discovery and treatment compute with lack nothing, in any
\* attempt and in whichever file; and where the gate has raised and EDA has gone
\* on, a number lacks nothing or more than imputation fills.
THEOREM NumbersCorrect == Spec => []NumbersComplete
<1>1. ASSUME IInv PROVE NumbersComplete
  <2> SUFFICES ASSUME reading # Unread, request.pp.impute,
                      NEW c \in Elements(Table.cols), Numeric(c), c.missing > 0
               PROVE  ungated /\ c.missing > 8
    BY DEF NumbersComplete
  <2>1. c.missing \in {0} \cup WideGaps(request.table) /\ (~ungated => c.missing = 0)
    BY <1>1, TableFacts DEF GapsIn
  <2> QED
    BY <2>1 DEF WideGaps
<1> QED
  BY <1>1, AgentWorkInvariant, PTL

\* What an attempt has stored stands beside what it is made of, wherever it ends.
THEOREM ResultsCorrect == Spec => []ResultsWhole
<1>1. ASSUME IInv PROVE ResultsWhole
  <2> DEFINE json == {r.kind : r \in {x \in reports : x.format = "json"}}
             others == {x \in effects : x.method # "ensemble"}
  <2>1. \A g \in graphs : g.consensus => [g EXCEPT !.consensus = FALSE] \in graphs
    BY <1>1 DEF IInv, GraphsBeside
  <2>2. ASSUME NEW e \in effects, e.method = "ensemble" PROVE Cardinality(others) >= 2
    <3>1. IsFiniteSet(others)
      BY <1>1, FS_Subset DEF IInv, EffectsBeside
    <3>2. PICK x \in others, y \in others : x # y
      BY <1>1, <2>2 DEF IInv, EffectsBeside
    <3> HIDE DEF others
    <3> QED
      BY <3>1, <3>2, TwoIn
  <2>3. \A k \in Kinds : Report("json", k).format = "json" /\ Report("json", k).kind = k
    BY DEF Report
  <2>4. json \subseteq Kinds
    BY <1>1 DEF IInv, TypeOK, ReportRows
  <2>5. reports # {} => json = Kinds
    <3>1. reports # {} => \A k \in Kinds : k \in json
      BY <1>1, <2>3 DEF IInv, ReportsBeside
    <3> QED
      BY <2>4, <3>1
  <2>6. reports = {} => json = {}
    OBVIOUS
  <2>7. Kinds # {}
    BY DEF Kinds
  <2>8. pc = "end" /\ ~errors => Report("html", "technical") \in reports
    BY <1>1 DEF IInv, ReportsBeside
  <2> HIDE DEF json, others
  <2> QED
    BY <2>1, <2>2, <2>5, <2>6, <2>7, <2>8 DEF ResultsWhole, json, others
<1> QED
  BY <1>1, AgentWorkInvariant, PTL

\* Unless the gate has raised, treatment finds a pair in what it has loaded,
\* whatever the user asked for and whoever named the candidates: it ends without
\* a pair (treatment.py:56) only on a table that no gate has judged.
THEOREM PairFound == Spec => [](pc = "estimate" /\ ~ungated => ThePair # << >>)
<1>1. ASSUME IInv, pc = "estimate", ~ungated PROVE ThePair # << >>
  <2>1. reading # Unread
    BY <1>1 DEF IInv, ReadingSound
  <2> QED
    BY <1>1, <2>1, TableFacts
<1> QED
  BY <1>1, AgentWorkInvariant, PTL
=============================================================================
