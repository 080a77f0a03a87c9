----------------------------- MODULE AgentWork -----------------------------
(***************************************************************************)
(* The work of the six agents on one analysis, over the attempts that      *)
(* Celery makes: what they read and write in the tables datasets,          *)
(* data_understandings, causal_graphs, treatment_effects and reports, on   *)
(* the disk of the worker and in the bucket (agents/*.py, with             *)
(* services/storage.py and services/data_loader.py). The stage rows, the   *)
(* status and the retry itself are those of module AnalysisPipeline; here  *)
(* an attempt ends or is interrupted, and the next begins with an empty    *)
(* state, perhaps on another disk.                                         *)
(*                                                                         *)
(* A step ends where a transaction commits or a file is written. A stage   *)
(* that fails is followed by the next stage all the same. Nothing in the   *)
(* code records a local_path in dataset_metadata (the download puts it     *)
(* under the key "metadata", which is not a column), so infer_local_path   *)
(* finds none: a raw table is read from the bucket, by EDA, or not at all. *)
(* The rows of agent_interactions, which nothing reads, are left out.      *)
(*                                                                         *)
(* Other analyses of the same address matter through the cached row: it    *)
(* has a copy in the bucket, and perhaps the path of their preprocessed    *)
(* file, made of the same table with the heuristic candidates: then their  *)
(* gate has passed that table, or has failed to judge it.                  *)
(***************************************************************************)
EXTENDS Preprocessing, CircuitBreaker, FiniteSets

CONSTANTS
  Asked,                \* what each analysis asks for: table, configuration, environment
  LlmAnswers,           \* the candidates that the LLM may name, by answer
  None,                 \* no row, no file, no value
  Disks,                \* of the workers, one each
  Tools,                \* of discovery, in their order
  MaxAttempts,          \* attempts at the task
  MaxFaults             \* bound: failures of disk, bucket, database, tools

Jobs == DOMAIN Asked

Methods  == <<"psm", "dr", "iv">>
Analyses == {"mediation", "heterogeneous", "time_varying"}

\* Who named the candidates of an analysis, and which these are.
Origins == {"heuristic"} \cup DOMAIN LlmAnswers

Candidates ==
  [j \in Jobs |-> [by \in Origins |->
     IF by = "heuristic" THEN Heuristic(Asked[j].table.cols) ELSE LlmAnswers[by]]]

Paths   == {"none", "own", "other"}
Formats == {"json", "html", "markdown", "pdf", "pptx"}

\* The four JSON reports.
Kinds == {"executive", "technical", "visualization", "validation"}

\* The rows of the tables: of a dataset whose preprocessed file it names and
\* what is in the bucket; of an understanding who named its candidates; of a
\* graph the tool, and the file it was made from.
Source == [owner : Paths, by : Origins \cup {None}]

DatasetRows       == [path : Paths, copy : BOOLEAN, raw : BOOLEAN]
UnderstandingRows == Origins
GraphRows         == [tool : {Tools[i] : i \in DOMAIN Tools}, consensus : BOOLEAN, from : Source]
ReportRows        == [format : Formats, kind : Kinds]

ASSUME AgentWorkAssumption ==
  /\ None \notin Origins \cup DatasetRows /\ "heuristic" \notin DOMAIN LlmAnswers
  /\ \A a \in DOMAIN LlmAnswers : AreCandidates(LlmAnswers[a])
  /\ \A j \in Jobs : /\ IsTable(Asked[j].table)
                     /\ Asked[j].prep \in BOOLEAN /\ Asked[j].override \in BOOLEAN
                     /\ Asked[j].bucket \in BOOLEAN
                     /\ Asked[j].wanted \in SUBSET {"discovery", "treatment"}
                     /\ Asked[j].extra \in Seq(Analyses)
  /\ IsSequence(Tools)
  /\ MaxAttempts \in Nat \ {0} /\ MaxFaults \in Nat /\ IsFiniteSet(Disks)

VARIABLES
  job,                  \* the analysis
  pc, attempt, faults,
  errors,               \* a stage of this attempt has failed
  hasDataset, known, wanted,    \* state: dataset_id, data_characteristics, analysis_types
  draft,                \* EDA's candidates, not yet in the database
  stored,               \* whether the last upload left a copy in the bucket
  dataset,              \* the row of datasets: preprocessed path, copies, or None
  understanding,        \* the row of data_understandings: its candidates, or None
  disk,                 \* the one of this attempt
  local, remote,        \* own preprocessed file by disk, and in the bucket: by which candidates
  kaggle,               \* KAGGLE_BREAKER, of each worker
  otherLocal,           \* disks with the other's preprocessed file
  reading,              \* what the stage has loaded: whose file, made how
  todo, done,           \* tools or methods left; methods that gave a result
  graphs, effects, reports,     \* the rows of this attempt; none is changed later
  earlierEffects,       \* earlier attempts have left effects
  wrote,                \* observed: disks with a file when EDA had written one
  ungated               \* observed: EDA has taken a table that no gate has judged

state == <<errors, hasDataset, known, wanted, draft, stored, reading, todo, done>>
files == <<disk, local, remote, otherLocal, wrote, kaggle, ungated>>
results == <<graphs, effects, reports, earlierEffects>>
vars == <<job, pc, attempt, faults, state, dataset, understanding, files, results>>

request == Asked[job]

Unread == [owner |-> "none", by |-> None]

Fresh ==
  /\ errors' = FALSE /\ hasDataset' = FALSE /\ known' = None /\ wanted' = request.wanted
  /\ draft' = None /\ stored' = FALSE /\ reading' = Unread /\ todo' = << >> /\ done' = {}

Init ==
  /\ job \in Jobs
  /\ pc = "download" /\ attempt = 1 /\ faults = 0
  /\ errors = FALSE /\ hasDataset = FALSE /\ known = None /\ wanted = request.wanted
  /\ draft = None /\ stored = FALSE /\ reading = Unread /\ todo = << >> /\ done = {}
  /\ dataset = None /\ understanding = None
  /\ disk \in Disks /\ local = [d \in Disks |-> None] /\ remote = None
  /\ kaggle = [d \in Disks |-> Closed] /\ otherLocal = {} /\ wrote = {}
  /\ ungated = FALSE
  /\ graphs = {} /\ effects = {} /\ reports = {} /\ earlierEffects = FALSE

\* The steps of each stage.
StageOf(p) ==
  CASE p \in {"download", "fetch", "raw", "register"} -> "download"
    [] p \in {"eda", "quality", "explore", "write", "metadata", "understand"} -> "eda"
    [] p \in {"discovery", "search"} -> "discovery"
    [] p \in {"treatment", "estimate"} -> "treatment"
    [] p = "validation" -> "validation"
    [] p \in {"reporting"} \cup Formats -> "reporting"

Working == {"download", "fetch", "raw", "register", "eda", "quality", "explore", "write",
            "metadata", "understand", "discovery", "search", "treatment", "estimate", "validation",
            "reporting"} \cup Formats

\* build_graph
After(s, w) ==
  CASE s = "download" -> "eda"
    [] s = "eda" /\ "discovery" \in w -> "discovery"
    [] /\ s = "discovery" \/ (s = "eda" /\ "discovery" \notin w)
       /\ "treatment" \in w -> "treatment"
    [] s = "treatment" -> "validation"
    [] s = "reporting" -> "end"
    [] OTHER -> "reporting"

\* BaseAgent.run: the stage fails, and the graph goes on.
Fail ==
  /\ errors' = TRUE
  /\ pc' = After(StageOf(pc), wanted)
  /\ draft' = None /\ stored' = FALSE /\ reading' = Unread /\ todo' = << >> /\ done' = {}
  /\ UNCHANGED <<hasDataset, known, wanted>>

Fault == faults < MaxFaults /\ faults' = faults + 1

-----------------------------------------------------------------------------
(* Data acquisition *)

\* The row of an earlier attempt, or a copy of another analysis' row, which has
\* a copy in the bucket and has not expired. It has a preprocessed file of a
\* table with errors only when the other's gate has raised.
Lookup ==
  /\ pc = "download"
  /\ \/ /\ dataset # None
        /\ UNCHANGED <<dataset, otherLocal, ungated>>
        /\ hasDataset' = TRUE /\ pc' = "eda"
     \/ /\ dataset = None /\ request.bucket
        /\ \/ dataset' = [path |-> "none", copy |-> FALSE, raw |-> TRUE]
              /\ UNCHANGED <<otherLocal, ungated>>
           \/ /\ \E c \in BOOLEAN : dataset' = [path |-> "other", copy |-> c, raw |-> TRUE]
              /\ otherLocal' \in {{}, Disks}
              /\ ungated' = (ungated \/ ~WithoutErrors(request.table))
        /\ hasDataset' = TRUE /\ pc' = "eda"
     \/ /\ dataset = None
        /\ pc' = "fetch"
        /\ UNCHANGED <<dataset, hasDataset, otherLocal, ungated>>
  /\ UNCHANGED <<job, attempt, faults, errors, known, wanted, draft, stored, reading, todo,
                 done, understanding, disk, local, remote, wrote,
                 kaggle, results>>

\* _download_with_retry.
Download ==
  /\ pc = "fetch" /\ IsAvailable(kaggle[disk])
  /\ pc' = "raw"
  /\ kaggle' = [kaggle EXCEPT ![disk] = RecordSuccess(Checked(@))]
  /\ UNCHANGED <<job, attempt, faults, state, dataset, understanding, disk, local, remote,
                 otherLocal, wrote, ungated, results>>

\* An error that is not transient, as of the credentials or of the file, leaves
\* the circuit as it is.
DownloadFails ==
  /\ pc = "fetch" /\ IsAvailable(kaggle[disk]) /\ Fault
  /\ \E c \in {Checked(kaggle[disk]), RecordFailure(Checked(kaggle[disk]))} :
       kaggle' = [kaggle EXCEPT ![disk] = c]
  /\ Fail
  /\ UNCHANGED <<job, attempt, dataset, understanding, disk, local, remote, otherLocal, wrote,
                 ungated, results>>

\* An open circuit fails the stage at once.
DownloadRefused ==
  /\ pc = "fetch" /\ ~IsAvailable(kaggle[disk])
  /\ Fail
  /\ UNCHANGED <<job, attempt, faults, dataset, understanding, files, results>>

KaggleExpires(d) ==
  /\ kaggle[d].until = "ahead"
  /\ kaggle' = [kaggle EXCEPT ![d] = Expire(@)]
  /\ UNCHANGED <<job, pc, attempt, faults, state, dataset, understanding, disk, local, remote,
                 otherLocal, wrote, ungated, results>>

\* Raw file on disk, upload_file: without a bucket, or when the client cannot be
\* created, it returns None and nothing fails.
StoreRaw ==
  /\ pc = "raw"
  /\ pc' = "register"
  /\ \/ stored' = request.bucket /\ UNCHANGED faults
     \/ stored' = FALSE /\ Fault
  /\ UNCHANGED <<job, attempt, errors, hasDataset, known, wanted, draft, reading, todo, done,
                 dataset, understanding, files, results>>

\* dataset_crud.create, with an empty dataset_metadata.
Register ==
  /\ pc = "register"
  /\ pc' = "eda"
  /\ dataset' = [path |-> "none", copy |-> FALSE, raw |-> stored]
  /\ hasDataset' = TRUE /\ stored' = FALSE
  /\ UNCHANGED <<job, attempt, faults, errors, known, wanted, draft, reading, todo, done,
                 understanding, files, results>>

-----------------------------------------------------------------------------
(* Exploratory analysis *)

\* _augment_analysis_types: a column of dates asks for time_varying, and with it
\* for the treatment branch.
Augmented ==
  IF \E c \in Elements(request.table.cols) : c.kind = "date"
    THEN wanted \cup {"treatment"} ELSE wanted

\* The understanding of an earlier attempt is used again.
ReuseUnderstanding ==
  /\ pc = "eda" /\ hasDataset /\ understanding # None
  /\ known' = understanding /\ wanted' = Augmented
  /\ pc' = After("eda", wanted')
  /\ UNCHANGED <<job, attempt, faults, errors, hasDataset, draft, stored, reading, todo,
                 done, dataset, understanding, files, results>>

\* _load_dataframe, from the bucket to the cache directory. The path of the
\* local file is recorded nowhere.
LoadRaw ==
  /\ pc = "eda" /\ hasDataset /\ understanding = None /\ dataset.raw
  /\ pc' = "quality"
  /\ UNCHANGED <<job, attempt, faults, state, dataset, understanding, files, results>>

\* Mutant: the failed download is not noticed here.
LoadRawFailsWithRow ==
  /\ pc = "eda" /\ hasDataset
  /\ understanding = None /\ ~dataset.raw
  /\ Fail
  /\ UNCHANGED <<job, attempt, faults, dataset, understanding, files, results>>

LoadRawFails ==
  /\ pc = "eda"
  /\ hasDataset => understanding = None /\ ~dataset.raw
  /\ Fail
  /\ UNCHANGED <<job, attempt, faults, dataset, understanding, files, results>>

\* The quality gate, and its two verdicts.
QualityPasses ==
  /\ pc = "quality" /\ Passes(request.table, request.override)
  /\ pc' = "explore"
  /\ UNCHANGED <<job, attempt, faults, state, dataset, understanding, files, results>>

QualityFails ==
  /\ pc = "quality" /\ ~Passes(request.table, request.override)
  /\ Fail
  /\ UNCHANGED <<job, attempt, faults, dataset, understanding, files, results>>

\* Another exception than the AgentFailure of that verdict is logged, and EDA
\* goes on with whatever table it has.
QualityRaises ==
  /\ pc = "quality" /\ Fault
  /\ pc' = "explore"
  /\ ungated' = TRUE
  /\ UNCHANGED <<job, attempt, state, dataset, understanding, disk, local, remote, otherLocal,
                 wrote, kaggle, results>>

\* The candidates and the persisted analysis types.
Explore ==
  /\ pc = "explore"
  /\ draft' \in Origins
  /\ wanted' = Augmented
  /\ pc' = IF request.prep THEN "write" ELSE "understand"
  /\ UNCHANGED <<job, attempt, faults, errors, hasDataset, known, stored, reading, todo, done,
                 dataset, understanding, files, results>>

\* Mutant: a file that exists is not written again.
WritePreprocessedOnce ==
  /\ pc = "write"
  /\ pc' = "metadata"
  /\ local' = [local EXCEPT ![disk] = IF @ = None THEN draft ELSE @]
  /\ \/ /\ stored' = request.bucket
        /\ remote' = IF request.bucket THEN local'[disk] ELSE remote
        /\ UNCHANGED faults
     \/ stored' = FALSE /\ Fault /\ UNCHANGED remote
  /\ wrote' = wrote \cup {d \in Disks : local'[d] # None}
  /\ UNCHANGED <<job, attempt, errors, hasDataset, known, wanted, draft, reading, todo, done,
                 dataset, understanding, disk, otherLocal, kaggle, ungated, results>>

\* The preprocessed table replaces file and object of an earlier attempt.
WritePreprocessed ==
  /\ pc = "write"
  /\ pc' = "metadata"
  /\ local' = [local EXCEPT ![disk] = draft]
  /\ \/ /\ stored' = request.bucket
        /\ remote' = IF request.bucket THEN draft ELSE remote
        /\ UNCHANGED faults
     \/ stored' = FALSE /\ Fault /\ UNCHANGED remote
  /\ wrote' = wrote \cup {d \in Disks : local'[d] # None}
  /\ UNCHANGED <<job, attempt, errors, hasDataset, known, wanted, draft, reading, todo, done,
                 dataset, understanding, disk, otherLocal, kaggle, ungated, results>>

\* Mutant: a path that the row has already is kept.
StorePathsOnce ==
  /\ pc = "metadata"
  /\ pc' = "understand"
  /\ dataset' = IF dataset.path = "none" THEN [dataset EXCEPT !.path = "own", !.copy = stored]
                ELSE dataset
  /\ stored' = FALSE
  /\ UNCHANGED <<job, attempt, faults, errors, hasDataset, known, wanted, draft, reading,
                 todo, done, understanding, files, results>>

\* The paths are committed on their own, before the understanding.
StorePaths ==
  /\ pc = "metadata"
  /\ pc' = "understand"
  /\ dataset' = [dataset EXCEPT !.path = "own", !.copy = stored]
  /\ stored' = FALSE
  /\ UNCHANGED <<job, attempt, faults, errors, hasDataset, known, wanted, draft, reading,
                 todo, done, understanding, files, results>>

\* The row of data_understandings, and the characteristics in the same commit.
StoreUnderstanding ==
  /\ pc = "understand"
  /\ understanding' = draft /\ known' = draft /\ draft' = None
  /\ pc' = After("eda", wanted)
  /\ UNCHANGED <<job, attempt, faults, errors, hasDataset, wanted, stored, reading, todo,
                 done, dataset, files, results>>

-----------------------------------------------------------------------------
(* The load of discovery and treatment: _load_dataframe *)

\* Whose preprocessed file can be had, and what it holds: from disk, or after a
\* download that puts it there.
Found ==
  IF dataset = None THEN Unread
  ELSE CASE dataset.path = "own" /\ local[disk] # None ->
              [owner |-> "own", by |-> local[disk]]
         [] dataset.path = "own" /\ local[disk] = None /\ dataset.copy ->
              [owner |-> "own", by |-> remote]
         [] dataset.path = "other" /\ (disk \in otherLocal \/ dataset.copy) ->
              [owner |-> "other", by |-> "heuristic"]
         [] OTHER -> Unread

Downloaded ==
  /\ local' = [local EXCEPT ![disk] = IF Found.owner = "own" THEN Found.by ELSE @]
  /\ otherLocal' = IF Found.owner = "other" THEN otherLocal \cup {disk} ELSE otherLocal
  /\ UNCHANGED <<disk, remote, wrote, kaggle, ungated>>

\* The raw file would be next, at a path that is never recorded.
NotFound ==
  /\ ~hasDataset \/ Found = Unread
  /\ Fail
  /\ UNCHANGED <<job, attempt, faults, dataset, understanding, files, results>>

\* The table the stage works on.
Preprocessed ==
  [j \in Jobs |-> [by \in Origins |->
     Preprocess(Asked[j].table, Asked[j].pp, Candidates[j][by])]]

Table == Preprocessed[job][reading.by]

-----------------------------------------------------------------------------
(* Discovery *)

Permitted(tool) == request.table.rows >= (IF tool = "pc" THEN 200 ELSE 300)

LoadForDiscovery ==
  /\ pc = "discovery" /\ hasDataset /\ Found # Unread
  /\ reading' = Found
  /\ Downloaded
  /\ todo' = Keep(Tools, {tool \in Elements(Tools) : Permitted(tool)})
  /\ pc' = "search"
  /\ UNCHANGED <<job, attempt, faults, errors, hasDataset, known, wanted, draft, stored, done,
                 dataset, understanding, results>>

LoadForDiscoveryFails == pc = "discovery" /\ NotFound

\* _prepare_matrix: no column varies.
NoVariables ==
  /\ pc = "search" /\ Variables(Table) = {}
  /\ Fail
  /\ UNCHANGED <<job, attempt, faults, dataset, understanding, files, results>>

Graph(consensus) ==
  [tool |-> Head(todo), consensus |-> consensus, from |-> reading]

\* _cross_validate_discovery: the edges that most folds agree on, if any fold
\* gave an edge; folds that fail are passed over.
Consensuses == {{}, {Graph(TRUE)}}

\* A tool's graph, and the consensus over the folds if there is one, in one commit.
StoreGraph ==
  /\ pc = "search" /\ Variables(Table) # {} /\ todo # << >>
  /\ \E consensus \in Consensuses : graphs' = graphs \cup {Graph(FALSE)} \cup consensus
  /\ todo' = Tail(todo)
  /\ UNCHANGED <<job, pc, attempt, faults, errors, hasDataset, known, wanted, draft, stored,
                 reading, done, dataset, understanding, files, effects, reports, earlierEffects>>

DiscoveryDone ==
  /\ pc = "search" /\ Variables(Table) # {} /\ todo = << >>
  /\ pc' = After("discovery", wanted)
  /\ reading' = Unread
  /\ UNCHANGED <<job, attempt, faults, errors, hasDataset, known, wanted, draft, stored, todo,
                 done, dataset, understanding, files, results>>

-----------------------------------------------------------------------------
(* Treatment effects *)

NoCandidates == [treatment |-> << >>, outcome |-> << >>, confounder |-> << >>]
StateCandidates == IF known = None THEN NoCandidates ELSE Candidates[job][known]

\* None only for a table that the gate has not judged: the gate asks for two
\* numeric columns, and preprocessing keeps them.
ThePair == SelectPair(request.pair, StateCandidates, Table)

PermittedMethod(m) ==
  request.table.rows >= (CASE m = "psm" -> 0 [] m = "dr" -> 500 [] m = "iv" -> 300)

\* The analyses that are wanted besides, in the order of the code.
Besides ==
  Keep(<<"mediation", "heterogeneous", "time_varying">>,
    {a \in Analyses :
       \/ a \in Elements(request.extra)
       \/ a = "time_varying" /\ \E c \in Elements(request.table.cols) : c.kind = "date"})

LoadForTreatment ==
  /\ pc = "treatment" /\ hasDataset /\ Found # Unread
  /\ reading' = Found
  /\ Downloaded
  /\ todo' = Keep(Methods, {m \in Elements(Methods) : PermittedMethod(m)}) \o Besides
  /\ pc' = "estimate"
  /\ UNCHANGED <<job, attempt, faults, errors, hasDataset, known, wanted, draft, stored, done,
                 dataset, understanding, results>>

LoadForTreatmentFails == pc = "treatment" /\ NotFound

\* The stage ends well without a result.
NoPair ==
  /\ pc = "estimate" /\ ThePair = << >>
  /\ pc' = After("treatment", wanted)
  /\ reading' = Unread /\ todo' = << >> /\ done' = {}
  /\ UNCHANGED <<job, attempt, faults, errors, hasDataset, known, wanted, draft, stored,
                 dataset, understanding, files, results>>

Effect(method) ==
  [method |-> method, pair |-> ThePair, from |-> reading]

\* Matching is for two values of the treatment; another error is caught too.
MatchingFits == Named(Table.cols, ThePair[1]).unique = 2

\* The confounders are looked up in the table.
DoublyRobustFits == Confounders(StateCandidates, ThePair) \subseteq Names(Table.cols)

\* _select_instrument: a number that is neither side, between two numbers.
Instruments ==
  LET numbers == Names(Numbers(Table.cols)) IN
  IF Elements(ThePair) \subseteq numbers THEN numbers \ Elements(ThePair) ELSE {}

InstrumentFits == Instruments # {}

Feasible(method) ==
  CASE method = "psm" -> MatchingFits
    [] method = "dr"  -> DoublyRobustFits
    [] method = "iv"  -> InstrumentFits

\* _store_effect commits each effect on its own.
Estimate ==
  /\ pc = "estimate" /\ ThePair # << >> /\ todo # << >>
  /\ Head(todo) \notin Analyses /\ Feasible(Head(todo))
  /\ effects' = effects \cup {Effect(Head(todo))}
  /\ done' = done \cup {Head(todo)}
  /\ todo' = Tail(todo)
  /\ UNCHANGED <<job, pc, attempt, faults, errors, hasDataset, known, wanted, draft, stored,
                 reading, dataset, understanding, files, graphs, reports, earlierEffects>>

\* No result: a library is absent, no instrument, or matching failed. What the
\* analyses besides find goes to the state only.
NoEstimate ==
  /\ pc = "estimate" /\ ThePair # << >> /\ todo # << >>
  /\ todo' = Tail(todo)
  /\ UNCHANGED <<job, pc, attempt, faults, errors, hasDataset, known, wanted, draft, stored,
                 reading, done, dataset, understanding, files, results>>

\* Only matching catches its exceptions; the effects stored before stay.
EstimateRaises ==
  /\ pc = "estimate" /\ ThePair # << >> /\ todo # << >> /\ Head(todo) # "psm"
  /\ Fail
  /\ UNCHANGED <<job, attempt, faults, dataset, understanding, files, results>>

\* _ensemble_estimate, stored as method OTHER.
Ensemble ==
  /\ pc = "estimate" /\ ThePair # << >> /\ todo = << >>
  /\ effects' = IF Cardinality(done) >= 2 THEN effects \cup {Effect("ensemble")} ELSE effects
  /\ pc' = After("treatment", wanted)
  /\ reading' = Unread /\ done' = {}
  /\ UNCHANGED <<job, attempt, faults, errors, hasDataset, known, wanted, draft, stored, todo,
                 dataset, understanding, files, graphs, reports, earlierEffects>>

-----------------------------------------------------------------------------
(* Validation and reports *)

NothingToValidate ==
  /\ pc = "validation" /\ hasDataset /\ effects = {} /\ ~earlierEffects
  /\ pc' = After("validation", wanted)
  /\ UNCHANGED <<job, attempt, faults, state, dataset, understanding, files, results>>

\* _load_dataframe of validation knows the recorded local path only.
ValidationFails ==
  /\ pc = "validation"
  /\ ~hasDataset \/ effects # {} \/ earlierEffects
  /\ Fail
  /\ UNCHANGED <<job, attempt, faults, dataset, understanding, files, results>>

\* The results are read, and the LLM writes the summary or the default is used.
ReadResults ==
  /\ pc = "reporting"
  /\ pc' = "json"
  /\ UNCHANGED <<job, attempt, faults, state, dataset, understanding, files, results>>

Report(format, kind) == [format |-> format, kind |-> kind]

\* Mutant: a session for each of the four.
StoreJsonSingly ==
  /\ pc = "json"
  /\ \/ \E k \in Kinds : reports' = reports \cup {Report("json", k)} /\ pc' \in {"json", "html"}
  /\ UNCHANGED <<job, attempt, faults, state, dataset, understanding, files, graphs, effects,
                 earlierEffects>>

\* The four JSON reports in one commit.
StoreJson ==
  /\ pc = "json"
  /\ reports' = reports \cup {Report("json", k) : k \in Kinds}
  /\ pc' = "html"
  /\ UNCHANGED <<job, attempt, faults, state, dataset, understanding, files, graphs, effects,
                 earlierEffects>>

NextFormat == CASE pc = "html" -> "markdown" [] pc = "markdown" -> "pdf"
                [] pc = "pdf" -> "pptx" [] pc = "pptx" -> "end"

\* Written, uploaded, then committed, one after the other.
StoreFile(format, kind) ==
  /\ pc = format
  /\ reports' = reports \cup {Report(format, kind)}
  /\ pc' = NextFormat
  /\ UNCHANGED <<job, attempt, faults, state, dataset, understanding, files, graphs, effects,
                 earlierEffects>>

\* Switched off, or the generator gave nothing.
SkipFile(format) ==
  /\ pc = format
  /\ pc' = NextFormat
  /\ UNCHANGED <<job, attempt, faults, state, dataset, understanding, files, results>>

StoreHtml     == StoreFile("html", "technical")
StoreMarkdown == StoreFile("markdown", "technical") \/ SkipFile("markdown")
StorePdf      == StoreFile("pdf", "executive") \/ SkipFile("pdf")
StorePptx     == StoreFile("pptx", "executive") \/ SkipFile("pptx")

-----------------------------------------------------------------------------
(* Failures and attempts *)

\* An exception in an agent: storage, bucket, database, tool, Kaggle. The gate
\* catches its own.
StageFails ==
  /\ pc \in Working \ {"quality"} /\ Fault
  /\ Fail
  /\ UNCHANGED <<job, attempt, dataset, understanding, files, results>>

\* Mutant: one retry too many.
InterruptOneMore ==
  /\ pc \in Working \cup {"end"} /\ Fault
  /\ pc' = IF attempt <= MaxAttempts THEN "retry" ELSE "over"
  /\ UNCHANGED <<job, attempt, state, dataset, understanding, files, results>>

\* The attempt ends before the graph does: an exception outside of the agents,
\* a time limit. Celery retries while attempts are left.
Interrupt ==
  /\ pc \in Working \cup {"end"} /\ Fault
  /\ pc' = IF attempt < MaxAttempts THEN "retry" ELSE "over"
  /\ UNCHANGED <<job, attempt, state, dataset, understanding, files, results>>

\* Any worker takes the next attempt.
Retry ==
  /\ pc = "retry"
  /\ pc' = "download"
  /\ attempt' = attempt + 1
  /\ disk' \in Disks
  /\ Fresh
  /\ graphs' = {} /\ effects' = {} /\ reports' = {}
  /\ earlierEffects' = (earlierEffects \/ effects # {})
  /\ UNCHANGED <<job, faults, dataset, understanding, local, remote, otherLocal,
                 wrote, kaggle, ungated>>

Finish ==
  /\ pc = "end"
  /\ pc' = "over"
  /\ UNCHANGED <<job, attempt, faults, state, dataset, understanding, files, results>>

-----------------------------------------------------------------------------

Acquire  == Lookup \/ Download \/ DownloadRefused \/ StoreRaw \/ Register
Eda      == ReuseUnderstanding \/ LoadRaw \/ LoadRawFails \/ QualityPasses \/ QualityFails
              \/ Explore \/ WritePreprocessed \/ StorePaths \/ StoreUnderstanding
Discover == LoadForDiscovery \/ LoadForDiscoveryFails \/ NoVariables \/ StoreGraph
              \/ DiscoveryDone
Treat    == LoadForTreatment \/ LoadForTreatmentFails \/ NoPair \/ Estimate
              \/ NoEstimate \/ EstimateRaises \/ Ensemble
Conclude == NothingToValidate \/ ValidationFails \/ ReadResults \/ StoreJson \/ StoreHtml
              \/ StoreMarkdown \/ StorePdf \/ StorePptx \/ Finish

Next == \/ Acquire \/ Eda \/ Discover \/ Treat \/ Conclude \/ DownloadFails
        \/ QualityRaises \/ StageFails \/ Interrupt \/ Retry
        \/ \E d \in Disks : KaggleExpires(d)

Spec == Init /\ [][Next]_vars

\* An agent goes on with what it has begun, and Celery with its retry.
FairSpec == Spec /\ WF_vars(Acquire \/ Eda \/ Discover \/ Treat \/ Conclude \/ Retry)

-----------------------------------------------------------------------------
(* Properties *)

\* Every variable has its type, every row that of its table.
TypeOK ==
  /\ job \in Jobs /\ pc \in Working \cup {"end", "retry", "over"}
  /\ attempt \in 1..MaxAttempts /\ faults \in 0..MaxFaults
  /\ errors \in BOOLEAN /\ hasDataset \in BOOLEAN
  /\ known \in Origins \cup {None} /\ draft \in Origins \cup {None}
  /\ wanted \in SUBSET {"discovery", "treatment"} /\ stored \in BOOLEAN
  /\ dataset = None \/ dataset \in DatasetRows
  /\ understanding \in UnderstandingRows \cup {None}
  /\ graphs \subseteq GraphRows /\ reports \subseteq ReportRows
  /\ \A e \in effects : Len(e.pair) = 2 /\ e.from \in Source
  /\ disk \in Disks /\ local \in [Disks -> Origins \cup {None}]
  /\ remote \in Origins \cup {None} /\ kaggle \in [Disks -> Circuits]
  /\ otherLocal \in SUBSET Disks /\ wrote \in SUBSET Disks
  /\ ungated \in BOOLEAN
  /\ reading \in Source

\* When EDA has been through, in this attempt or before, and preprocessing is
\* on, discovery and treatment work on the analysis' own preprocessed table,
\* although the row may have begun as a copy that names another analysis' file
\* (data_acquisition.py:63 against eda.py:233 and discovery.py:273).
OwnDataAnalysed ==
  request.prep /\ known # None /\ reading # Unread => reading.owner = "own"

\* What they load was made with the candidates that the state and the
\* understanding name, however often an attempt ended between the file, the
\* paths and the understanding; as long as no other disk had a file when EDA
\* wrote one. (A later attempt on that other disk finds the older file.)
UnderstandingDescribesData ==
  /\ Cardinality(wrote) <= 1 /\ known # None /\ reading.owner = "own"
  => known = understanding /\ reading.by = understanding

\* The gate lets half of a column be missing, imputation fills up to four
\* fifths: of what preprocessing leaves as numbers, nothing is missing when
\* discovery and treatment compute with it, in this attempt or a later one, on
\* a table of their own or of another analysis' making (data_quality.py:137
\* against data_preprocessing.py:193). When the gate has raised and EDA has
\* gone on (eda.py:140), only columns can have gaps that imputation gives up.
NumbersComplete ==
  reading # Unread /\ request.pp.impute =>
    \A c \in Elements(Table.cols) :
      Numeric(c) /\ c.missing > 0 => ungated /\ c.missing > 8

\* What an attempt has stored stands beside what it is made of, wherever the
\* attempt ends: a consensus beside its graph, an ensemble beside two effects,
\* files beside the JSON reports, and of these all four or none. A graph that
\* ends without an error has left them and the HTML report.
ResultsWhole ==
  LET json == {r.kind : r \in {x \in reports : x.format = "json"}} IN
  /\ \A g \in graphs : g.consensus => [g EXCEPT !.consensus = FALSE] \in graphs
  /\ \A e \in effects : e.method = "ensemble" =>
       Cardinality({x \in effects : x.method # "ensemble"}) >= 2
  /\ json \in {{}, Kinds} /\ (reports # {} => json # {})
  /\ pc = "end" /\ ~errors => json = Kinds /\ Report("html", "technical") \in reports

\* The work ends: every stage is left, by its end or by its failure.
WorkEnds == <>(pc = "over")

=============================================================================
