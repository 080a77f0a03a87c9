----------------------------- MODULE StageRows -----------------------------
(***************************************************************************)
(* The rows of table analysis_stages that belong to one stage of one       *)
(* analysis, as services/stages.py and services/progress.py write them.    *)
(*                                                                         *)
(* Nothing in the schema makes (analysis_id, stage) unique, and two        *)
(* sessions write the table for the same event: the caller's, which        *)
(* flushes the row it tracks by id and then publishes the event before it  *)
(* commits, and the publisher's (_upsert_stage_progress), which looks for  *)
(* a row of the stage among the committed ones and commits its own write   *)
(* at once. A first start_stage therefore leaves two rows: the one the     *)
(* caller tracks, and the "echo" the publisher inserted because the        *)
(* caller's row was not visible to it yet. The echo's transaction begins   *)
(* later, so it has the later updated_at and is the row the publisher      *)
(* picks from then on; the tracked row is picked only when it is alone.    *)
(*                                                                         *)
(* A row is abstracted to its status: step, progress and errors are        *)
(* functions of the event that set the status.                             *)
(***************************************************************************)

CONSTANT NoRow          \* stands for a row that does not exist

StageStatus == {"running", "completed", "failed"}

ASSUME NoRowAssumption == NoRow \notin StageStatus

RowPair == [tracked : StageStatus \cup {NoRow}, echo : StageStatus \cup {NoRow}]

NoRows == [tracked |-> NoRow, echo |-> NoRow]

\* start_stage's scalar_one_or_none raises MultipleResultsFound on such a pair.
Ambiguous(r) == r.tracked # NoRow /\ r.echo # NoRow

\* A row that is alone is the one start_stage finds, updates and tracks,
\* whichever session inserted it.
Adopt(r) ==
  IF r.tracked = NoRow THEN [tracked |-> r.echo, echo |-> NoRow] ELSE r

\* The publisher's session has to wait for the row it picked: the row is alone,
\* and the caller's open transaction has locked it; or it is the echo, and a
\* DELETE that waits for the caller has locked it (echoLocked). An event that
\* repeats what is committed changes no column: SQLAlchemy sends no UPDATE.
UpsertWaits(r, st, echoLocked) ==
  IF r.echo = NoRow THEN r.tracked \notin {NoRow, st}
                    ELSE echoLocked /\ r.echo # st

\* The pair once the publisher's session has committed.
Upsert(r, st) ==
  IF r.echo = NoRow /\ r.tracked # NoRow THEN r ELSE [r EXCEPT !.echo = st]

\* The pair once the caller's transaction has committed.
Track(r, st) == [r EXCEPT !.tracked = st]

=============================================================================
