-------------------------- MODULE AnalysisContract --------------------------
(***************************************************************************)
(* What the rest of the system may rely on about one analysis, whatever    *)
(* the pipeline does inside: the row is created once and deleted once;     *)
(* executions of its task come one at a time and at most MaxRetries + 1    *)
(* times; only an execution reports a status, only while the row is there; *)
(* the one other writer of the status is the request that deletes the row. *)
(***************************************************************************)
EXTENDS Naturals

CONSTANT MaxRetries

VARIABLES
  row,                  \* "none", "live", "deleted"
  status,               \* the status a client reads while the row is live
  tries,                \* executions started
  active                \* an execution is under way

vars == <<row, status, tries, active>>

Init == row = "none" /\ status = "pending" /\ tries = 0 /\ active = FALSE

Create ==
  /\ row = "none"
  /\ row' = "live"
  /\ UNCHANGED <<status, tries, active>>

Begin ==
  /\ ~active /\ tries <= MaxRetries
  /\ active' = TRUE
  /\ tries' = tries + 1
  /\ UNCHANGED <<row, status>>

\* An execution reports, and may end with that report.
Report ==
  /\ active /\ row = "live"
  /\ status' \in {"running", "completed", "failed"}
  /\ active' \in BOOLEAN
  /\ UNCHANGED <<row, tries>>

\* An execution ends by itself, is killed, or dies.
End ==
  /\ active
  /\ active' = FALSE
  /\ UNCHANGED <<row, status, tries>>

Cancel ==
  /\ row = "live"
  /\ status' = "cancelled"
  /\ UNCHANGED <<row, tries, active>>

Delete ==
  /\ row = "live"
  /\ row' = "deleted"
  /\ UNCHANGED <<status, tries, active>>

Next == Create \/ Begin \/ Report \/ End \/ Cancel \/ Delete

Spec == Init /\ [][Next]_vars

=============================================================================
