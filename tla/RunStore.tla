------------------------------ MODULE RunStore ------------------------------
(***************************************************************************)
(* The durable state of one flow run (orchestrator/src/flowStore.ts over   *)
(* db/src/flows.ts, the Postgres store): one row, and the six writes that  *)
(* touch it.  Each write is one statement or one transaction.  Steps are   *)
(* numbers, 0 stands for null.  The outputs and traces the state carries   *)
(* are left out: what a resume needs of them is the step it enters.        *)
(***************************************************************************)
EXTENDS Naturals

Terminal  == {"completed", "error", "cancelled"}
Lifecycle == {"none", "running", "waiting"} \cup Terminal
Reasons   == {"none", "operator", "question", "child", "wait"}

RowType(Steps) ==
  [status  : Lifecycle,
   request : {"none", "pause", "cancel"},
   cursor  : Steps \cup {0},     \* the step of the resume state
   pause   : Reasons,
   attempt : Steps \cup {0}]     \* the side-effecting step in flight

NoRow == [status |-> "none", request |-> "none", cursor |-> 0,
          pause |-> "none", attempt |-> 0]

\* The upsert writes every column but the request, so a run that is resumed
\* has no resume state until its next checkpoint.
StartRun(row) ==
  [row EXCEPT !.status = "running", !.cursor = 0, !.pause = "none", !.attempt = 0]

Checkpoint(row, next, pause) ==
  [row EXCEPT !.status = IF pause = "none" THEN "running" ELSE "waiting",
              !.cursor = next, !.pause = pause, !.attempt = 0]

SetAttempt(row, step) == [row EXCEPT !.attempt = step]

Request(row, request) == [row EXCEPT !.request = request]

AppendRun(row, status, cursor, pause) ==
  [row EXCEPT !.status = status, !.cursor = cursor, !.pause = pause, !.attempt = 0]

\* UPDATE ... WHERE status = 'waiting': the transition is the claim.
MayClaim(row) == row.status = "waiting"
Claimed(row)  == [row EXCEPT !.status = "running", !.request = "none"]
=============================================================================
