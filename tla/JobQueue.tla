------------------------------ MODULE JobQueue ------------------------------
(***************************************************************************)
(* The durable job queue as the orchestrator uses it                       *)
(* (orchestrator/src/queue/pg-boss.ts over pg-boss, which is external): a  *)
(* job is handed to one worker of one replica; it is handed out again when *)
(* its time is up before it finished, because its replica died or because  *)
(* it is still being worked on.                                            *)
(***************************************************************************)
EXTENDS Naturals, Sequences, FiniteSets

CONSTANTS Replica,
          MaxTries     \* how often the queue hands a job out at most

ASSUME MaxTriesAssumption == MaxTries \in Nat \ {0}
ASSUME ReplicasAssumption == IsFiniteSet(Replica)

VARIABLE jobs          \* in the order they were sent; none is ever removed

JobAbout(what) ==
  [work : what, state : {"queued", "active", "completed", "failed"}, tries : Nat]

Sent(work) == Append(jobs, [work |-> work, state |-> "queued", tries |-> 0])

Queued(i) == jobs[i].state = "queued"

Taken(i) == [jobs EXCEPT ![i].state = "active", ![i].tries = @ + 1]

\* A worker is done with the job: whichever is first completes it, unless it
\* is about to be handed out again.
Finished(i) ==
  IF jobs[i].state = "active" THEN [jobs EXCEPT ![i].state = "completed"] ELSE jobs

\* A mutant of Unfinished: the job is not handed out again.
Dropped(i) == [jobs EXCEPT ![i].state = "completed"]

\* Not finished, or not in time: it is handed out again while it has tries left.
Unfinished(i) ==
  [jobs EXCEPT ![i].state = IF jobs[i].tries < MaxTries THEN "queued" ELSE "failed"]

Expire(i) == jobs[i].state = "active" /\ jobs' = Unfinished(i)
=============================================================================
