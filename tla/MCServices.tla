----------------------------- MODULE MCServices -----------------------------
(***************************************************************************)
(* An instance each of Heartbeats, InferenceBudgets, EventIndexer and      *)
(* ConnectorAsks for TLC.  They share no state, and each is explored with  *)
(* the others at rest.                                                     *)
(***************************************************************************)
EXTENDS Heartbeats, InferenceBudgets, EventIndexer, ConnectorAsks, TLC

VARIABLE side

\* A crew with a hard budget, and one with a wider budget and a tight seat.
Hard(l) == [limit |-> l, hard |-> TRUE, on |-> TRUE]
ServicesInit ==
  /\ BeatsInit /\ BudgetsInit /\ IndexerInit /\ AsksInit
  /\ \/ /\ side = "meter"
        /\ budget \in {[s \in Scope |-> IF s = Crew THEN Hard(2) ELSE NoBudget],
                       [s \in Scope |-> IF s = Crew THEN Hard(5) ELSE Hard(2)]}
     \/ /\ side \in {"heartbeats", "indexer", "asks"}
        /\ budget = [s \in Scope |-> NoBudget]

ServicesNext ==
  /\ \/ side = "heartbeats" /\ BeatsNext   /\ UNCHANGED <<budgetsVars, indexerVars, asksVars>>
     \/ side = "meter"      /\ BudgetsNext /\ UNCHANGED <<beatsVars, indexerVars, asksVars>>
     \/ side = "indexer"    /\ IndexerNext /\ UNCHANGED <<beatsVars, budgetsVars, asksVars>>
     \/ side = "asks"       /\ AsksNext    /\ UNCHANGED <<beatsVars, budgetsVars, indexerVars>>
  /\ UNCHANGED side

ServicesSpec ==
  ServicesInit /\ [][ServicesNext]_<<side, beatsVars, budgetsVars, indexerVars, asksVars>>

\* One thing at a time besides the calls themselves: the period turns, the
\* operator edits a budget, or a write fails.  Of the sweeps that are handed out
\* again, the press and the crash, three.
Redelivered ==
  {i \in DOMAIN jobs : jobs[i].tries > 1 \/ (jobs[i].tries > 0 /\ Queued(i))}
FewDisturbances ==
  /\ period + edits + lapses <= 2
  /\ Cardinality(Redelivered) + presses + beatsCrashes <= 3

\* Replicas and clients are alike.
Symmetric == Permutations(Replica) \cup Permutations(Client)
=============================================================================
