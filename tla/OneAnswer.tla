----------------------------- MODULE OneAnswer ------------------------------
(***************************************************************************)
(* What a question that holds a run promises (orchestrator/src/            *)
(* dualControl.ts and humanGates.ts): it is decided once, a decision is    *)
(* never changed, and each agreement releases one effect at most.  Some    *)
(* questions may be asked again, which withdraws the decision.             *)
(***************************************************************************)
EXTENDS Naturals

CONSTANTS Question, Repeatable

VARIABLES decision, agreed, released

Init == /\ decision = [q \in Question |-> "none"]
        /\ agreed   = [q \in Question |-> 0]
        /\ released = [q \in Question |-> 0]

Decide(Q, d) ==
  /\ \A q \in Q : decision[q] = "none"
  /\ decision' = [q \in Question |-> IF q \in Q THEN d ELSE decision[q]]
  /\ agreed' = [q \in Question |->
                  IF q \in Q /\ d = "yes" THEN agreed[q] + 1 ELSE agreed[q]]
  /\ UNCHANGED released

AskAgain(q) ==
  /\ decision' = [decision EXCEPT ![q] = "none"]
  /\ UNCHANGED <<agreed, released>>

Release(q) ==
  /\ released[q] < agreed[q]
  /\ released' = [released EXCEPT ![q] = @ + 1]
  /\ UNCHANGED <<decision, agreed>>

Next ==
  \/ \E Q \in SUBSET Question, d \in {"yes", "no", "timed_out", "cancelled"} : Decide(Q, d)
  \/ \E q \in Question : Release(q)
  \/ \E q \in Repeatable : AskAgain(q)

Spec == Init /\ [][Next]_<<decision, agreed, released>>
=============================================================================
