----------------------------- MODULE MCFlowRuns -----------------------------
(***************************************************************************)
(* Instances of FlowRuns for TLC.  One run nobody delegates is started; it *)
(* is one of several, so that every kind of step is met.                   *)
(***************************************************************************)
EXTENDS FlowRuns

Plain(kind)  == [kind |-> kind, idempotent |-> FALSE]
Repeat(kind) == [kind |-> kind, idempotent |-> TRUE]

\* Run 1 delegates run 2, which asks a person; run 3 delegates run 4, whose
\* write is reviewed; run 5 waits for its operator and then for a review.
Flows == << <<Plain("agent"), Plain("write")>>,
            <<Plain("human")>>,
            <<Repeat("agent"), Repeat("write")>>,
            <<Plain("review")>>,
            <<Plain("model"), Plain("wait"), Plain("review"), Plain("write")>> >>
Children == <<2, 0, 4, 0, 0>>
=============================================================================
