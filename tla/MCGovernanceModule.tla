------------------------ MODULE MCGovernanceModule -------------------------
(* The root human, a possible second human and an agent seat.  MCCalls has *)
(* one call per function of the module and two calls of other contracts.   *)
EXTENDS GovernanceModule, TLC

CONSTANTS root, ann, bot, module

MCAccount == {root, ann, bot}

Seat(v, p, r) == [fn |-> "setVotingPower", who |-> v, power |-> p, role |-> r]

MCHumanCalls ==
  {[fn |-> "admitHuman", who |-> ann, power |-> 1],
   [fn |-> "removeHuman", who |-> root], Seat(root, 1, "Agent")}

MCCalls == MCHumanCalls \cup
  {Seat(bot, 1, "Agent"),
   [fn |-> "setQuorumYes", quorum |-> 3], [fn |-> "setQuorumYes", quorum |-> 0],
   [fn |-> "setQuorumHumanYes", quorum |-> 3],
   [fn |-> "setTiming", timing |-> <<0, 0>>],
   [fn |-> "setUnanimityFastPath", enabled |-> FALSE],
   [fn |-> "other"]}

MCShrinkingCalls ==
  {[fn |-> "admitHuman", who |-> ann, power |-> 2],
   [fn |-> "removeHuman", who |-> root], [fn |-> "other"]}

MCTiming == {<<1, 1>>}
MCShort  == {<<0, 1>>}

\* At most one parameter differs from the deployment's, and of two proposals
\* one is about a human seat: each parameter and each other call is tried with
\* everything else, not all of them together.  A deployment without a root seat
\* is followed through the direct calls that set it up, not into its proposals.
Number(b) == IF b THEN 1 ELSE 0
OneAtATime ==
  /\ Number(quorumYes # 1) + Number(quorumHumanYes # 1)
     + Number(timing \notin MCShort) + Number(~unanimityFastPath) <= 1
  /\ \E id \in 0..Len(proposal) : \A other \in Id \ {id} :
       proposal[other].call \in MCHumanCalls
  /\ \/ seatRole[Root] = "Human" \/ proposal = <<>>
     \/ \E id \in Id : proposal[id].state = "Executed"
=============================================================================
