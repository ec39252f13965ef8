-------------------------- MODULE GovernanceModule --------------------------
(***************************************************************************)
(* Two-tier quorum voting (contracts/src/GovernanceModule.sol).            *)
(*                                                                         *)
(* The calldata of a proposal is a record of Call: fn names the function   *)
(* called on the module itself (SelfFn), or on another contract, where     *)
(* only "setGovernor" matters to propose.  Proposal ids are 1, 2, ...:     *)
(* proposal is the sequence of the structs.  (A veto of an id not created  *)
(* yet writes a slot that propose later overwrites whole: no action here.) *)
(* ballot[id][v] is hasVoted together with what was voted: the side, the   *)
(* weight and the seat at that moment, which the contract only sums.       *)
(***************************************************************************)
EXTENDS Integers, Sequences, Amounts

CONSTANTS Account,      \* addresses that may hold a seat or call
          Root,         \* humanRoot, immutable
          This,         \* address(this)
          RootPower,    \* values of the constructor's rootPower_
          Power,        \* seat weights in use
          Timing,       \* <<votingPeriod, highTierTimelock>> pairs in use
          Quorum,       \* quorum values of the constructor, 0 refused
          Call,         \* the calls made directly or proposed
          MaxTime, MaxProposals   \* model bounds

ASSUME AccountAssumption == /\ IsFiniteSet(Account)
                            /\ Root \in Account /\ This \notin Account
ASSUME NumberAssumption  ==
  /\ RootPower \cup Power \subseteq Nat /\ Quorum \subseteq Nat
  /\ Quorum \ {0} # {} /\ RootPower # {} /\ Timing # {}
  /\ Timing \subseteq (Nat \X Nat) /\ MaxTime \in Nat /\ MaxProposals \in Nat

SelfFn == {"setVotingPower", "admitHuman", "removeHuman", "setQuorumYes",
           "setQuorumHumanYes", "setTiming", "setUnanimityFastPath"}

\* Arguments have the types of the functions called.
ASSUME CallAssumption == \A c \in Call :
  /\ c.fn \in {"setVotingPower", "admitHuman", "removeHuman"} => c.who \in Account
  /\ c.fn \in {"setVotingPower", "admitHuman"} => c.power \in Nat
  /\ c.fn = "setVotingPower" => c.role \in {"None", "Human", "Agent"}
  /\ c.fn \in {"setQuorumYes", "setQuorumHumanYes"} => c.quorum \in Nat
  /\ c.fn = "setTiming" => c.timing \in Nat \X Nat
  /\ c.fn = "setUnanimityFastPath" => c.enabled \in BOOLEAN

VARIABLES votingPower, seatRole, totalVotingPower, totalHumanVotingPower,
          humanSeatCount, quorumYes, quorumHumanYes, timing, unanimityFastPath,
          proposal, ballot, now

seats  == <<votingPower, seatRole, totalVotingPower, totalHumanVotingPower,
            humanSeatCount>>
params == <<quorumYes, quorumHumanYes, timing, unanimityFastPath>>
vars   == <<seats, params, proposal, ballot, now>>

Role      == {"None", "Human", "Agent"}
Id        == DOMAIN proposal
Human     == {v \in Account : seatRole[v] = "Human"}
NoBallot  == [side |-> "none", weight |-> 0, role |-> "None"]
BallotType == [side : {"none", "yes", "no"}, weight : Nat, role : Role]

RootMayAct(sender) ==
  sender = Root /\ (humanSeatCount = 0 \/ seatRole[Root] = "Human")
IsAdmin(sender)   == sender = This \/ RootMayAct(sender)
AnyAdmin(sender)  == sender = This \/ RootMayAct(sender)
SeatAdmin(sender) == sender = This \/ (humanSeatCount = 0 /\ sender = Root)

Fixed(quorum, available) == quorum
AtMost(quorum, available) ==
  IF available > 0 /\ available < quorum THEN available ELSE quorum
EffectiveQuorumYes      == AtMost(quorumYes, totalVotingPower)
EffectiveQuorumHumanYes == AtMost(quorumHumanYes, totalHumanVotingPower)

Init ==
  /\ \E p \in RootPower :
       /\ votingPower = Only(Account, Root, p)
       /\ seatRole = [v \in Account |->
                        IF v = Root /\ p > 0 THEN "Human" ELSE "None"]
       /\ totalVotingPower = p
       /\ totalHumanVotingPower = p
       /\ humanSeatCount = IF p > 0 THEN 1 ELSE 0
  /\ quorumYes \in Quorum \ {0}
  /\ quorumHumanYes \in Quorum \ {0}
  /\ timing \in Timing
  /\ unanimityFastPath = TRUE
  /\ proposal = <<>>
  /\ ballot = <<>>
  /\ now = 1

-----------------------------------------------------------------------------
(* The functions of the module that change seats and parameters, by whoever *)
(* calls them: an account directly, or the module executing a proposal.     *)

KeepsAHuman(was, is) == was > is => humanSeatCount # 1      \* LastHumanSeat

Reweigh(sum, old, new)    == sum - old + new

SetSeat(v, power, role) ==
  LET was == IF seatRole[v] = "Human" THEN 1 ELSE 0
      is  == IF role = "Human" THEN 1 ELSE 0
  IN  /\ KeepsAHuman(was, is)
      /\ humanSeatCount' = humanSeatCount - was + is
      /\ totalVotingPower' = Reweigh(totalVotingPower, votingPower[v], power)
      /\ totalHumanVotingPower' =
           Reweigh(totalHumanVotingPower, was * votingPower[v], is * power)
      /\ votingPower' = [votingPower EXCEPT ![v] = power]
      /\ seatRole' = [seatRole EXCEPT ![v] = role]
      /\ UNCHANGED params

SetVotingPower(sender, v, power, asked) ==
  LET role == IF power = 0 THEN "None" ELSE asked IN
  /\ power # 0 => asked # "None"
  /\ IF role = "Human" \/ seatRole[v] = "Human"
     THEN SeatAdmin(sender) ELSE IsAdmin(sender)
  /\ SetSeat(v, power, role)

AdmitHuman(sender, v, power) ==
  /\ power # 0
  /\ SeatAdmin(sender)
  /\ SetSeat(v, power, "Human")

RemoveHuman(sender, v) ==
  /\ seatRole[v] = "Human"
  /\ SeatAdmin(sender)
  /\ SetSeat(v, 0, "None")

SetQuorumYes(sender, q) ==
  /\ IsAdmin(sender)
  /\ q # 0                                                  \* ZeroQuorum
  /\ quorumYes' = q
  /\ UNCHANGED <<seats, quorumHumanYes, timing, unanimityFastPath>>

SetQuorumHumanYes(sender, q) ==
  /\ IsAdmin(sender)
  /\ q # 0                                                  \* ZeroQuorum
  /\ quorumHumanYes' = q
  /\ UNCHANGED <<seats, quorumYes, timing, unanimityFastPath>>

SetTiming(sender, t) ==
  /\ IsAdmin(sender)
  /\ timing' = t
  /\ UNCHANGED <<seats, quorumYes, quorumHumanYes, unanimityFastPath>>

SetUnanimityFastPath(sender, enabled) ==
  /\ IsAdmin(sender)
  /\ unanimityFastPath' = enabled
  /\ UNCHANGED <<seats, quorumYes, quorumHumanYes, timing>>

Perform(sender, c) ==
  \/ c.fn = "setVotingPower" /\ SetVotingPower(sender, c.who, c.power, c.role)
  \/ c.fn = "admitHuman" /\ AdmitHuman(sender, c.who, c.power)
  \/ c.fn = "removeHuman" /\ RemoveHuman(sender, c.who)
  \/ c.fn = "setQuorumYes" /\ SetQuorumYes(sender, c.quorum)
  \/ c.fn = "setQuorumHumanYes" /\ SetQuorumHumanYes(sender, c.quorum)
  \/ c.fn = "setTiming" /\ SetTiming(sender, c.timing)
  \/ c.fn = "setUnanimityFastPath" /\ SetUnanimityFastPath(sender, c.enabled)

-----------------------------------------------------------------------------
Direct(sender, c) == Perform(sender, c) /\ UNCHANGED <<proposal, ballot, now>>

\* Anyone may propose.  A call of this module, and a setGovernor anywhere,
\* must be proposed at the high tier.
Propose(tier, c) ==
  /\ Len(proposal) < MaxProposals
  /\ c.fn \in SelfFn \cup {"setGovernor"} => tier = "High"
  /\ LET deadline == now + timing[1] IN
       proposal' = Append(proposal,
         [tier |-> tier, call |-> c, yesVotes |-> 0, noVotes |-> 0,
          yesHumanVotes |-> 0, deadline |-> deadline,
          eta |-> IF tier = "High" THEN deadline + timing[2] ELSE 0,
          state |-> "Active"])
  /\ ballot' = Append(ballot, [v \in Account |-> NoBallot])
  /\ UNCHANGED <<seats, params, now>>

\* Each seat votes once; MayVoteAgain leaves hasVoted out.
MayVoteAgain(v, id) ==
  /\ proposal[id].state = "Active" /\ now <= proposal[id].deadline
  /\ votingPower[v] # 0
MayVote(v, id) ==
  /\ proposal[id].state = "Active" /\ now <= proposal[id].deadline
  /\ ballot[id][v] = NoBallot
  /\ votingPower[v] # 0

Vote(v, id, support) ==
  LET p == proposal[id]
      w == votingPower[v]
      h == IF seatRole[v] = "Human" THEN w ELSE 0
  IN  /\ MayVote(v, id)
      /\ ballot' = [ballot EXCEPT ![id][v] =
           [side |-> IF support THEN "yes" ELSE "no", weight |-> w,
            role |-> seatRole[v]]]
      /\ proposal' = [proposal EXCEPT ![id] =
           IF support THEN [p EXCEPT !.yesVotes = @ + w, !.yesHumanVotes = @ + h]
                      ELSE [p EXCEPT !.noVotes = @ + w]]
      /\ UNCHANGED <<seats, params, now>>

MayVeto(v) == (votingPower[v] > 0 /\ seatRole[v] = "Human") \/ RootMayAct(v)

Veto(v, id) ==
  /\ MayVeto(v)
  /\ proposal[id].state = "Active"
  /\ proposal' = [proposal EXCEPT ![id].state = "Vetoed"]
  /\ UNCHANGED <<seats, params, ballot, now>>

Unanimous(p) ==
  /\ unanimityFastPath
  /\ totalHumanVotingPower > 0
  /\ p.yesHumanVotes >= totalHumanVotingPower

\* Only human weight counts towards a high-tier quorum.
Passes(p) ==
  IF p.tier = "High"
  THEN /\ p.yesHumanVotes >= EffectiveQuorumHumanYes
       /\ now >= p.eta \/ Unanimous(p)
  ELSE p.yesVotes >= EffectiveQuorumYes

IsDefeated(p) == now > p.deadline /\ p.noVotes > p.yesVotes

Defeat(id) ==
  /\ proposal[id].state = "Active"
  /\ Passes(proposal[id])
  /\ IsDefeated(proposal[id])
  /\ proposal' = [proposal EXCEPT ![id].state = "Defeated"]
  /\ UNCHANGED <<seats, params, ballot, now>>

\* The call runs with the module as sender; if it fails the whole transaction
\* reverts.  A call of another contract changes nothing here.
Execute(id) ==
  /\ proposal[id].state = "Active"
  /\ Passes(proposal[id])
  /\ ~IsDefeated(proposal[id])
  /\ proposal' = [proposal EXCEPT ![id].state = "Executed"]
  /\ IF proposal[id].call.fn \in SelfFn
     THEN Perform(This, proposal[id].call)
     ELSE UNCHANGED <<seats, params>>
  /\ UNCHANGED <<ballot, now>>

Tick == now < MaxTime /\ now' = now + 1 /\ UNCHANGED <<seats, params, proposal, ballot>>

Next ==
  \/ \E v \in Account, c \in Call : Direct(v, c)
  \/ \E tier \in {"Low", "High"}, c \in Call : Propose(tier, c)
  \/ \E id \in Id :
       \/ \E v \in Account, b \in BOOLEAN : Vote(v, id, b)
       \/ \E v \in Account : Veto(v, id)
       \/ Defeat(id)
       \/ Execute(id)
  \/ Tick

Spec == Init /\ [][Next]_vars

-----------------------------------------------------------------------------
ProposalType ==
  [tier : {"Low", "High"}, call : Call, yesVotes : Nat, noVotes : Nat,
   yesHumanVotes : Nat, deadline : Nat, eta : Nat,
   state : {"Active", "Executed", "Vetoed", "Defeated"}]

\* Types of the module's state; ballots and proposals are numbered alike.
TypeOK ==
  /\ votingPower \in [Account -> Nat]
  /\ seatRole \in [Account -> Role]
  /\ {totalVotingPower, totalHumanVotingPower, humanSeatCount} \subseteq Nat
  /\ {quorumYes, quorumHumanYes} \subseteq Nat \ {0}
  /\ timing \in Nat \X Nat
  /\ unanimityFastPath \in BOOLEAN
  /\ proposal \in Seq(ProposalType)
  /\ ballot \in Seq([Account -> BallotType])
  /\ Len(ballot) = Len(proposal)
  /\ now \in Nat

HumanPower == [v \in Account |-> IF seatRole[v] = "Human" THEN votingPower[v] ELSE 0]

\* The running sums that quorum, unanimity and the last-human guard rely on
\* never drift from the roster, whatever mix of admissions, re-weightings,
\* demotions and removals produced it; and only a funded seat has a role.
SeatsAddUp ==
  /\ totalVotingPower = Total(votingPower)
  /\ totalHumanVotingPower = Total(HumanPower)
  /\ humanSeatCount = Cardinality(Human)
  /\ \A v \in Account : seatRole[v] = "None" <=> votingPower[v] = 0

Counted(id, side, role) ==
  Total([v \in Account |->
    IF ballot[id][v].side = side /\ ballot[id][v].role \in role
    THEN ballot[id][v].weight ELSE 0])

\* A tally is the sum of the ballots: each seat counted once, at the weight
\* and in the role it had when it voted.
TalliesAreBallots ==
  \A id \in Id :
    /\ proposal[id].yesVotes = Counted(id, "yes", Role)
    /\ proposal[id].noVotes = Counted(id, "no", Role)
    /\ proposal[id].yesHumanVotes = Counted(id, "yes", {"Human"})

\* Agents are never the sole final say (SPEC 6.1): a high-tier proposal that
\* was executed has the yes of an account that was a seated human when voting.
HumansHaveFinalSay ==
  \A id \in Id :
    proposal[id].tier = "High" /\ proposal[id].state = "Executed" =>
      \E v \in Account : ballot[id][v].side = "yes" /\ ballot[id][v].role = "Human"

\* Whatever every seated account backs at its present weight meets its quorum,
\* and for the high tier needs no timelock while the fast path is on: the
\* quorum never exceeds what the seated electorate can deliver.
FullBackingPasses ==
  \A id \in Id :
    /\ proposal[id].state = "Active"
    /\ \E v \in Account : seatRole[v] = "Human"
    /\ \A v \in Account : votingPower[v] > 0 =>
         ballot[id][v] = [side |-> "yes", weight |-> votingPower[v], role |-> seatRole[v]]
    => IF unanimityFastPath \/ proposal[id].tier = "Low"
       THEN Passes(proposal[id])
       ELSE proposal[id].yesHumanVotes >= EffectiveQuorumHumanYes

\* Once a human is seated, some human is seated in every later state.
AHumanRemains == [][humanSeatCount > 0 => humanSeatCount' > 0]_vars

\* While any human is seated, who the humans are and what they weigh changes
\* only by executing a high-tier proposal that a human voted for.
RosterNeedsHumans ==
  [][Human # {} /\ HumanPower' # HumanPower =>
       \E id \in Id : /\ proposal[id].tier = "High"
                      /\ proposal[id].state = "Active"
                      /\ proposal'[id].state = "Executed"
                      /\ \E v \in Account : /\ ballot[id][v].side = "yes"
                                            /\ ballot[id][v].role = "Human"]_vars

\* The high-tier delay is skipped only when every human seated at execution
\* voted yes: "the fast path only fires when every seated human backs the
\* action now" (GovernanceModule.sol:411-413).  The code does not keep it: the
\* weight of a human removed after voting stands in for one who never voted.
EarlyNeedsEveryHuman ==
  [][\A id \in Id :
       /\ proposal[id].tier = "High"
       /\ proposal[id].state = "Active"
       /\ proposal'[id].state = "Executed"
       /\ now < proposal[id].eta
       => \A v \in Human : ballot[id][v].side = "yes"]_vars
=============================================================================
