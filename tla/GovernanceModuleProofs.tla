----------------------- MODULE GovernanceModuleProofs -----------------------
(***************************************************************************)
(* Governance keeps its books and its humans, for every set of accounts,   *)
(* weights, calls and proposals.                                           *)
(*                                                                         *)
(* GovInv is inductive.  That humans have the final say needs the tallies  *)
(* (a quorum that is met has voters behind it), and that the roster needs  *)
(* them needs that calls of the module itself are high tier, which propose *)
(* checks once and nothing rechecks.  Full backing passes because the      *)
(* ballots behind a tally include every seat at its present weight.        *)
(***************************************************************************)
EXTENDS GovernanceModule

SeatTypes ==
  /\ votingPower \in [Account -> Nat]
  /\ seatRole \in [Account -> Role]
  /\ totalVotingPower \in Nat /\ totalHumanVotingPower \in Nat /\ humanSeatCount \in Nat

ParamTypes ==
  /\ quorumYes \in Nat \ {0} /\ quorumHumanYes \in Nat \ {0}
  /\ timing \in Nat \X Nat /\ unanimityFastPath \in BOOLEAN

ProposalTypes ==
  /\ proposal \in Seq(ProposalType)
  /\ ballot \in Seq([Account -> BallotType])
  /\ Len(ballot) = Len(proposal)

SelfCallsAreHigh ==
  \A id \in Id : proposal[id].call.fn \in SelfFn => proposal[id].tier = "High"

GovInv == /\ TypeOK /\ SeatsAddUp /\ TalliesAreBallots
          /\ SelfCallsAreHigh /\ HumansHaveFinalSay

LEMMA TypeParts ==
  /\ TypeOK <=> SeatTypes /\ ParamTypes /\ ProposalTypes /\ now \in Nat
  /\ TypeOK' <=> SeatTypes' /\ ParamTypes' /\ ProposalTypes' /\ now' \in Nat
  BY DEF TypeOK, SeatTypes, ParamTypes, ProposalTypes

-----------------------------------------------------------------------------
(* Seats. *)
LEMMA HumanSeats ==
  ASSUME SeatTypes
  PROVE  /\ HumanPower \in [Account -> Nat]
         /\ IsFiniteSet(Human) /\ Human \subseteq Account
<1>1. Human \in SUBSET Account
  BY DEF Human
<1> QED
  BY <1>1, FS_Subset, AccountAssumption DEF HumanPower, SeatTypes

LEMMA SetSeatKeepsBooks ==
  ASSUME SeatTypes, SeatsAddUp, NEW v \in Account, NEW power \in Nat, NEW role \in Role,
         role = "None" <=> power = 0, SetSeat(v, power, role)
  PROVE  /\ SeatTypes' /\ SeatsAddUp'
         /\ humanSeatCount > 0 => humanSeatCount' > 0
         /\ role # "Human" /\ seatRole[v] # "Human" => HumanPower' = HumanPower
<1> DEFINE was == IF seatRole[v] = "Human" THEN 1 ELSE 0
           is  == IF role = "Human" THEN 1 ELSE 0
<1>1. /\ was > is => humanSeatCount # 1
      /\ humanSeatCount' = humanSeatCount - was + is
      /\ totalVotingPower' = totalVotingPower - votingPower[v] + power
      /\ totalHumanVotingPower' = totalHumanVotingPower - was * votingPower[v] + is * power
      /\ votingPower' = [votingPower EXCEPT ![v] = power]
      /\ seatRole' = [seatRole EXCEPT ![v] = role]
  BY DEF SetSeat, KeepsAHuman, Reweigh
<1>2. /\ votingPower' \in [Account -> Nat] /\ votingPower'[v] = power
      /\ \A u \in Account \ {v} : votingPower'[u] = votingPower[u]
      /\ seatRole' \in [Account -> Role] /\ seatRole'[v] = role
      /\ \A u \in Account \ {v} : seatRole'[u] = seatRole[u]
  BY <1>1 DEF SeatTypes
<1>3. Total(votingPower') = Total(votingPower) - votingPower[v] + power
  BY <1>2, TotalChange, AccountAssumption DEF SeatTypes
<1>4. Total(votingPower') \in Nat
  BY <1>2, TotalNat, AccountAssumption
<1>5. totalVotingPower' = Total(votingPower') /\ totalVotingPower' \in Nat
  BY <1>1, <1>3, <1>4 DEF SeatsAddUp
<1>6. HumanPower \in [Account -> Nat] /\ IsFiniteSet(Human)
  BY HumanSeats
<1>7. /\ HumanPower' \in [Account -> Nat]
      /\ \A u \in Account \ {v} : HumanPower'[u] = HumanPower[u]
  BY <1>2 DEF HumanPower
<1>8. Total(HumanPower') = Total(HumanPower) - HumanPower[v] + HumanPower'[v]
  BY <1>6, <1>7, TotalChange, AccountAssumption
<1>9. HumanPower[v] = was * votingPower[v] /\ HumanPower'[v] = is * power
  BY <1>2 DEF HumanPower, SeatTypes
<1>10. Total(HumanPower') \in Nat
  BY <1>7, TotalNat, AccountAssumption
<1>11. totalHumanVotingPower' = Total(HumanPower') /\ totalHumanVotingPower' \in Nat
  BY <1>1, <1>8, <1>9, <1>10 DEF SeatsAddUp
<1>12. /\ humanSeatCount' = Cardinality(Human') /\ humanSeatCount' \in Nat
       /\ humanSeatCount > 0 => humanSeatCount' > 0
  <2>1. humanSeatCount = Cardinality(Human) /\ humanSeatCount \in Nat
    BY DEF SeatsAddUp, SeatTypes
  <2>2. v \in Human <=> seatRole[v] = "Human"
    BY DEF Human
  <2>3. Human' = IF role = "Human" THEN Human \cup {v} ELSE Human \ {v}
    BY <1>2 DEF Human
  <2>4. CASE role = "Human" /\ v \notin Human
    <3>1. Cardinality(Human \cup {v}) = Cardinality(Human) + 1
      BY <1>6, <2>4, FS_AddElement
    <3> QED
      BY <1>1, <2>1, <2>2, <2>3, <2>4, <3>1
  <2>5. CASE role # "Human" /\ v \in Human
    <3>1. Cardinality(Human \ {v}) = Cardinality(Human) - 1
      BY <1>6, <2>5, FS_RemoveElement
    <3>2. Cardinality(Human \ {v}) \in Nat
      BY <1>6, FS_RemoveElement, FS_CardinalityType
    <3> QED
      BY <1>1, <2>1, <2>2, <2>3, <2>5, <3>1, <3>2
  <2>6. CASE (role = "Human") <=> (v \in Human)
    <3>1. Human' = Human
      BY <2>3, <2>6
    <3>2. humanSeatCount' = humanSeatCount
      BY <1>1, <2>1, <2>2, <2>6
    <3> QED
      BY <2>1, <3>1, <3>2
  <2> QED
    BY <2>4, <2>5, <2>6
<1>13. \A u \in Account : seatRole'[u] = "None" <=> votingPower'[u] = 0
  BY <1>2 DEF SeatsAddUp
<1>14. role # "Human" /\ seatRole[v] # "Human" => HumanPower' = HumanPower
  BY <1>2 DEF HumanPower
<1> QED
  BY <1>2, <1>5, <1>11, <1>12, <1>13, <1>14 DEF SeatTypes, SeatsAddUp

\* Whoever performs a call: the books stay right, a human remains, and human
\* seats need the right of a seat admin.
LEMMA PerformKeepsBooks ==
  ASSUME SeatTypes, SeatsAddUp, ParamTypes, NEW sender, NEW c \in Call, Perform(sender, c)
  PROVE  /\ SeatTypes' /\ SeatsAddUp' /\ ParamTypes'
         /\ humanSeatCount > 0 => humanSeatCount' > 0
         /\ HumanPower' # HumanPower => c.fn \in SelfFn /\ SeatAdmin(sender)
<1>1. ASSUME UNCHANGED seats, ParamTypes'
      PROVE  /\ SeatTypes' /\ SeatsAddUp' /\ ParamTypes' /\ HumanPower' = HumanPower
             /\ humanSeatCount' = humanSeatCount
  BY <1>1 DEF seats, SeatTypes, SeatsAddUp, HumanPower, Human
<1>2. ASSUME UNCHANGED params PROVE ParamTypes'
  BY <1>2 DEF params, ParamTypes
<1>3. CASE c.fn = "setVotingPower" /\ SetVotingPower(sender, c.who, c.power, c.role)
  <2> DEFINE role == IF c.power = 0 THEN "None" ELSE c.role
  <2>1. /\ c.who \in Account /\ c.power \in Nat /\ role \in Role
        /\ role = "None" <=> c.power = 0
        /\ role = "Human" \/ seatRole[c.who] = "Human" => SeatAdmin(sender)
        /\ SetSeat(c.who, c.power, role)
    BY <1>3, CallAssumption DEF SetVotingPower, Role
  <2>2. UNCHANGED params
    BY <2>1 DEF SetSeat
  <2> HIDE DEF role
  <2>3. /\ SeatTypes' /\ SeatsAddUp' /\ (humanSeatCount > 0 => humanSeatCount' > 0)
        /\ role # "Human" /\ seatRole[c.who] # "Human" => HumanPower' = HumanPower
    BY <2>1, SetSeatKeepsBooks
  <2> QED
    BY <1>2, <1>3, <2>1, <2>2, <2>3 DEF SelfFn
<1>4. CASE c.fn = "admitHuman" /\ AdmitHuman(sender, c.who, c.power)
  <2>1. /\ c.who \in Account /\ c.power \in Nat /\ c.power # 0 /\ SeatAdmin(sender)
        /\ SetSeat(c.who, c.power, "Human") /\ "Human" \in Role
    BY <1>4, CallAssumption DEF AdmitHuman, Role
  <2>2. UNCHANGED params
    BY <2>1 DEF SetSeat
  <2>3. SeatTypes' /\ SeatsAddUp' /\ (humanSeatCount > 0 => humanSeatCount' > 0)
    BY <2>1, SetSeatKeepsBooks
  <2> QED
    BY <1>2, <1>4, <2>1, <2>2, <2>3 DEF SelfFn
<1>5. CASE c.fn = "removeHuman" /\ RemoveHuman(sender, c.who)
  <2>1. /\ c.who \in Account /\ SeatAdmin(sender)
        /\ SetSeat(c.who, 0, "None") /\ "None" \in Role
    BY <1>5, CallAssumption DEF RemoveHuman, Role
  <2>2. UNCHANGED params
    BY <2>1 DEF SetSeat
  <2>3. SeatTypes' /\ SeatsAddUp' /\ (humanSeatCount > 0 => humanSeatCount' > 0)
    BY <2>1, SetSeatKeepsBooks
  <2> QED
    BY <1>2, <1>5, <2>1, <2>2, <2>3 DEF SelfFn
<1>6. CASE \/ c.fn = "setQuorumYes" /\ SetQuorumYes(sender, c.quorum)
           \/ c.fn = "setQuorumHumanYes" /\ SetQuorumHumanYes(sender, c.quorum)
           \/ c.fn = "setTiming" /\ SetTiming(sender, c.timing)
           \/ c.fn = "setUnanimityFastPath" /\ SetUnanimityFastPath(sender, c.enabled)
  <2>1. UNCHANGED seats
    BY <1>6 DEF SetQuorumYes, SetQuorumHumanYes, SetTiming, SetUnanimityFastPath
  <2>2. ParamTypes'
    BY <1>6, CallAssumption
       DEF ParamTypes, SetQuorumYes, SetQuorumHumanYes, SetTiming, SetUnanimityFastPath
  <2> QED
    BY <1>1, <2>1, <2>2
<1> QED
  BY <1>3, <1>4, <1>5, <1>6 DEF Perform

-----------------------------------------------------------------------------
(* Tallies. *)
Weights(b, side, role) ==
  [v \in Account |-> IF b[v].side = side /\ b[v].role \in role THEN b[v].weight ELSE 0]
Tally(b, side, role) == Total(Weights(b, side, role))

Right(p, b) == /\ p.yesVotes = Tally(b, "yes", Role)
               /\ p.noVotes = Tally(b, "no", Role)
               /\ p.yesHumanVotes = Tally(b, "yes", {"Human"})

LEMMA TalliesAsRight ==
  /\ TalliesAreBallots <=> \A id \in DOMAIN proposal : Right(proposal[id], ballot[id])
  /\ TalliesAreBallots' <=> \A id \in DOMAIN proposal' : Right(proposal'[id], ballot'[id])
  BY DEF TalliesAreBallots, Counted, Right, Tally, Weights, Id

LEMMA TallyOfNone ==
  ASSUME NEW side \in {"yes", "no"}, NEW role
  PROVE  Tally([v \in Account |-> NoBallot], side, role) = 0
<1>1. Weights([v \in Account |-> NoBallot], side, role) \in [Account -> {0}]
  BY DEF Weights, NoBallot
<1> QED
  BY <1>1, TotalZero DEF Tally

\* The ballots d are those of b with v's first vote.
Voted(b, v, one, d) ==
  /\ b \in [Account -> BallotType] /\ v \in Account /\ one \in BallotType
  /\ b[v] = NoBallot
  /\ d = [b EXCEPT ![v] = one]

LEMMA TallyOfVote ==
  ASSUME NEW b, NEW v, NEW one, NEW d, Voted(b, v, one, d),
         NEW side \in {"yes", "no"}, NEW role
  PROVE  Tally(d, side, role)
           = Tally(b, side, role)
             + (IF one.side = side /\ one.role \in role THEN one.weight ELSE 0)
<1> DEFINE f == Weights(b, side, role)
           g == Weights(d, side, role)
<1>1. f \in [Account -> Nat] /\ f[v] = 0 /\ v \in Account
  BY DEF Voted, Weights, BallotType, NoBallot
<1>2. /\ g \in [Account -> Nat]
      /\ g[v] = IF one.side = side /\ one.role \in role THEN one.weight ELSE 0
      /\ \A u \in Account \ {v} : g[u] = f[u]
  BY DEF Voted, Weights, BallotType
<1> HIDE DEF f, g
<1>3. Total(g) = Total(f) - f[v] + g[v]
  BY <1>1, <1>2, TotalChange, AccountAssumption
<1>4. Total(f) \in Nat /\ g[v] \in Nat
  BY <1>1, <1>2, TotalNat, AccountAssumption
<1> QED
  BY <1>1, <1>2, <1>3, <1>4 DEF Tally, f, g

\* A tally above zero has a ballot behind it.
LEMMA TallyHasVoter ==
  ASSUME NEW b, NEW side, NEW role, Tally(b, side, role) # 0
  PROVE  \E v \in Account : b[v].side = side /\ b[v].role \in role
<1> SUFFICES ASSUME ~ \E v \in Account : b[v].side = side /\ b[v].role \in role
             PROVE  FALSE
  OBVIOUS
<1>1. Weights(b, side, role) \in [Account -> {0}]
  BY DEF Weights
<1> QED
  BY <1>1, TotalZero DEF Tally

HumanYes(b) == \E v \in Account : b[v].side = "yes" /\ b[v].role = "Human"

\* Quorums are never zero, so a high-tier proposal that passes has a human yes.
LEMMA PassingHasHuman ==
  ASSUME TypeOK, TalliesAreBallots, NEW id \in Id, proposal[id].tier = "High",
         Passes(proposal[id])
  PROVE  HumanYes(ballot[id])
<1>1. proposal[id].yesHumanVotes >= EffectiveQuorumHumanYes
  BY DEF Passes
<1>2. EffectiveQuorumHumanYes \in Nat \ {0}
  BY TypeParts DEF EffectiveQuorumHumanYes, AtMost, SeatTypes, ParamTypes
<1>3. proposal[id] \in ProposalType
  BY TypeParts DEF ProposalTypes, Id
<1>4. proposal[id].yesHumanVotes # 0
  BY <1>1, <1>2, <1>3 DEF ProposalType
<1>5. Tally(ballot[id], "yes", {"Human"}) # 0
  BY <1>4, TalliesAsRight DEF Right, Id
<1> QED
  BY <1>5, TallyHasVoter DEF HumanYes

-----------------------------------------------------------------------------
(* The invariant. *)
LEMMA GovStart == Init => GovInv
<1> SUFFICES ASSUME Init PROVE GovInv
  OBVIOUS
<1>1. PICK p \in RootPower :
        /\ votingPower = Only(Account, Root, p)
        /\ seatRole = [v \in Account |-> IF v = Root /\ p > 0 THEN "Human" ELSE "None"]
        /\ totalVotingPower = p /\ totalHumanVotingPower = p
        /\ humanSeatCount = IF p > 0 THEN 1 ELSE 0
  BY DEF Init
<1>2. p \in Nat /\ Root \in Account /\ IsFiniteSet(Account)
  BY NumberAssumption, AccountAssumption
<1>3. votingPower \in [Account -> Nat] /\ Total(votingPower) = p
  BY <1>1, <1>2, TotalOnly
<1>4. HumanPower = votingPower
  BY <1>1, <1>2 DEF HumanPower, Only
<1>5. humanSeatCount = Cardinality(Human)
  <2>1. CASE p > 0
    <3>1. Human = {Root}
      BY <1>1, <1>2, <2>1 DEF Human
    <3> QED
      BY <1>1, <2>1, <3>1, FS_Singleton
  <2>2. CASE ~(p > 0)
    <3>1. Human = {}
      BY <1>1, <2>2 DEF Human
    <3> QED
      BY <1>1, <2>2, <3>1, FS_EmptySet
  <2> QED
    BY <2>1, <2>2
<1>6. SeatTypes
  BY <1>1, <1>2, <1>3 DEF SeatTypes, Role
<1>7. \A v \in Account : seatRole[v] = "None" <=> votingPower[v] = 0
  BY <1>1, <1>2 DEF Only
<1>8. SeatsAddUp
  BY <1>1, <1>3, <1>4, <1>5, <1>7 DEF SeatsAddUp
<1>9. ParamTypes /\ ProposalTypes /\ now \in Nat
  BY NumberAssumption DEF Init, ParamTypes, ProposalTypes
<1>10. TalliesAreBallots /\ SelfCallsAreHigh /\ HumansHaveFinalSay
  BY DEF Init, TalliesAreBallots, SelfCallsAreHigh, HumansHaveFinalSay, Id
<1> QED
  BY <1>6, <1>8, <1>9, <1>10, TypeParts DEF GovInv

\* What is said of each proposal and its ballots, pointwise.
Sound(p, b) ==
  /\ p \in ProposalType /\ b \in [Account -> BallotType]
  /\ Right(p, b)
  /\ p.call.fn \in SelfFn => p.tier = "High"
  /\ p.tier = "High" /\ p.state = "Executed" => HumanYes(b)

Kept == /\ proposal \in Seq(ProposalType) /\ ballot \in Seq([Account -> BallotType])
        /\ Len(ballot) = Len(proposal)
        /\ \A id \in DOMAIN proposal : Sound(proposal[id], ballot[id])

LEMMA KeptIsInv ==
  /\ GovInv <=> SeatTypes /\ ParamTypes /\ now \in Nat /\ SeatsAddUp /\ Kept
  /\ GovInv' <=> SeatTypes' /\ ParamTypes' /\ now' \in Nat /\ SeatsAddUp' /\ Kept'
<1>1. GovInv => SeatTypes /\ ParamTypes /\ now \in Nat /\ SeatsAddUp /\ Kept
  BY TypeParts, TalliesAsRight DEF GovInv, Kept, Sound, ProposalTypes, SelfCallsAreHigh,
     HumansHaveFinalSay, HumanYes, Id
<1>2. SeatTypes /\ ParamTypes /\ now \in Nat /\ SeatsAddUp /\ Kept => GovInv
  BY TypeParts, TalliesAsRight DEF GovInv, Kept, Sound, ProposalTypes, SelfCallsAreHigh,
     HumansHaveFinalSay, HumanYes, Id
<1>3. GovInv' => SeatTypes' /\ ParamTypes' /\ now' \in Nat /\ SeatsAddUp' /\ Kept'
  BY TypeParts, TalliesAsRight DEF GovInv, Kept, Sound, ProposalTypes, SelfCallsAreHigh,
     HumansHaveFinalSay, HumanYes, Id
<1>4. SeatTypes' /\ ParamTypes' /\ now' \in Nat /\ SeatsAddUp' /\ Kept' => GovInv'
  BY TypeParts, TalliesAsRight DEF GovInv, Kept, Sound, ProposalTypes, SelfCallsAreHigh,
     HumansHaveFinalSay, HumanYes, Id
<1> QED
  BY <1>1, <1>2, <1>3, <1>4

\* A change of one proposal and its ballots.
LEMMA ChangeOne ==
  ASSUME Kept, NEW id \in Id, NEW p, NEW b,
         proposal' = [proposal EXCEPT ![id] = p], ballot' = [ballot EXCEPT ![id] = b],
         Sound(p, b)
  PROVE  Kept'
<1>1. id \in DOMAIN proposal /\ p \in ProposalType /\ b \in [Account -> BallotType]
  BY DEF Sound, Id
<1>2. /\ proposal' \in Seq(ProposalType) /\ ballot' \in Seq([Account -> BallotType])
      /\ Len(ballot') = Len(proposal') /\ DOMAIN proposal' = DOMAIN proposal
  BY <1>1 DEF Kept
<1>3. id \in DOMAIN ballot /\ DOMAIN ballot = DOMAIN proposal
  BY <1>1 DEF Kept
<1>4. \A i \in DOMAIN proposal : /\ proposal'[i] = IF i = id THEN p ELSE proposal[i]
                                 /\ ballot'[i] = IF i = id THEN b ELSE ballot[i]
  BY <1>3
<1>5. \A i \in DOMAIN proposal' : Sound(proposal'[i], ballot'[i])
  BY <1>2, <1>4 DEF Kept
<1> QED
  BY <1>2, <1>5 DEF Kept

LEMMA ProposeStep ==
  ASSUME GovInv, NEW tier \in {"Low", "High"}, NEW c \in Call, Propose(tier, c)
  PROVE  Kept'
<1> DEFINE deadline == now + timing[1]
           p == [tier |-> tier, call |-> c, yesVotes |-> 0, noVotes |-> 0,
                 yesHumanVotes |-> 0, deadline |-> deadline,
                 eta |-> IF tier = "High" THEN deadline + timing[2] ELSE 0,
                 state |-> "Active"]
           b == [v \in Account |-> NoBallot]
<1>1. proposal' = Append(proposal, p) /\ ballot' = Append(ballot, b)
  BY DEF Propose
<1>2. p \in ProposalType
  BY KeptIsInv DEF ProposalType, ParamTypes
<1>3. b \in [Account -> BallotType]
  BY DEF BallotType, NoBallot, Role
<1>4. Right(p, b)
  BY TallyOfNone DEF Right
<1>5. c.fn \in SelfFn => tier = "High"
  BY DEF Propose
<1>6. Sound(p, b)
  BY <1>2, <1>3, <1>4, <1>5 DEF Sound
<1> HIDE DEF p, b
<1>7. Kept
  BY KeptIsInv
<1>8. /\ proposal' \in Seq(ProposalType) /\ ballot' \in Seq([Account -> BallotType])
      /\ Len(ballot') = Len(proposal')
      /\ \A i \in DOMAIN proposal' :
           \/ i \in DOMAIN proposal /\ proposal'[i] = proposal[i] /\ ballot'[i] = ballot[i]
           \/ proposal'[i] = p /\ ballot'[i] = b
  BY <1>1, <1>2, <1>3, <1>7 DEF Kept
<1> QED
  BY <1>6, <1>7, <1>8 DEF Kept

LEMMA VoteStep ==
  ASSUME GovInv, NEW id \in Id, NEW v \in Account, NEW support \in BOOLEAN, Vote(v, id, support)
  PROVE  Kept'
<1> DEFINE p == proposal[id]
           b == ballot[id]
           w == votingPower[v]
           h == IF seatRole[v] = "Human" THEN w ELSE 0
           one == [side |-> IF support THEN "yes" ELSE "no", weight |-> w, role |-> seatRole[v]]
           q == IF support THEN [p EXCEPT !.yesVotes = @ + w, !.yesHumanVotes = @ + h]
                           ELSE [p EXCEPT !.noVotes = @ + w]
           d == [b EXCEPT ![v] = one]
<1>1. Kept /\ SeatTypes /\ Sound(p, b) /\ id \in DOMAIN ballot
  BY KeptIsInv DEF Kept, Id
<1>2. /\ p \in ProposalType /\ b \in [Account -> BallotType] /\ Right(p, b)
      /\ w \in Nat /\ h \in Nat /\ seatRole[v] \in Role /\ one \in BallotType
  BY <1>1 DEF Sound, SeatTypes, BallotType, Role
<1>3. b[v] = NoBallot /\ p.state = "Active"
  BY DEF Vote, MayVote
<1>4. proposal' = [proposal EXCEPT ![id] = q] /\ ballot' = [ballot EXCEPT ![id] = d]
  <2>1. proposal' = [proposal EXCEPT ![id] = q]
    BY DEF Vote
  <2>2. ballot' = [ballot EXCEPT ![id][v] = one]
    BY DEF Vote
  <2>3. [ballot EXCEPT ![id][v] = one] = [ballot EXCEPT ![id] = d]
    BY Zenon
  <2> QED
    BY <2>1, <2>2, <2>3
<1>5. q \in ProposalType /\ q.state = "Active" /\ q.tier = p.tier /\ q.call = p.call
  <2> HIDE DEF p, w, h
  <2>1. CASE support
    <3>1. p.yesVotes + w \in Nat /\ p.yesHumanVotes + h \in Nat
      BY <1>2 DEF ProposalType
    <3>2. q = [p EXCEPT !.yesVotes = p.yesVotes + w, !.yesHumanVotes = p.yesHumanVotes + h]
      BY <2>1
    <3> HIDE DEF q
    <3> QED
      BY <1>2, <1>3, <3>1, <3>2 DEF ProposalType
  <2>2. CASE ~support
    <3>1. p.noVotes + w \in Nat
      BY <1>2 DEF ProposalType
    <3>2. q = [p EXCEPT !.noVotes = p.noVotes + w]
      BY <2>2
    <3> HIDE DEF q
    <3> QED
      BY <1>2, <1>3, <3>1, <3>2 DEF ProposalType
  <2> QED
    BY <2>1, <2>2
<1>6. d \in [Account -> BallotType]
  BY <1>2
<1>7. /\ one.side = (IF support THEN "yes" ELSE "no") /\ one.weight = w
      /\ one.role = seatRole[v]
  OBVIOUS
<1>8. /\ q.yesVotes = p.yesVotes + (IF support THEN w ELSE 0)
      /\ q.noVotes = p.noVotes + (IF support THEN 0 ELSE w)
      /\ q.yesHumanVotes = p.yesHumanVotes + (IF support THEN h ELSE 0)
  BY <1>2 DEF ProposalType
<1> HIDE DEF one, q, b
<1>9. \A side \in {"yes", "no"}, role \in {Role, {"Human"}} :
        Tally(d, side, role) = Tally(b, side, role)
          + (IF one.side = side /\ one.role \in role THEN one.weight ELSE 0)
  <2> SUFFICES ASSUME NEW side \in {"yes", "no"}, NEW role
               PROVE  Tally(d, side, role) = Tally(b, side, role)
                 + (IF one.side = side /\ one.role \in role THEN one.weight ELSE 0)
    OBVIOUS
  <2>1. Voted(b, v, one, d)
    BY <1>2, <1>3 DEF Voted
  <2> HIDE DEF d
  <2> QED
    BY <2>1, TallyOfVote
<1> HIDE DEF d, p
<1>10. /\ Tally(d, "yes", Role) = Tally(b, "yes", Role) + (IF support THEN w ELSE 0)
       /\ Tally(d, "no", Role) = Tally(b, "no", Role) + (IF support THEN 0 ELSE w)
       /\ Tally(d, "yes", {"Human"}) = Tally(b, "yes", {"Human"}) + (IF support THEN h ELSE 0)
  BY <1>2, <1>7, <1>9
<1>11. Right(q, d)
  BY <1>2, <1>8, <1>10 DEF Right
<1>12. Sound(q, d)
  BY <1>1, <1>5, <1>6, <1>11 DEF Sound
<1> QED
  BY <1>1, <1>4, <1>12, ChangeOne

\* Vetoed, defeated or executed: the votes stay as they are.
LEMMA CloseStep ==
  ASSUME GovInv, NEW id \in Id, NEW state \in {"Executed", "Vetoed", "Defeated"},
         proposal' = [proposal EXCEPT ![id].state = state], ballot' = ballot,
         state = "Executed" => Passes(proposal[id])
  PROVE  Kept'
<1> DEFINE p == proposal[id]
           q == [p EXCEPT !.state = state]
<1>1. /\ Kept /\ Sound(p, ballot[id]) /\ id \in DOMAIN ballot
      /\ TypeOK /\ TalliesAreBallots
  BY KeptIsInv DEF Kept, Id, GovInv
<1>2. /\ q \in ProposalType /\ q.tier = p.tier /\ q.call = p.call /\ q.state = state
      /\ q.yesVotes = p.yesVotes /\ q.noVotes = p.noVotes /\ q.yesHumanVotes = p.yesHumanVotes
  BY <1>1 DEF Sound, ProposalType
<1>3. Right(q, ballot[id])
  BY <1>1, <1>2 DEF Sound, Right
<1>4. q.tier = "High" /\ q.state = "Executed" => HumanYes(ballot[id])
  BY <1>1, <1>2, PassingHasHuman
<1>5. Sound(q, ballot[id])
  BY <1>1, <1>2, <1>3, <1>4 DEF Sound
<1>6. ballot' = [ballot EXCEPT ![id] = ballot[id]]
  BY <1>1 DEF Kept
<1>7. proposal' = [proposal EXCEPT ![id] = q]
  OBVIOUS
<1> QED
  BY <1>1, <1>5, <1>6, <1>7, ChangeOne

\* What a step may do to the seats of humans.
HumansKept ==
  /\ humanSeatCount > 0 => humanSeatCount' > 0
  /\ Human # {} /\ HumanPower' # HumanPower =>
       \E id \in Id : /\ proposal[id].tier = "High"
                      /\ proposal[id].state = "Active"
                      /\ proposal'[id].state = "Executed"
                      /\ \E v \in Account : /\ ballot[id][v].side = "yes"
                                            /\ ballot[id][v].role = "Human"

LEMMA SeatsUntouched ==
  ASSUME GovInv, UNCHANGED <<seats, params>>
  PROVE  SeatTypes' /\ ParamTypes' /\ SeatsAddUp' /\ HumansKept
  BY KeptIsInv DEF seats, params, SeatTypes, ParamTypes, SeatsAddUp, HumanPower, Human,
                   HumansKept

LEMMA DirectStep ==
  ASSUME GovInv, NEW sender \in Account, NEW c \in Call, Direct(sender, c)
  PROVE  GovInv' /\ HumansKept
<1>1. /\ SeatTypes /\ SeatsAddUp /\ ParamTypes /\ Kept /\ now \in Nat
      /\ Perform(sender, c) /\ UNCHANGED <<proposal, ballot, now>>
  BY KeptIsInv DEF Direct
<1>2. /\ SeatTypes' /\ SeatsAddUp' /\ ParamTypes'
      /\ humanSeatCount > 0 => humanSeatCount' > 0
  BY <1>1, PerformKeepsBooks
<1>3. HumanPower' # HumanPower => SeatAdmin(sender)
  BY <1>1, PerformKeepsBooks
<1>4. SeatAdmin(sender) => humanSeatCount = 0
  BY AccountAssumption DEF SeatAdmin
<1>5. humanSeatCount = 0 => Human = {}
  BY <1>1, HumanSeats, FS_EmptySet DEF SeatsAddUp
<1>6. Kept'
  BY <1>1 DEF Kept
<1> QED
  BY <1>1, <1>2, <1>3, <1>4, <1>5, <1>6, KeptIsInv DEF HumansKept

LEMMA ExecuteStep ==
  ASSUME GovInv, NEW id \in Id, Execute(id)
  PROVE  GovInv' /\ HumansKept
<1>1. /\ SeatTypes /\ SeatsAddUp /\ ParamTypes /\ Kept /\ now \in Nat
      /\ TypeOK /\ TalliesAreBallots
  BY KeptIsInv DEF GovInv
<1>2. /\ proposal[id].state = "Active" /\ Passes(proposal[id])
      /\ proposal' = [proposal EXCEPT ![id].state = "Executed"]
      /\ ballot' = ballot /\ now' = now
  BY DEF Execute
<1>3. Kept'
  BY <1>2, CloseStep
<1>4. proposal[id] \in ProposalType /\ proposal'[id].state = "Executed"
  <2>1. proposal \in Seq(ProposalType) /\ id \in DOMAIN proposal
    BY <1>1 DEF Kept, Id
  <2>2. proposal[id] \in ProposalType
    BY <2>1
  <2>3. proposal'[id] = [proposal[id] EXCEPT !.state = "Executed"]
    BY <1>2, <2>1
  <2> QED
    BY <2>2, <2>3 DEF ProposalType
<1>5. CASE proposal[id].call.fn \in SelfFn
  <2>1. Perform(This, proposal[id].call) /\ proposal[id].call \in Call
    BY <1>4, <1>5 DEF Execute, ProposalType
  <2>2. /\ SeatTypes' /\ SeatsAddUp' /\ ParamTypes'
        /\ humanSeatCount > 0 => humanSeatCount' > 0
    BY <1>1, <2>1, PerformKeepsBooks
  <2>3. proposal[id].tier = "High"
    BY <1>1, <1>5 DEF Kept, Sound, Id
  <2>4. HumanYes(ballot[id])
    BY <1>1, <1>2, <2>3, PassingHasHuman
  <2>5. HumansKept
    BY <1>2, <1>4, <2>2, <2>3, <2>4 DEF HumansKept, HumanYes
  <2> QED
    BY <1>1, <1>2, <1>3, <2>2, <2>5, KeptIsInv
<1>6. CASE proposal[id].call.fn \notin SelfFn
  <2>1. UNCHANGED <<seats, params>>
    BY <1>6 DEF Execute
  <2> QED
    BY <1>1, <1>2, <1>3, <2>1, SeatsUntouched, KeptIsInv
<1> QED
  BY <1>5, <1>6

LEMMA GovStep == GovInv /\ [Next]_vars => GovInv' /\ HumansKept
<1> SUFFICES ASSUME GovInv, [Next]_vars PROVE GovInv' /\ HumansKept
  OBVIOUS
<1>1. SeatTypes /\ ParamTypes /\ now \in Nat /\ SeatsAddUp /\ Kept
  BY KeptIsInv
<1>2. ASSUME UNCHANGED <<seats, params>>, now' \in Nat, Kept' PROVE GovInv' /\ HumansKept
  BY <1>2, SeatsUntouched, KeptIsInv
<1>3. CASE UNCHANGED vars
  <2>1. Kept'
    BY <1>1, <1>3 DEF vars, Kept
  <2> QED
    BY <1>1, <1>2, <1>3, <2>1 DEF vars
<1>4. CASE \E v \in Account, c \in Call : Direct(v, c)
  BY <1>4, DirectStep
<1>5. ASSUME NEW tier \in {"Low", "High"}, NEW c \in Call, Propose(tier, c)
      PROVE  GovInv' /\ HumansKept
  <2>1. Kept'
    BY <1>5, ProposeStep
  <2> QED
    BY <1>1, <1>2, <1>5, <2>1 DEF Propose
<1>6. ASSUME NEW id \in Id, NEW v \in Account, NEW b \in BOOLEAN, Vote(v, id, b)
      PROVE  GovInv' /\ HumansKept
  <2>1. Kept'
    BY <1>6, VoteStep
  <2> QED
    BY <1>1, <1>2, <1>6, <2>1 DEF Vote
<1>7. ASSUME NEW id \in Id, NEW v \in Account, Veto(v, id)
      PROVE  GovInv' /\ HumansKept
  <2>1. Kept'
    BY <1>7, CloseStep DEF Veto
  <2> QED
    BY <1>1, <1>2, <1>7, <2>1 DEF Veto
<1>8. ASSUME NEW id \in Id, Defeat(id) PROVE GovInv' /\ HumansKept
  <2>1. Kept'
    BY <1>8, CloseStep DEF Defeat
  <2> QED
    BY <1>1, <1>2, <1>8, <2>1 DEF Defeat
<1>9. CASE \E id \in Id : Execute(id)
  BY <1>9, ExecuteStep
<1>10. CASE Tick
  <2>1. Kept' /\ now' \in Nat
    BY <1>1, <1>10 DEF Tick, Kept
  <2> QED
    BY <1>2, <1>10, <2>1 DEF Tick
<1> QED
  BY <1>3, <1>4, <1>5, <1>6, <1>7, <1>8, <1>9, <1>10 DEF Next

\* The running sums match the roster, tallies match the ballots, and every
\* high-tier proposal that was executed had a human's yes.
THEOREM GovernanceBooks ==
  Spec => [](TypeOK /\ SeatsAddUp /\ TalliesAreBallots /\ HumansHaveFinalSay)
<1>1. GovInv /\ [Next]_vars => GovInv'
  BY GovStep
<1>2. GovInv => TypeOK /\ SeatsAddUp /\ TalliesAreBallots /\ HumansHaveFinalSay
  BY DEF GovInv
<1> QED
  BY <1>1, <1>2, GovStart, PTL DEF Spec

\* An organisation that has a human seat never loses its last one.
THEOREM HumansRemain == Spec => AHumanRemains
<1>1. GovInv /\ [Next]_vars => GovInv'
  BY GovStep
<1>2. GovInv /\ [Next]_vars => [humanSeatCount > 0 => humanSeatCount' > 0]_vars
  BY GovStep DEF HumansKept
<1> QED
  BY <1>1, <1>2, GovStart, PTL DEF Spec, AHumanRemains

\* The human roster changes only by a high-tier proposal a human voted for.
THEOREM HumansDecideTheRoster == Spec => RosterNeedsHumans
<1>1. GovInv /\ [Next]_vars => GovInv'
  BY GovStep
<1>2. GovInv /\ [Next]_vars =>
        [Human # {} /\ HumanPower' # HumanPower =>
           \E id \in Id : /\ proposal[id].tier = "High"
                          /\ proposal[id].state = "Active"
                          /\ proposal'[id].state = "Executed"
                          /\ \E v \in Account : /\ ballot[id][v].side = "yes"
                                                /\ ballot[id][v].role = "Human"]_vars
  BY GovStep DEF HumansKept
<1> QED
  BY <1>1, <1>2, GovStart, PTL DEF Spec, RosterNeedsHumans

\* The running sums that quorums and the fast path read are those of the roster.
COROLLARY SeatsStayAddedUp == Spec => []SeatsAddUp
  BY GovernanceBooks, PTL

\* Every tally is the sum of the ballots cast.
COROLLARY TalliesStayBallots == Spec => []TalliesAreBallots
  BY GovernanceBooks, PTL

-----------------------------------------------------------------------------
\* Who all back a proposal weigh at least the electorate, and its humans.
LEMMA BackersOutweigh ==
  ASSUME GovInv, NEW id \in Id,
         \A v \in Account : votingPower[v] > 0 =>
           ballot[id][v] = [side |-> "yes", weight |-> votingPower[v], role |-> seatRole[v]]
  PROVE  /\ proposal[id].yesVotes >= totalVotingPower
         /\ proposal[id].yesHumanVotes >= totalHumanVotingPower
<1> DEFINE b    == ballot[id]
           all  == Weights(b, "yes", Role)
           hums == Weights(b, "yes", {"Human"})
<1>1. SeatTypes /\ SeatsAddUp /\ IsFiniteSet(Account)
  BY TypeParts, AccountAssumption DEF GovInv
<1>2. b \in [Account -> BallotType]
  BY DEF GovInv, TypeOK, Id
<1>3. all \in [Account -> Nat] /\ hums \in [Account -> Nat]
  BY <1>2 DEF Weights, BallotType
<1>4. \A v \in Account : votingPower[v] \in Nat /\ seatRole[v] \in Role
  BY <1>1 DEF SeatTypes
<1>5. \A v \in Account : votingPower[v] <= all[v]
  <2> SUFFICES ASSUME NEW v \in Account, votingPower[v] > 0 PROVE votingPower[v] <= all[v]
    BY <1>3, <1>4
  <2>1. b[v] = [side |-> "yes", weight |-> votingPower[v], role |-> seatRole[v]]
    OBVIOUS
  <2>2. all[v] = votingPower[v]
    BY <1>4, <2>1 DEF Weights
  <2> QED
    BY <1>4, <2>2
<1>6. \A v \in Account : HumanPower[v] <= hums[v]
  <2> SUFFICES ASSUME NEW v \in Account, seatRole[v] = "Human", votingPower[v] > 0
               PROVE  votingPower[v] <= hums[v]
    BY <1>3, <1>4 DEF HumanPower
  <2>1. b[v] = [side |-> "yes", weight |-> votingPower[v], role |-> seatRole[v]]
    OBVIOUS
  <2>2. hums[v] = votingPower[v]
    BY <1>4, <2>1 DEF Weights
  <2> QED
    BY <1>4, <2>2
<1>7. /\ proposal[id].yesVotes = Total(all)
      /\ proposal[id].yesHumanVotes = Total(hums)
  BY DEF GovInv, TalliesAreBallots, Counted, Weights
<1> HIDE DEF b, all, hums
<1>8. HumanPower \in [Account -> Nat] /\ votingPower \in [Account -> Nat]
  BY <1>1, HumanSeats DEF SeatTypes
<1>9. Total(votingPower) <= Total(all) /\ Total(HumanPower) <= Total(hums)
  BY <1>1, <1>3, <1>5, <1>6, <1>8, TotalMonotone
<1>10. /\ Total(votingPower) \in Nat /\ Total(all) \in Nat
       /\ Total(HumanPower) \in Nat /\ Total(hums) \in Nat
  BY <1>1, <1>3, <1>8, TotalNat
<1> QED
  BY <1>1, <1>7, <1>9, <1>10 DEF SeatsAddUp

LEMMA InvBacksPasses ==
  ASSUME GovInv
  PROVE  FullBackingPasses
<1> SUFFICES ASSUME NEW id \in Id, NEW h \in Account, seatRole[h] = "Human",
               \A v \in Account : votingPower[v] > 0 =>
                 ballot[id][v] = [side |-> "yes", weight |-> votingPower[v],
                                  role |-> seatRole[v]]
             PROVE  IF unanimityFastPath \/ proposal[id].tier = "Low"
                    THEN Passes(proposal[id])
                    ELSE proposal[id].yesHumanVotes >= EffectiveQuorumHumanYes
  BY DEF FullBackingPasses
<1> DEFINE yes == proposal[id].yesVotes
           hum == proposal[id].yesHumanVotes
<1>1. yes >= totalVotingPower /\ hum >= totalHumanVotingPower
  BY BackersOutweigh
<1>2. SeatTypes /\ ParamTypes /\ SeatsAddUp
  BY TypeParts DEF GovInv
<1>3. yes \in Nat /\ hum \in Nat
  <2>1. proposal[id] \in ProposalType
    BY DEF GovInv, TypeOK, Id
  <2> QED
    BY <2>1 DEF ProposalType
<1>4. votingPower[h] > 0 /\ HumanPower[h] = votingPower[h]
  BY <1>2 DEF SeatsAddUp, SeatTypes, HumanPower
<1>5. totalVotingPower > 0 /\ totalHumanVotingPower > 0
  <2>1. votingPower[h] <= Total(votingPower) /\ HumanPower[h] <= Total(HumanPower)
    BY <1>2, HumanSeats, AccountAssumption, EntryAtMostTotal DEF SeatTypes
  <2> QED
    BY <1>2, <1>4, <2>1 DEF SeatsAddUp, SeatTypes
<1>6. /\ totalVotingPower \in Nat /\ totalHumanVotingPower \in Nat
      /\ quorumYes \in Nat /\ quorumHumanYes \in Nat
  BY <1>2 DEF SeatTypes, ParamTypes
<1> HIDE DEF yes, hum
<1>7. yes >= EffectiveQuorumYes
  BY <1>1, <1>3, <1>5, <1>6 DEF EffectiveQuorumYes, AtMost
<1>8. hum >= EffectiveQuorumHumanYes
  BY <1>1, <1>3, <1>5, <1>6 DEF EffectiveQuorumHumanYes, AtMost
<1>9. unanimityFastPath => Unanimous(proposal[id])
  BY <1>1, <1>5 DEF Unanimous, hum
<1> QED
  BY <1>7, <1>8, <1>9 DEF Passes, yes, hum

\* An electorate that is of one mind is never locked out by its quorums,
\* whatever mix of seats came and went (_effectiveQuorum, _isUnanimous).
THEOREM FullBackingSuffices == Spec => []FullBackingPasses
<1>1. GovInv /\ [Next]_vars => GovInv'
  BY GovStep
<1> QED
  BY <1>1, InvBacksPasses, GovStart, PTL DEF Spec
=============================================================================
