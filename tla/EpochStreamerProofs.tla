------------------------ MODULE EpochStreamerProofs -------------------------
(***************************************************************************)
(* The purse is solvent, the payroll list exact and every epoch paid once, *)
(* for every set of nodes and callers and every supply.                    *)
(*                                                                         *)
(* PayrollInv is inductive: solvency of an epoch needs Due to be a sheet   *)
(* of naturals (TypeOK), and an epoch pays each grant once because the     *)
(* list names each recipient once (ScheduleExact).  Every step of the      *)
(* purse and its payroll is a step of the abstract allowances.             *)
(***************************************************************************)
EXTENDS EpochStreamer

PurseTypes == /\ token \in [Holder -> Nat]
              /\ totalReserved \in Nat
              /\ allowance \in [Node -> Nat]

PayrollInv == TypeOK /\ Solvent /\ ScheduleExact /\ CursorAhead

LEMMA StreamKeepsSolvent ==
  ASSUME PurseTypes, Solvent, NEW caller, NEW due \in [Node -> Nat], Stream(caller, due)
  PROVE  PurseTypes' /\ Solvent'
<1>1. /\ allowance' \in [Node -> Nat]
      /\ Total(allowance') = Total(allowance) + Total(due)
  BY TotalPlus, NodeAssumption DEF Stream, PurseTypes
<1>2. Total(due) \in Nat /\ Total(allowance) \in Nat
  BY TotalNat, NodeAssumption DEF PurseTypes
<1>3. token[Purse] \in Nat /\ token' = token
  BY DEF PurseTypes, Holder, Stream
<1>4. totalReserved' = totalReserved + Total(due) /\ Total(due) <= Liquid
  BY DEF Stream, PurseTypes, Solvent
<1> QED
  BY <1>1, <1>2, <1>3, <1>4 DEF Liquid, PurseTypes, Solvent

LEMMA DepositKeepsSolvent ==
  ASSUME PurseTypes, Solvent, NEW from \in Caller, NEW amount \in Nat, Deposit(from, amount)
  PROVE  PurseTypes' /\ Solvent'
<1>1. from \in Holder /\ Purse \in Holder
  BY DEF Holder
<1>2. token' \in [Holder -> Nat] /\ token'[Purse] >= token[Purse]
  BY <1>1 DEF Deposit, Transfer, PurseTypes
<1>3. token[Purse] \in Nat /\ token'[Purse] \in Nat
  BY <1>1, <1>2 DEF PurseTypes
<1> QED
  BY <1>2, <1>3 DEF Deposit, PurseTypes, Solvent

LEMMA SpendKeepsSolvent ==
  ASSUME PurseTypes, Solvent, NEW caller, NEW n \in Node, NEW amount \in Nat,
         NEW to \in Holder, SpendAllowance(caller, n, amount, to)
  PROVE  PurseTypes' /\ Solvent'
<1>1. Purse \in Holder /\ token[Purse] \in Nat /\ token[to] \in Nat /\ allowance[n] \in Nat
  BY DEF Holder, PurseTypes
<1>2. /\ allowance' \in [Node -> Nat]
      /\ allowance'[n] = allowance[n] - amount
      /\ \A m \in Node \ {n} : allowance'[m] = allowance[m]
  BY <1>1 DEF SpendAllowance, PurseTypes
<1>3. Total(allowance') = Total(allowance) - allowance[n] + allowance'[n]
  BY <1>2, TotalChange, NodeAssumption DEF PurseTypes
<1>4. Total(allowance) \in Nat /\ Total(allowance') \in Nat
  BY <1>2, TotalNat, NodeAssumption DEF PurseTypes
<1>5. /\ totalReserved' = totalReserved - amount
      /\ amount <= totalReserved /\ amount <= token[Purse]
  BY DEF SpendAllowance, Transfer
<1>6. token' \in [Holder -> Nat] /\ token'[Purse] >= token[Purse] - amount
  <2>1. CASE to = Purse
    BY <1>1, <2>1 DEF SpendAllowance, Transfer, PurseTypes
  <2>2. CASE to # Purse
    BY <1>1, <1>5, <2>2 DEF SpendAllowance, Transfer, PurseTypes
  <2> QED
    BY <2>1, <2>2
<1>7. token'[Purse] \in Nat /\ totalReserved' \in Nat
  BY <1>1, <1>5, <1>6 DEF PurseTypes
<1>8. totalReserved' = Total(allowance')
  BY <1>1, <1>2, <1>3, <1>4, <1>5 DEF Solvent
<1>9. totalReserved' <= token'[Purse]
  BY <1>1, <1>5, <1>6, <1>7 DEF Solvent, PurseTypes
<1> QED
  BY <1>2, <1>6, <1>7, <1>8, <1>9 DEF PurseTypes, Solvent

-----------------------------------------------------------------------------
Listed(list, n) == \E i \in DOMAIN list : list[i] = n
Once(list) == \A i, j \in DOMAIN list : list[i] = list[j] => i = j

\* Swap-and-pop takes the one entry for n away and keeps all others.
LEMMA WithoutLists ==
  ASSUME recipients \in Seq(Node), Once(recipients), NEW n \in Node, Listed(recipients, n)
  PROVE  /\ WithoutRecipient(n) \in Seq(Node)
         /\ Once(WithoutRecipient(n))
         /\ \A m \in Node : Listed(WithoutRecipient(n), m) <=> Listed(recipients, m) /\ m # n
<1> DEFINE last == Len(recipients)
           r == WithoutRecipient(n)
<1>1. last \in Nat /\ DOMAIN recipients = 1..last /\ \A i \in 1..last : recipients[i] \in Node
  OBVIOUS
<1>2. PICK k \in Nat : k \in 1..last /\ recipients[k] = n
  BY <1>1 DEF Listed
<1>3. \A i \in 1..last : recipients[i] = n => i = k
  BY <1>1, <1>2 DEF Once
<1> DEFINE at == CHOOSE i \in DOMAIN recipients :
                   recipients[i] = n /\ \A j \in 1..(i - 1) : recipients[j] # n
<1>4. at = k
  <2>1. \A j \in 1..(k - 1) : recipients[j] # n
    BY <1>1, <1>2, <1>3
  <2>2. at \in DOMAIN recipients /\ recipients[at] = n
    BY <1>1, <1>2, <2>1
  <2> QED
    BY <1>1, <1>3, <2>2
<1>5. r = [i \in 1..(last - 1) |-> IF i = at THEN recipients[last] ELSE recipients[i]]
  BY DEF WithoutRecipient
<1>6. r = [i \in 1..(last - 1) |-> IF i = k THEN recipients[last] ELSE recipients[i]]
  BY <1>4, <1>5
<1> HIDE DEF last, r, at
<1>7. /\ last - 1 \in Nat /\ DOMAIN r = 1..(last - 1)
      /\ \A i \in 1..(last - 1) : r[i] = IF i = k THEN recipients[last] ELSE recipients[i]
  BY <1>1, <1>2, <1>6
<1>8. r \in Seq(Node)
  <2>1. r \in [1..(last - 1) -> Node]
    BY <1>1, <1>2, <1>6
  <2> QED
    BY <1>7, <2>1
<1>9. Once(r)
  <2> SUFFICES ASSUME NEW i \in 1..(last - 1), NEW j \in 1..(last - 1), r[i] = r[j]
               PROVE  i = j
    BY <1>7 DEF Once
  <2>1. i \in 1..last /\ j \in 1..last /\ last \in 1..last /\ i # last /\ j # last
    BY <1>1, <1>2
  <2> QED
    BY <1>1, <1>7, <2>1 DEF Once
<1>10. ASSUME NEW m \in Node PROVE Listed(r, m) <=> Listed(recipients, m) /\ m # n
  <2>1. ASSUME Listed(r, m) PROVE Listed(recipients, m) /\ m # n
    <3>1. PICK i \in 1..(last - 1) : r[i] = m
      BY <1>7, <2>1 DEF Listed
    <3>2. i \in 1..last /\ last \in 1..last /\ i # last
      BY <1>1, <1>2
    <3> QED
      BY <1>1, <1>3, <1>7, <3>1, <3>2 DEF Listed
  <2>2. ASSUME Listed(recipients, m), m # n PROVE Listed(r, m)
    <3>1. PICK i \in 1..last : recipients[i] = m
      BY <1>1, <2>2 DEF Listed
    <3>2. i # k
      BY <1>2, <2>2, <3>1
    <3>3. CASE i = last
      <4>1. k \in 1..(last - 1) /\ r[k] = m
        BY <1>1, <1>2, <1>7, <3>1, <3>2, <3>3
      <4> QED
        BY <1>7, <4>1 DEF Listed
    <3>4. CASE i # last
      <4>1. i \in 1..(last - 1) /\ r[i] = m
        BY <1>1, <1>7, <3>1, <3>2, <3>4
      <4> QED
        BY <1>7, <4>1 DEF Listed
    <3> QED
      BY <3>3, <3>4
  <2> QED
    BY <2>1, <2>2
<1> QED
  BY <1>8, <1>9, <1>10 DEF r

LEMMA AppendListed ==
  ASSUME recipients \in Seq(Node), Once(recipients), NEW n \in Node, ~Listed(recipients, n)
  PROVE  /\ Append(recipients, n) \in Seq(Node)
         /\ Once(Append(recipients, n))
         /\ \A m \in Node : Listed(Append(recipients, n), m) <=> Listed(recipients, m) \/ m = n
<1> DEFINE last == Len(recipients)
           r == Append(recipients, n)
<1>1. /\ last \in Nat /\ DOMAIN recipients = 1..last
      /\ DOMAIN r = 1..(last + 1) /\ r \in Seq(Node)
      /\ \A i \in 1..last : r[i] = recipients[i]
      /\ r[last + 1] = n
  OBVIOUS
<1> HIDE DEF last, r
<1>2. \A i \in 1..last : i \in 1..(last + 1) /\ recipients[i] # n
  BY <1>1 DEF Listed
<1>3. \A i \in 1..(last + 1) : i = last + 1 \/ i \in 1..last
  BY <1>1
<1>4. last + 1 \in 1..(last + 1)
  BY <1>1
<1>5. Once(r)
  BY <1>1, <1>2, <1>3 DEF Once
<1>6. \A m \in Node : Listed(r, m) <=> Listed(recipients, m) \/ m = n
  BY <1>1, <1>2, <1>3, <1>4 DEF Listed
<1> QED
  BY <1>1, <1>5, <1>6 DEF r

-----------------------------------------------------------------------------
ScheduleTypes == /\ grantAmount \in [Node -> Nat]
                 /\ recipients \in Seq(Node)
                 /\ isRecipient \in [Node -> BOOLEAN]

RoleTypes == /\ spender \in Caller
             /\ {governor, streamer, streamerGovernor} \subseteq Caller \cup {Zero}
             /\ operator \in Caller

EpochTypes == currentEpoch \in Nat /\ epochCompleted \subseteq Nat

LEMMA InvParts ==
  /\ PayrollInv <=> PurseTypes /\ ScheduleTypes /\ RoleTypes /\ EpochTypes
                      /\ Solvent /\ ScheduleExact /\ CursorAhead
  /\ PayrollInv' <=> PurseTypes' /\ ScheduleTypes' /\ RoleTypes' /\ EpochTypes'
                      /\ Solvent' /\ ScheduleExact' /\ CursorAhead'
  BY DEF PayrollInv, TypeOK, PurseTypes, ScheduleTypes, RoleTypes, EpochTypes

\* ScheduleExact in terms of Listed and Once.
LEMMA ExactAsLists ==
  /\ ScheduleExact <=> /\ \A n \in Node : /\ isRecipient[n] <=> grantAmount[n] > 0
                                          /\ isRecipient[n] <=> Listed(recipients, n)
                       /\ Once(recipients)
  /\ ScheduleExact' <=> /\ \A n \in Node : /\ isRecipient'[n] <=> grantAmount'[n] > 0
                                           /\ isRecipient'[n] <=> Listed(recipients', n)
                        /\ Once(recipients')
  BY DEF ScheduleExact, Listed, Once

\* Each recipient is listed once, so an epoch owes everybody the grant.
LEMMA DueIsGrants ==
  ASSUME ScheduleTypes, ScheduleExact
  PROVE  Due = grantAmount
<1> SUFFICES ASSUME NEW n \in Node PROVE Due[n] = grantAmount[n]
  BY DEF Due, ScheduleTypes
<1> DEFINE D == {i \in DOMAIN recipients : recipients[i] = n}
<1>1. Due[n] = grantAmount[n] * Cardinality(D) /\ grantAmount[n] \in Nat
  BY DEF Due, ScheduleTypes
<1>2. CASE Listed(recipients, n)
  <2>1. PICK i \in DOMAIN recipients : recipients[i] = n
    BY <1>2 DEF Listed
  <2>2. D = {i}
    BY <2>1, ExactAsLists DEF Once
  <2>3. Cardinality(D) = 1
    BY <2>2, FS_Singleton
  <2> QED
    BY <1>1, <2>3
<1>3. CASE ~Listed(recipients, n)
  <2>1. D = {}
    BY <1>3 DEF Listed
  <2>2. Cardinality(D) = 0
    BY <2>1, FS_EmptySet
  <2>3. grantAmount[n] = 0
    BY <1>1, <1>3, ExactAsLists
  <2> QED
    BY <1>1, <2>2, <2>3
<1> QED
  BY <1>2, <1>3

LEMMA PayrollStart == Init => PayrollInv
<1> SUFFICES ASSUME Init PROVE PayrollInv
  OBVIOUS
<1>1. IsFiniteSet(Node) /\ Deployer \in Holder /\ Purse \in Holder /\ Supply \in Nat
  BY NodeAssumption, DeployerAssumption, BoundAssumption DEF Holder
<1>2. PurseTypes
  BY <1>1 DEF Init, TreasuryInit, Only, PurseTypes
<1>3. Total(allowance) = 0
  BY TotalZero DEF Init, TreasuryInit
<1>4. Solvent
  BY <1>1, <1>2, <1>3 DEF Init, TreasuryInit, Solvent, PurseTypes
<1>5. ScheduleTypes /\ RoleTypes /\ EpochTypes /\ CursorAhead
  BY InputAssumption DEF Init, TreasuryInit, ScheduleTypes, RoleTypes, EpochTypes, CursorAhead
<1>6. ScheduleExact
  BY DEF Init, ScheduleExact
<1> QED
  BY <1>2, <1>4, <1>5, <1>6, InvParts

-----------------------------------------------------------------------------
LEMMA ScheduleStep ==
  ASSUME PayrollInv, NEW caller \in Caller, NEW n \in Node,
         \/ ClearGrant(caller, n)
         \/ \E amount \in 1..MaxAmount : SetGrant(caller, n, amount)
  PROVE  PayrollInv' /\ UNCHANGED <<treasuryVars, epochs>>
<1>1. UNCHANGED <<treasuryVars, epochs, owners>>
  BY DEF ClearGrant, SetGrant
<1>2. PurseTypes' /\ RoleTypes' /\ EpochTypes' /\ Solvent' /\ CursorAhead'
  BY <1>1, InvParts
     DEF treasuryVars, epochs, owners, PurseTypes, RoleTypes, EpochTypes, Solvent, CursorAhead
<1>3. ScheduleTypes /\ Once(recipients)
  BY InvParts, ExactAsLists
<1>4. \A m \in Node : /\ isRecipient[m] <=> grantAmount[m] > 0
                      /\ isRecipient[m] <=> Listed(recipients, m)
  BY InvParts, ExactAsLists
<1>5. CASE ClearGrant(caller, n)
  <2>1. /\ isRecipient' = [isRecipient EXCEPT ![n] = FALSE]
        /\ grantAmount' = [grantAmount EXCEPT ![n] = 0]
        /\ recipients' = WithoutRecipient(n)
        /\ Listed(recipients, n)
    BY <1>4, <1>5 DEF ClearGrant
  <2>2. /\ recipients' \in Seq(Node) /\ Once(recipients')
        /\ \A m \in Node : Listed(recipients', m) <=> Listed(recipients, m) /\ m # n
    BY <1>3, <2>1, WithoutLists DEF ScheduleTypes
  <2>3. ScheduleTypes'
    BY <1>3, <2>1, <2>2 DEF ScheduleTypes
  <2>4. ScheduleExact'
    BY <1>3, <1>4, <2>1, <2>2, ExactAsLists DEF ScheduleTypes
  <2> QED
    BY <1>1, <1>2, <2>3, <2>4, InvParts
<1>6. ASSUME NEW amount \in 1..MaxAmount, SetGrant(caller, n, amount)
      PROVE  ScheduleTypes' /\ ScheduleExact'
  <2>1. amount \in Nat /\ amount > 0
    BY <1>6, BoundAssumption
  <2>2. /\ isRecipient' = [isRecipient EXCEPT ![n] = TRUE]
        /\ grantAmount' = [grantAmount EXCEPT ![n] = amount]
    BY <1>6 DEF SetGrant
  <2>3. /\ recipients' \in Seq(Node) /\ Once(recipients')
        /\ \A m \in Node : Listed(recipients', m) <=> Listed(recipients, m) \/ m = n
    <3>1. CASE isRecipient[n]
      BY <1>3, <1>4, <1>6, <3>1 DEF SetGrant, ScheduleTypes
    <3>2. CASE ~isRecipient[n]
      BY <1>3, <1>4, <1>6, <3>2, AppendListed DEF SetGrant, ScheduleTypes
    <3> QED
      BY <3>1, <3>2
  <2>4. ScheduleTypes'
    BY <1>3, <2>1, <2>2, <2>3 DEF ScheduleTypes
  <2> QED
    BY <1>3, <1>4, <2>1, <2>2, <2>3, <2>4, ExactAsLists DEF ScheduleTypes
<1> QED
  BY <1>1, <1>2, <1>5, <1>6, InvParts

LEMMA EpochStep ==
  ASSUME PayrollInv, NEW caller \in Caller, NEW epoch \in Nat, RunEpoch(caller, epoch)
  PROVE  /\ PayrollInv'
         /\ epochCompleted' # epochCompleted /\ epochCompleted \subseteq epochCompleted'
         /\ allowance' = Plus(allowance, grantAmount) /\ token' = token
<1>1. /\ PurseTypes /\ ScheduleTypes /\ EpochTypes /\ Solvent /\ ScheduleExact
      /\ RoleTypes /\ CursorAhead
  BY InvParts
<1>2. Due = grantAmount /\ Due \in [Node -> Nat]
  BY <1>1, DueIsGrants DEF ScheduleTypes
<1>3. Stream(This, Due)
  BY DEF RunEpoch
<1>4. PurseTypes' /\ Solvent'
  BY <1>1, <1>2, <1>3, StreamKeepsSolvent
<1>5. ScheduleTypes' /\ ScheduleExact' /\ RoleTypes'
  BY <1>1, <1>3 DEF RunEpoch, Stream, schedule, owners, roles,
                    ScheduleTypes, ScheduleExact, RoleTypes
<1>6. EpochTypes' /\ CursorAhead'
  BY <1>1 DEF RunEpoch, Cursor, EpochTypes, CursorAhead
<1>7. allowance' = Plus(allowance, grantAmount) /\ token' = token
  BY <1>2, <1>3 DEF Stream
<1>8. epochCompleted' # epochCompleted /\ epochCompleted \subseteq epochCompleted'
  BY DEF RunEpoch
<1> QED
  BY <1>4, <1>5, <1>6, <1>7, <1>8, InvParts

AtMostOneRaised ==
  \A m, n \in Node : allowance'[m] > allowance[m] /\ allowance'[n] > allowance[n] => m = n

LEMMA TreasuryStepKeeps ==
  ASSUME PayrollInv, TreasuryStep, UNCHANGED <<schedule, epochs, owners>>
  PROVE  PayrollInv' /\ AtMostOneRaised
<1>1. PurseTypes /\ Solvent
  BY InvParts
<1>2. ScheduleTypes' /\ ScheduleExact' /\ EpochTypes' /\ CursorAhead'
  BY InvParts DEF schedule, epochs, ScheduleTypes, ScheduleExact, EpochTypes, CursorAhead
<1>3. RoleTypes /\ operator' = operator /\ streamerGovernor' = streamerGovernor
  BY InvParts DEF owners
<1>4. ASSUME UNCHANGED funds PROVE PurseTypes' /\ Solvent' /\ AtMostOneRaised
  BY <1>1, <1>4 DEF funds, PurseTypes, Solvent, AtMostOneRaised
<1>5. ASSUME UNCHANGED roles PROVE RoleTypes'
  BY <1>3, <1>5 DEF roles, RoleTypes
<1>6. PICK caller \in Caller :
        \/ \E g \in GovernorInput : SetGovernor(caller, g)
        \/ \E a \in StreamerInput : SetStreamer(caller, a)
        \/ \E a \in SpenderInput : SetSpender(caller, a)
        \/ \E amount \in 1..MaxAmount, n \in Node, to \in Holder :
             \/ Deposit(caller, amount)
             \/ StreamAllowance(caller, n, amount)
             \/ SpendAllowance(caller, n, amount, to)
  BY DEF TreasuryStep
<1>7. CASE \/ \E g \in GovernorInput : SetGovernor(caller, g)
           \/ \E a \in StreamerInput : SetStreamer(caller, a)
           \/ \E a \in SpenderInput : SetSpender(caller, a)
  <2>1. UNCHANGED funds
    BY <1>7 DEF SetGovernor, SetStreamer, SetSpender
  <2>2. RoleTypes'
    BY <1>3, <1>7, InputAssumption DEF SetGovernor, SetStreamer, SetSpender, RoleTypes
  <2> QED
    BY <1>2, <1>4, <2>1, <2>2, InvParts
<1>8. ASSUME NEW amount \in 1..MaxAmount, Deposit(caller, amount)
      PROVE  PayrollInv' /\ AtMostOneRaised
  <2>1. amount \in Nat
    BY BoundAssumption
  <2>2. PurseTypes' /\ Solvent'
    BY <1>1, <1>8, <2>1, DepositKeepsSolvent
  <2>3. AtMostOneRaised
    BY <1>1, <1>8 DEF Deposit, AtMostOneRaised, PurseTypes
  <2>4. UNCHANGED roles
    BY <1>8 DEF Deposit
  <2> QED
    BY <1>2, <1>5, <2>2, <2>3, <2>4, InvParts
<1>9. ASSUME NEW amount \in 1..MaxAmount, NEW n \in Node, StreamAllowance(caller, n, amount)
      PROVE  PayrollInv' /\ AtMostOneRaised
  <2>1. Only(Node, n, amount) \in [Node -> Nat]
    BY BoundAssumption DEF Only
  <2>2. Stream(caller, Only(Node, n, amount))
    BY <1>9 DEF StreamAllowance
  <2>3. PurseTypes' /\ Solvent'
    BY <1>1, <2>1, <2>2, StreamKeepsSolvent
  <2>4. \A m \in Node \ {n} : allowance'[m] = allowance[m]
    BY <1>1, <2>2 DEF Stream, Plus, Only, PurseTypes
  <2>5. AtMostOneRaised
    BY <1>1, <2>4 DEF AtMostOneRaised, PurseTypes
  <2>6. UNCHANGED roles
    BY <2>2 DEF Stream
  <2> QED
    BY <1>2, <1>5, <2>3, <2>5, <2>6, InvParts
<1>10. ASSUME NEW amount \in 1..MaxAmount, NEW n \in Node, NEW to \in Holder,
              SpendAllowance(caller, n, amount, to)
       PROVE  PayrollInv' /\ AtMostOneRaised
  <2>1. amount \in Nat
    BY BoundAssumption
  <2>2. PurseTypes' /\ Solvent'
    BY <1>1, <1>10, <2>1, SpendKeepsSolvent
  <2>3. \A m \in Node : allowance'[m] <= allowance[m]
    BY <1>1, <1>10, <2>1 DEF SpendAllowance, PurseTypes
  <2>4. AtMostOneRaised
    BY <1>1, <2>2, <2>3 DEF AtMostOneRaised, PurseTypes
  <2>5. UNCHANGED roles
    BY <1>10 DEF SpendAllowance
  <2> QED
    BY <1>2, <1>5, <2>2, <2>4, <2>5, InvParts
<1> QED
  BY <1>6, <1>7, <1>8, <1>9, <1>10

\* A step completes one epoch, or completes none and raises one allowance at
\* most.
PaysOnce ==
  /\ epochCompleted \subseteq epochCompleted'
  /\ IF epochCompleted' # epochCompleted
     THEN allowance' = Plus(allowance, grantAmount) /\ token' = token
     ELSE AtMostOneRaised

LEMMA PayrollStep == PayrollInv /\ [Next]_vars => PayrollInv' /\ (PaysOnce \/ UNCHANGED vars)
<1> SUFFICES ASSUME PayrollInv, [Next]_vars PROVE PayrollInv' /\ (PaysOnce \/ UNCHANGED vars)
  OBVIOUS
<1>1. CASE UNCHANGED vars
  BY <1>1 DEF vars, treasuryVars, schedule, epochs, owners, PayrollInv, TypeOK, Solvent,
              ScheduleExact, CursorAhead
<1>2. CASE TreasuryStep /\ UNCHANGED <<schedule, epochs, owners>>
  <2>1. PayrollInv' /\ AtMostOneRaised
    BY <1>2, TreasuryStepKeeps
  <2>2. epochCompleted' = epochCompleted
    BY <1>2 DEF epochs
  <2> QED
    BY <2>1, <2>2 DEF PaysOnce
<1>3. CASE StreamerStep
  <2>1. PICK caller \in Caller :
          \/ \E a \in OperatorInput : SetOperator(caller, a)
          \/ \E g \in GovernorInput : BindStreamerGovernor(caller, g)
          \/ \E n \in Node : ClearGrant(caller, n)
          \/ \E n \in Node, amount \in 1..MaxAmount : SetGrant(caller, n, amount)
          \/ RunNextEpoch(caller)
          \/ \E e \in Epoch : RunEpoch(caller, e)
    BY <1>3 DEF StreamerStep
  <2>2. PurseTypes
    BY InvParts
  <2>3. ASSUME UNCHANGED <<treasuryVars, epochs>> PROVE PaysOnce
    BY <2>2, <2>3 DEF treasuryVars, epochs, PaysOnce, AtMostOneRaised, PurseTypes
  <2>4. CASE \/ \E a \in OperatorInput : SetOperator(caller, a)
             \/ \E g \in GovernorInput : BindStreamerGovernor(caller, g)
    <3>1. UNCHANGED <<treasuryVars, schedule, epochs>>
      BY <2>4 DEF SetOperator, BindStreamerGovernor
    <3>2. RoleTypes'
      BY <2>4, <3>1, InvParts, InputAssumption
         DEF SetOperator, BindStreamerGovernor, RoleTypes, treasuryVars
    <3>3. /\ PurseTypes' /\ ScheduleTypes' /\ EpochTypes'
          /\ Solvent' /\ ScheduleExact' /\ CursorAhead'
      BY <3>1, InvParts DEF treasuryVars, schedule, epochs, PurseTypes, ScheduleTypes,
                            EpochTypes, Solvent, ScheduleExact, CursorAhead
    <3> QED
      BY <2>3, <3>1, <3>2, <3>3, InvParts
  <2>5. CASE \/ \E n \in Node : ClearGrant(caller, n)
             \/ \E n \in Node, amount \in 1..MaxAmount : SetGrant(caller, n, amount)
    BY <2>3, <2>5, ScheduleStep
  <2>6. CASE RunNextEpoch(caller) \/ \E e \in Epoch : RunEpoch(caller, e)
    <3>1. PICK e \in Nat : RunEpoch(caller, e)
      BY <2>6, BoundAssumption DEF RunNextEpoch, Epoch
    <3> QED
      BY <3>1, EpochStep DEF PaysOnce
  <2> QED
    BY <2>1, <2>4, <2>5, <2>6
<1> QED
  BY <1>1, <1>2, <1>3 DEF Next

\* The purse can always pay what it has promised, the payroll list, flags and
\* grants agree, and the cursor is past every completed epoch.
THEOREM PurseIsSolvent == Spec => [](TypeOK /\ Solvent /\ ScheduleExact /\ CursorAhead)
<1>1. PayrollInv /\ [Next]_vars => PayrollInv'
  BY PayrollStep
<1>2. PayrollInv => TypeOK /\ Solvent /\ ScheduleExact /\ CursorAhead
  BY DEF PayrollInv
<1> QED
  BY <1>1, <1>2, PayrollStart, PTL DEF Spec

\* An epoch id pays every node its grant in the step that completes it and
\* never again.
THEOREM EpochsPayOnce == Spec => EpochPaysEachGrantOnce
<1>1. PayrollInv /\ [Next]_vars => PayrollInv'
  BY PayrollStep
<1>2. PayrollInv /\ [Next]_vars =>
        [/\ epochCompleted \subseteq epochCompleted'
         /\ IF epochCompleted' # epochCompleted
            THEN allowance' = Plus(allowance, grantAmount) /\ token' = token
            ELSE \A m, n \in Node :
                   allowance'[m] > allowance[m] /\ allowance'[n] > allowance[n] => m = n]_vars
  BY PayrollStep DEF PaysOnce, AtMostOneRaised
<1> QED
  BY <1>1, <1>2, PayrollStart, PTL DEF Spec, EpochPaysEachGrantOnce

\* The payroll list, the flags and the grants always say the same thing
\* (setGrant, _removeRecipient).
COROLLARY ScheduleStaysExact == Spec => []ScheduleExact
  BY PurseIsSolvent, PTL

-----------------------------------------------------------------------------
(* The refinement of Allowances: a step never moves more than the supply,  *)
(* because tokens are neither made nor lost.                               *)

TokensKept == Total(token) = Supply

HolderFinite == IsFiniteSet(Holder)

LEMMA HoldersAreFinite == HolderFinite
<1>1. IsFiniteSet({Purse})
  BY FS_Singleton
<1>2. IsFiniteSet(Node \cup Caller)
  BY NodeAssumption, CallerAssumption, FS_Union
<1> QED
  BY <1>1, <1>2, FS_Union DEF HolderFinite, Holder

LEMMA TransferKeepsTokens ==
  ASSUME token \in [Holder -> Nat], NEW from \in Holder, NEW to \in Holder,
         NEW amount \in Nat, Transfer(from, to, amount)
  PROVE  Total(token') = Total(token)
<1>1. CASE from = to
  BY <1>1 DEF Transfer
<1>2. CASE from # to
  <2> DEFINE mid == [token EXCEPT ![from] = @ - amount]
  <2>1. token[from] \in Nat /\ amount <= token[from]
    BY DEF Transfer
  <2>2. /\ mid \in [Holder -> Nat] /\ mid[from] = token[from] - amount
        /\ \A x \in Holder \ {from} : mid[x] = token[x]
    BY <2>1
  <2>3. /\ token' \in [Holder -> Nat] /\ token'[to] = mid[to] + amount
        /\ \A x \in Holder \ {to} : token'[x] = mid[x]
    BY <1>2, <2>1 DEF Transfer
  <2> HIDE DEF mid
  <2>4. Total(mid) = Total(token) - token[from] + mid[from]
    BY <2>2, HoldersAreFinite, TotalChange DEF HolderFinite
  <2>5. Total(token') = Total(mid) - mid[to] + token'[to]
    BY <2>2, <2>3, HoldersAreFinite, TotalChange DEF HolderFinite
  <2>6. Total(token) \in Nat /\ Total(mid) \in Nat /\ mid[to] \in Nat
    BY <2>2, HoldersAreFinite, TotalNat DEF HolderFinite
  <2> QED
    BY <2>1, <2>2, <2>3, <2>4, <2>5, <2>6
<1> QED
  BY <1>1, <1>2

\* Nobody holds, and the purse promises nobody, more than there is.
LEMMA NobodyHoldsMore ==
  ASSUME PurseTypes, Solvent, TokensKept
  PROVE  /\ \A x \in Holder : token[x] \in Nat /\ token[x] <= Supply
         /\ \A n \in Node : allowance[n] \in Nat /\ allowance[n] <= Supply
         /\ Liquid \in Nat /\ Liquid <= Supply /\ Liquid = token[Purse] - totalReserved
<1>1. \A x \in Holder : token[x] \in Nat /\ token[x] <= Supply
  BY HoldersAreFinite, EntryAtMostTotal DEF PurseTypes, TokensKept, HolderFinite
<1>2. token[Purse] \in Nat /\ token[Purse] <= Supply /\ totalReserved \in Nat
  BY <1>1 DEF Holder, PurseTypes
<1>3. \A n \in Node : allowance[n] \in Nat /\ allowance[n] <= totalReserved
  BY NodeAssumption, EntryAtMostTotal DEF PurseTypes, Solvent
<1>4. totalReserved <= token[Purse]
  BY DEF Solvent
<1>5. Supply \in Nat
  BY BoundAssumption
<1>6. \A n \in Node : allowance[n] <= Supply
  BY <1>2, <1>3, <1>4, <1>5
<1>7. Liquid \in Nat /\ Liquid <= Supply /\ Liquid = token[Purse] - totalReserved
  BY <1>2, <1>4, <1>5 DEF Liquid
<1> QED
  BY <1>1, <1>3, <1>6, <1>7

LEMMA LiquidAfter ==
  ASSUME PurseTypes', Solvent'
  PROVE  Liquid' = token'[Purse] - totalReserved'
<1>1. token'[Purse] \in Nat /\ totalReserved' \in Nat /\ totalReserved' <= token'[Purse]
  BY DEF PurseTypes, Solvent, Holder
<1> QED
  BY <1>1 DEF Liquid

LEMMA StreamReserves ==
  ASSUME PurseTypes, Solvent, TokensKept, NEW caller, NEW due \in [Node -> Nat],
         Stream(caller, due)
  PROVE  Promised!PurseNext /\ TokensKept'
<1>1. /\ Total(due) <= Liquid /\ allowance' = Plus(allowance, due)
      /\ totalReserved' = totalReserved + Total(due) /\ token' = token
  BY DEF Stream, Solvent, PurseTypes
<1>2. PurseTypes' /\ Solvent'
  BY StreamKeepsSolvent
<1>3. TokensKept'
  BY <1>1 DEF TokensKept
<1>4. Total(due) \in Nat /\ \A n \in Node : due[n] <= Total(due)
  BY NodeAssumption, TotalNat, EntryAtMostTotal
<1>5. Liquid \in Nat /\ Liquid <= Supply /\ Liquid = token[Purse] - totalReserved
  BY NobodyHoldsMore
<1>6. Liquid' = token'[Purse] - totalReserved'
  BY <1>2, LiquidAfter
<1>7. due \in [Node -> 0..Supply]
  BY <1>1, <1>4, <1>5, BoundAssumption
<1>8. Liquid' = Liquid - Total(due)
  BY <1>1, <1>4, <1>5, <1>6 DEF PurseTypes, Holder
<1>9. Promised!Reserve(due)
  <2>1. Promised!Total(due) = Total(due) /\ Promised!Plus(allowance, due) = Plus(allowance, due)
    BY DEF Promised!Total, Promised!Units, Promised!Plus, Total, Units, Plus, Promised!Cardinality, Cardinality
  <2> QED
    BY <1>1, <1>8, <2>1 DEF Promised!Reserve
<1> QED
  BY <1>3, <1>7, <1>9 DEF Promised!PurseNext

LEMMA DepositFunds ==
  ASSUME PurseTypes, Solvent, TokensKept, NEW from \in Caller,
         NEW amount \in 1..MaxAmount, Deposit(from, amount)
  PROVE  Promised!PurseNext /\ TokensKept'
<1>1. amount \in Nat \ {0} /\ from \in Holder /\ Purse \in Holder /\ from # Purse
  BY BoundAssumption, CallerAssumption DEF Holder
<1>2. PurseTypes' /\ Solvent'
  BY <1>1, DepositKeepsSolvent
<1>3. TokensKept'
  BY <1>1, TransferKeepsTokens DEF PurseTypes, Deposit, TokensKept
<1>4. token'[Purse] = token[Purse] + amount /\ amount <= token[from]
      /\ totalReserved' = totalReserved /\ allowance' = allowance
  BY <1>1 DEF Deposit, Transfer, PurseTypes
<1>5. /\ token[from] \in Nat /\ token[from] <= Supply /\ token[Purse] \in Nat
      /\ Liquid = token[Purse] - totalReserved /\ Liquid' = token'[Purse] - totalReserved'
  BY <1>1, <1>2, LiquidAfter, NobodyHoldsMore
<1>6. amount \in 1..Supply
  BY <1>1, <1>4, <1>5, BoundAssumption
<1>7. Promised!Fund(amount)
  BY <1>1, <1>4, <1>5 DEF Promised!Fund, PurseTypes
<1> QED
  BY <1>3, <1>6, <1>7 DEF Promised!PurseNext

LEMMA SpendPays ==
  ASSUME PurseTypes, Solvent, TokensKept, NEW caller, NEW n \in Node,
         NEW amount \in 1..MaxAmount, NEW to \in Holder,
         SpendAllowance(caller, n, amount, to)
  PROVE  Promised!PurseNext /\ TokensKept'
<1>1. amount \in Nat \ {0} /\ Purse \in Holder
  BY BoundAssumption DEF Holder
<1>2. PurseTypes' /\ Solvent'
  BY <1>1, SpendKeepsSolvent
<1>3. TokensKept'
  BY <1>1, TransferKeepsTokens DEF PurseTypes, SpendAllowance, TokensKept
<1>4. /\ token'[Purse] = IF to = Purse THEN token[Purse] ELSE token[Purse] - amount
      /\ totalReserved' = totalReserved - amount
      /\ amount <= totalReserved /\ amount <= allowance[n]
      /\ allowance' = [allowance EXCEPT ![n] = @ - amount]
  BY <1>1 DEF SpendAllowance, Transfer, PurseTypes
<1>5. /\ token[Purse] \in Nat /\ allowance[n] \in Nat /\ allowance[n] <= Supply
      /\ Liquid = token[Purse] - totalReserved /\ Liquid' = token'[Purse] - totalReserved'
  BY <1>1, <1>2, LiquidAfter, NobodyHoldsMore
<1>6. amount \in 1..Supply
  BY <1>1, <1>4, <1>5, BoundAssumption
<1>7. Liquid' = IF to = Purse THEN Liquid + amount ELSE Liquid
  BY <1>1, <1>4, <1>5 DEF PurseTypes
<1>8. Promised!Pay(n, amount, to = Purse)
  BY <1>4, <1>7 DEF Promised!Pay
<1> QED
  BY <1>3, <1>6, <1>8 DEF Promised!PurseNext

LEMMA StartPromises ==
  ASSUME Init
  PROVE  TokensKept /\ Promised!PurseInit
<1>1. Deployer \in Holder /\ Purse \in Holder /\ Deployer # Purse /\ Supply \in Nat
  BY DeployerAssumption, CallerAssumption, BoundAssumption DEF Holder
<1>2. TokensKept
  BY <1>1, HoldersAreFinite, TotalOnly DEF Init, TreasuryInit, TokensKept, HolderFinite
<1>3. token[Purse] = 0 /\ totalReserved = 0
  BY <1>1 DEF Init, TreasuryInit, Only
<1>4. Liquid = 0
  BY <1>3 DEF Liquid
<1> QED
  BY <1>2, <1>4 DEF Promised!PurseInit, Init, TreasuryInit

LEMMA StepPromises ==
  ASSUME PayrollInv, TokensKept, [Next]_vars
  PROVE  TokensKept' /\ [Promised!PurseNext]_<<Liquid, allowance>>
<1>0. PurseTypes /\ Solvent /\ ScheduleTypes /\ ScheduleExact
  BY InvParts
<1>1. ASSUME UNCHANGED funds
      PROVE  TokensKept' /\ UNCHANGED <<Liquid, allowance>>
  BY <1>1 DEF funds, TokensKept, Liquid
<1>2. CASE UNCHANGED vars
  BY <1>1, <1>2 DEF vars, treasuryVars, funds
<1>3. CASE TreasuryStep
  <2>1. PICK caller \in Caller :
          \/ \E g \in GovernorInput : SetGovernor(caller, g)
          \/ \E a \in StreamerInput : SetStreamer(caller, a)
          \/ \E a \in SpenderInput : SetSpender(caller, a)
          \/ \E amount \in 1..MaxAmount, n \in Node, to \in Holder :
               \/ Deposit(caller, amount)
               \/ StreamAllowance(caller, n, amount)
               \/ SpendAllowance(caller, n, amount, to)
    BY <1>3 DEF TreasuryStep
  <2>2. CASE \/ \E g \in GovernorInput : SetGovernor(caller, g)
             \/ \E a \in StreamerInput : SetStreamer(caller, a)
             \/ \E a \in SpenderInput : SetSpender(caller, a)
    BY <1>1, <2>2 DEF SetGovernor, SetStreamer, SetSpender
  <2>3. ASSUME NEW amount \in 1..MaxAmount, NEW n \in Node, StreamAllowance(caller, n, amount)
        PROVE  TokensKept' /\ Promised!PurseNext
    <3>1. Only(Node, n, amount) \in [Node -> Nat]
      BY BoundAssumption DEF Only
    <3> QED
      BY <1>0, <2>3, <3>1, StreamReserves DEF StreamAllowance
  <2> QED
    BY <1>0, <2>1, <2>2, <2>3, DepositFunds, SpendPays
<1>4. CASE StreamerStep
  <2>1. PICK caller \in Caller :
          \/ \E a \in OperatorInput : SetOperator(caller, a)
          \/ \E g \in GovernorInput : BindStreamerGovernor(caller, g)
          \/ \E n \in Node : ClearGrant(caller, n)
          \/ \E n \in Node, amount \in 1..MaxAmount : SetGrant(caller, n, amount)
          \/ RunNextEpoch(caller)
          \/ \E e \in Epoch : RunEpoch(caller, e)
    BY <1>4 DEF StreamerStep
  <2>2. CASE RunNextEpoch(caller) \/ \E e \in Epoch : RunEpoch(caller, e)
    <3>1. Stream(This, Due)
      BY <2>2 DEF RunNextEpoch, RunEpoch
    <3>2. Due \in [Node -> Nat]
      BY <1>0, DueIsGrants DEF ScheduleTypes
    <3> QED
      BY <1>0, <3>1, <3>2, StreamReserves
  <2>3. CASE ~(RunNextEpoch(caller) \/ \E e \in Epoch : RunEpoch(caller, e))
    <3>1. UNCHANGED treasuryVars
      BY <2>1, <2>3 DEF SetOperator, BindStreamerGovernor, ClearGrant, SetGrant
    <3> QED
      BY <1>1, <3>1 DEF treasuryVars, funds
  <2> QED
    BY <2>2, <2>3
<1> QED
  BY <1>2, <1>3, <1>4 DEF Next

\* The purse and the payroll job implement Allowances: what is reserved was
\* free, and an allowance only ever shrinks by what is paid from it, for any
\* callers, grants, epochs and supply.
THEOREM PayrollKeepsAllowances == Spec => KeepsAllowances
<1>1. PayrollInv /\ [Next]_vars => PayrollInv'
  BY PayrollStep
<1>2. PayrollInv /\ TokensKept /\ [Next]_vars =>
        TokensKept' /\ [Promised!PurseNext]_<<Liquid, allowance>>
  BY StepPromises
<1> QED
  BY <1>1, <1>2, PayrollStart, StartPromises, PTL
     DEF Spec, KeepsAllowances, Promised!PurseSpec, Promised!purse
=============================================================================
