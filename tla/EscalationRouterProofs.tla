----------------------- MODULE EscalationRouterProofs -----------------------
(***************************************************************************)
(* Theorems about the router, for any tree, keys, policies and wiring and  *)
(* whatever the neighbours do between two of its calls: claims are paid    *)
(* once and on authority, keys limit what they pay, intents only climb,    *)
(* and while the tree stands they ask nodes above their agent.             *)
(***************************************************************************)
EXTENDS EscalationRouter, SequenceTheorems

(* The neighbours' steps, as far as the router depends on them. *)

LEMMA ChartKeepsTypes ==
  ASSUME node \in [Account -> NodeType], ChartNext
  PROVE  node' \in [Account -> NodeType]
<1> USE RootAssumption, ZeroAssumption, KindAssumption
<1> PICK a \in Account :
      \/ \E k \in Kind, p \in Account : Hire(a, k, p)
      \/ \E b \in BOOLEAN : Toggle(a, b)
      \/ Fire(a)
      \/ \E p \in Account : Move(a, p)
  BY DEF ChartNext
<1>1. ASSUME NEW k \in Kind, NEW p \in Account, Hire(a, k, p)
      PROVE  node' \in [Account -> NodeType]
  BY <1>1 DEF Hire, NodeType, Address
<1>2. ASSUME NEW b \in BOOLEAN, Toggle(a, b)
      PROVE  node' \in [Account -> NodeType]
  BY <1>2 DEF Toggle, NodeType, Address
<1>3. CASE Fire(a)
  <2>1. \A b \in Account : node[b] \in NodeType /\ Parent(b) \in Address
    BY DEF NodeType, Parent
  <2>2. Absent \in NodeType
    BY DEF Absent, NodeType, Address, NoKind
  <2>3. \A b \in Account : [node[b] EXCEPT !.parent = Parent(a)] \in NodeType
    BY <2>1 DEF NodeType
  <2> QED
    BY <1>3, <2>1, <2>2, <2>3 DEF Fire
<1>4. ASSUME NEW p \in Account, Move(a, p)
      PROVE  node' \in [Account -> NodeType]
  BY <1>4 DEF Move, NodeType, Address
<1> QED
  BY <1>1, <1>2, <1>3, <1>4

\* The parent of a node that has one is an account.
LEMMA ParentIsAccount ==
  ASSUME TypeOK, NEW n \in Account, Parent(n) # Zero
  PROVE  Parent(n) \in Account
  BY DEF TypeOK, NodeType, Address, Parent

LEMMA StreamRaises ==
  ASSUME TypeOK, NEW n \in Agent, NEW amount \in Value, StreamTo(n, amount)
  PROVE  /\ allowance' = [allowance EXCEPT ![n] = @ + amount]
         /\ allowance' \in [Agent -> Nat]
<1>1. amount \in Nat
  BY RouterBounds
<1>2. allowance' = Plus(allowance, Only(Agent, n, amount))
  BY DEF StreamTo, Reserve
<1>3. \A m \in Agent : Only(Agent, n, amount)[m] = IF m = n THEN amount ELSE 0
  BY DEF Only
<1>4. allowance' = [m \in Agent |-> IF m = n THEN allowance[m] + amount ELSE allowance[m]]
  <2>1. allowance' = [m \in Agent |-> allowance[m] + Only(Agent, n, amount)[m]]
    BY <1>2 DEF Plus, TypeOK
  <2>2. \A m \in Agent : allowance[m] \in Nat
    BY DEF TypeOK
  <2> QED
    BY <1>3, <2>1, <2>2
<1>5. allowance \in [Agent -> Nat]
  BY DEF TypeOK
<1>6. allowance' = [allowance EXCEPT ![n] = @ + amount]
  BY <1>4, <1>5
<1>7. allowance' \in [Agent -> Nat]
  BY <1>1, <1>4, <1>5
<1> QED
  BY <1>6, <1>7

\* What a settled action does to the allowances.
Paid(n, value) ==
  IF treasury # Zero
  THEN value <= allowance[n] /\ allowance' = [allowance EXCEPT ![n] = @ - value]
  ELSE allowance' = allowance

LEMMA FinalizePays ==
  ASSUME TypeOK, NEW n \in Agent, NEW target, NEW value \in Value,
         Finalize(n, target, value)
  PROVE  /\ Paid(n, value)
         /\ allowance' \in [Agent -> Nat]
<1>1. value \in Nat /\ allowance \in [Agent -> Nat]
  BY RouterBounds DEF TypeOK
<1>2. CASE treasury # Zero /\ value > 0
  <2>1. value <= allowance[n] /\ allowance' = [allowance EXCEPT ![n] = @ - value]
    BY <1>2 DEF Finalize, Pay
  <2> QED
    BY <1>1, <1>2, <2>1 DEF Paid
<1>3. CASE ~(treasury # Zero /\ value > 0)
  <2>1. allowance' = allowance
    BY <1>3 DEF Finalize, money
  <2>2. value = 0 => allowance = [allowance EXCEPT ![n] = @ - value] /\ value <= allowance[n]
    BY <1>1
  <2> QED
    BY <1>1, <1>3, <2>1, <2>2 DEF Paid
<1> QED
  BY <1>2, <1>3

-----------------------------------------------------------------------------
(* What the operations do to the intents. *)

\* Entry id is replaced by i and the others stay.
Replaced(id, i) ==
  /\ intent' \in Seq(IntentType)
  /\ Len(intent') = Len(intent)
  /\ intent'[id] = i
  /\ \A j \in Id : j # id => intent'[j] = intent[j]

LEMMA ReplacedEntry ==
  ASSUME TypeOK, NEW id \in Id, NEW i \in IntentType,
         intent' = [intent EXCEPT ![id] = i]
  PROVE  Replaced(id, i)
<1>1. intent \in Seq(IntentType) /\ id \in 1..Len(intent) /\ Id = 1..Len(intent)
  BY DEF TypeOK, Id
<1> QED
  BY <1>1, ExceptSeq DEF Replaced

LEMMA EntryType ==
  ASSUME TypeOK, NEW id \in Id
  PROVE  /\ intent[id] \in IntentType
         /\ intent[id].approved => intent[id].resolved
  BY ElementOfSeq DEF TypeOK, Id

LEMMA CloseReplaces ==
  ASSUME TypeOK, NEW id \in Id, NEW yes \in BOOLEAN, Close(id, yes)
  PROVE  Replaced(id, [intent[id] EXCEPT !.resolved = TRUE, !.approved = yes])
<1> DEFINE i == [intent[id] EXCEPT !.resolved = TRUE, !.approved = yes]
<1>1. intent[id] \in IntentType
  BY EntryType
<1>2. i \in IntentType
  BY <1>1 DEF IntentType
<1>3. intent' = [intent EXCEPT ![id] = i]
  BY DEF Close
<1> QED
  BY <1>2, <1>3, ReplacedEntry

LEMMA ClimbReplaces ==
  ASSUME TypeOK, NEW caller, NEW id \in Id, Climb(caller, id)
  PROVE  /\ Replaced(id, [intent[id] EXCEPT !.awaiting = Parent(caller)])
         /\ Parent(caller) \in Account
<1> DEFINE i == [intent[id] EXCEPT !.awaiting = Parent(caller)]
<1>1. intent[id] \in IntentType /\ caller = intent[id].awaiting
  BY EntryType DEF Climb, IsAwaited
<1>2. caller \in Account /\ Parent(caller) # Zero
  BY <1>1 DEF Climb, HasFinalSay, IntentType
<1>3. Parent(caller) \in Account
  BY <1>2, ParentIsAccount
<1>4. i \in IntentType
  BY <1>1, <1>3 DEF IntentType
<1>5. intent' = [intent EXCEPT ![id] = i]
  BY DEF Climb
<1> QED
  BY <1>3, <1>4, <1>5, ReplacedEntry

Raised(i) ==
  /\ intent' \in Seq(IntentType)
  /\ Len(intent') = Len(intent) + 1
  /\ intent'[Len(intent) + 1] = i
  /\ \A j \in Id : intent'[j] = intent[j]

NewIntent(agent, target, value) ==
  [agent |-> agent, target |-> target, value |-> value,
   awaiting |-> Parent(agent), resolved |-> FALSE, approved |-> FALSE]

LEMMA EscalationAppends ==
  ASSUME TypeOK, NEW caller, NEW agent \in Agent, NEW target \in Target, NEW value \in Value,
         ProposeEscalated(caller, agent, target, value)
  PROVE  Raised(NewIntent(agent, target, value))
<1> DEFINE i == NewIntent(agent, target, value)
<1>1. Parent(agent) \in Account
  BY ParentIsAccount DEF ProposeEscalated, Agent
<1>2. i \in IntentType
  BY <1>1 DEF NewIntent, IntentType
<1>3. intent \in Seq(IntentType) /\ Id = 1..Len(intent) /\ intent' = Append(intent, i)
  BY DEF TypeOK, Id, ProposeEscalated, NewIntent
<1> HIDE DEF i
<1>4. /\ Append(intent, i) \in Seq(IntentType)
      /\ Len(Append(intent, i)) = Len(intent) + 1
      /\ Append(intent, i)[Len(intent) + 1] = i
      /\ \A j \in 1..Len(intent) : Append(intent, i)[j] = intent[j]
  BY <1>2, <1>3, AppendProperties
<1> QED
  BY <1>3, <1>4 DEF Raised, i

-----------------------------------------------------------------------------
(* Types are kept.  A step is one of six kinds. *)

IntentTypes == /\ intent \in Seq(IntentType)
               /\ \A id \in Id : intent[id].approved => intent[id].resolved
WiringTypes == /\ policy \in Stack
               /\ policyOf \in [Agent -> Stack \cup {NoStack}]
               /\ treasury \in {Purse, Zero} /\ sessionRegistry \in {Registry, Zero}
               /\ rateRecorder \in RateModule \cup {Zero}
               /\ rateRecorderOf \in [Agent -> RateModule \cup {Zero}]
               /\ governor \in {Governor, Zero}
ChartTypes == node \in [Account -> NodeType]
PurseTypes == allowance \in [Agent -> Nat]

LEMMA TypeParts ==
  /\ TypeOK <=> IntentTypes /\ WiringTypes /\ ChartTypes /\ PurseTypes
  /\ TypeOK' <=> IntentTypes' /\ WiringTypes' /\ ChartTypes' /\ PurseTypes'
  BY DEF TypeOK, IntentTypes, WiringTypes, ChartTypes, PurseTypes

LEMMA ReplacedTypes ==
  ASSUME TypeOK, NEW id \in Id, NEW i \in IntentType, i.approved => i.resolved,
         Replaced(id, i)
  PROVE  IntentTypes'
<1>1. DOMAIN intent' = 1..Len(intent) /\ Id = 1..Len(intent) /\ Id' = Id
  BY DEF Replaced, TypeOK, Id
<1>2. \A j \in Id : intent'[j].approved => intent'[j].resolved
  BY EntryType DEF Replaced
<1> QED
  BY <1>1, <1>2 DEF Replaced, IntentTypes

LEMMA RaisedTypes ==
  ASSUME TypeOK, NEW i \in IntentType, ~i.approved, Raised(i)
  PROVE  IntentTypes'
<1>1. Len(intent) \in Nat /\ Id = 1..Len(intent) /\ Id' = 1..(Len(intent) + 1)
  BY LenProperties DEF Raised, TypeOK, Id
<1>2. \A j \in Id' : intent'[j].approved => intent'[j].resolved
  <2> TAKE j \in Id'
  <2>1. CASE j \in Id
    BY <2>1, EntryType DEF Raised
  <2>2. CASE j = Len(intent) + 1
    BY <2>2 DEF Raised
  <2> QED
    BY <1>1, <2>1, <2>2
<1> QED
  BY <1>2 DEF Raised, IntentTypes

\* A step that leaves intents and allowances alone.
Quiet == UNCHANGED <<intent, allowance>>

LEMMA SetterTypes ==
  ASSUME TypeOK, NEW caller, Setter(caller)
  PROVE  TypeOK' /\ Quiet
<1>1. UNCHANGED <<node, allowance, intent, policy>>
  BY DEF Setter, Sets, SetGovernor, SetTreasury, SetSessionRegistry, SetRateRecorder,
         SetNodeRateRecorder, SetNodePolicy, money
<1>2. WiringTypes
  BY TypeParts
<1>3. ASSUME SetGovernor(caller)
      PROVE  WiringTypes'
  BY <1>1, <1>2, <1>3 DEF SetGovernor, WiringTypes
<1>4. ASSUME \E x \in {Purse, Zero} : SetTreasury(caller, x)
      PROVE  WiringTypes'
  BY <1>1, <1>2, <1>4 DEF SetTreasury, WiringTypes
<1>5. ASSUME \E x \in {Registry, Zero} : SetSessionRegistry(caller, x)
      PROVE  WiringTypes'
  BY <1>1, <1>2, <1>5 DEF SetSessionRegistry, WiringTypes
<1>6. ASSUME \E m \in RateModule \cup {Zero} : SetRateRecorder(caller, m)
      PROVE  WiringTypes'
  BY <1>1, <1>2, <1>6 DEF SetRateRecorder, WiringTypes
<1>7. ASSUME \E m \in RateModule \cup {Zero}, n \in Agent : SetNodeRateRecorder(caller, n, m)
      PROVE  WiringTypes'
  BY <1>1, <1>2, <1>7 DEF SetNodeRateRecorder, WiringTypes
<1>8. ASSUME \E n \in Agent, x \in Stack \cup {NoStack} : SetNodePolicy(caller, n, x)
      PROVE  WiringTypes'
  BY <1>1, <1>2, <1>8 DEF SetNodePolicy, WiringTypes
<1>9. WiringTypes'
  BY <1>3, <1>4, <1>5, <1>6, <1>7, <1>8 DEF Setter
<1>10. IntentTypes' /\ ChartTypes' /\ PurseTypes'
  BY <1>1, TypeParts DEF IntentTypes, ChartTypes, PurseTypes, Id
<1> QED
  BY <1>1, <1>9, <1>10, TypeParts DEF Quiet

LEMMA EnvironmentTypes ==
  ASSUME TypeOK, Environment
  PROVE  /\ TypeOK'
         /\ \/ Quiet
            \/ intent' = intent /\ \E n \in Agent, amount \in Value : StreamTo(n, amount)
<1>1. UNCHANGED <<intent, wiring>>
  BY DEF Environment, Reorganise, ChangeKeys, ChangePolicy, StreamTo
<1>2. IntentTypes' /\ WiringTypes'
  BY <1>1, TypeParts DEF IntentTypes, WiringTypes, wiring, Id
<1>3. CASE Reorganise
  <2>1. ChartTypes' /\ allowance' = allowance
    BY <1>3, ChartKeepsTypes DEF Reorganise, money, TypeOK, ChartTypes
  <2> QED
    BY <1>1, <1>2, <2>1, TypeParts DEF Quiet, PurseTypes
<1>4. CASE ChangeKeys \/ ChangePolicy
  <2>1. UNCHANGED <<node, allowance>>
    BY <1>4 DEF ChangeKeys, ChangePolicy, money
  <2> QED
    BY <1>1, <1>2, <2>1, TypeParts DEF Quiet, ChartTypes, PurseTypes
<1>5. CASE \E n \in Agent, amount \in Value : StreamTo(n, amount)
  <2>1. node' = node /\ PurseTypes'
    BY <1>5, StreamRaises DEF StreamTo, PurseTypes
  <2> QED
    BY <1>1, <1>2, <1>5, <2>1, TypeParts DEF ChartTypes
<1> QED
  BY <1>3, <1>4, <1>5 DEF Environment

LEMMA ProposeTypes ==
  ASSUME TypeOK, NEW caller, NEW agent \in Agent, NEW target \in Target, NEW value \in Value,
         \/ ProposeAllowed(caller, agent, target, value)
         \/ ProposeEscalated(caller, agent, target, value)
  PROVE  TypeOK'
<1>1. UNCHANGED <<node, wiring>>
  BY DEF ProposeAllowed, ProposeEscalated
<1>2. ChartTypes' /\ WiringTypes'
  BY <1>1, TypeParts DEF ChartTypes, WiringTypes, wiring
<1>3. CASE ProposeAllowed(caller, agent, target, value)
  <2>1. PurseTypes' /\ intent' = intent
    BY <1>3, FinalizePays DEF ProposeAllowed, PurseTypes
  <2> QED
    BY <1>2, <2>1, TypeParts DEF IntentTypes, Id
<1>4. CASE ProposeEscalated(caller, agent, target, value)
  <2> DEFINE i == NewIntent(agent, target, value)
  <2>1. Raised(i) /\ allowance' = allowance
    BY <1>4, EscalationAppends DEF ProposeEscalated, money
  <2>2. Parent(agent) \in Account
    BY <1>4, ParentIsAccount DEF ProposeEscalated, Agent
  <2>3. i \in IntentType /\ ~i.approved
    BY <2>2 DEF NewIntent, IntentType
  <2>4. IntentTypes' /\ PurseTypes'
    BY <2>1, <2>3, RaisedTypes, TypeParts DEF PurseTypes
  <2> QED
    BY <1>2, <2>4, TypeParts
<1> QED
  BY <1>3, <1>4

LEMMA ResolveTypes ==
  ASSUME TypeOK, NEW caller \in Caller, NEW id \in Id, Resolve(caller, id)
  PROVE  TypeOK'
<1>1. UNCHANGED <<node, wiring>>
  BY DEF Resolve, Reject, Approve, Climb
<1>2. ChartTypes' /\ WiringTypes'
  BY <1>1, TypeParts DEF ChartTypes, WiringTypes, wiring
<1>3. intent[id] \in IntentType
  BY EntryType
<1>4. ASSUME NEW yes \in BOOLEAN, Close(id, yes)
      PROVE  IntentTypes'
  <2> DEFINE i == [intent[id] EXCEPT !.resolved = TRUE, !.approved = yes]
  <2>1. i \in IntentType /\ (i.approved => i.resolved)
    BY <1>3 DEF IntentType
  <2> QED
    BY <1>4, <2>1, CloseReplaces, ReplacedTypes
<1>5. CASE \E approve \in BOOLEAN : Reject(caller, id, approve)
  BY <1>2, <1>4, <1>5, TypeParts DEF Reject, money, PurseTypes
<1>6. CASE Approve(caller, id)
  <2>1. intent[id].agent \in Agent /\ intent[id].value \in Value
    BY <1>3 DEF IntentType
  <2>2. PurseTypes'
    BY <1>6, <2>1, FinalizePays DEF Approve, PurseTypes
  <2> QED
    BY <1>2, <1>4, <1>6, <2>2, TypeParts DEF Approve
<1>7. CASE Climb(caller, id)
  <2> DEFINE i == [intent[id] EXCEPT !.awaiting = Parent(caller)]
  <2>1. Replaced(id, i) /\ Parent(caller) \in Account
    BY <1>7, ClimbReplaces
  <2>2. i \in IntentType /\ (i.approved => i.resolved)
    BY <1>3, <2>1, EntryType DEF IntentType
  <2>3. IntentTypes' /\ PurseTypes'
    BY <1>7, <2>1, <2>2, ReplacedTypes, TypeParts DEF Climb, money, PurseTypes
  <2> QED
    BY <1>2, <2>3, TypeParts
<1> QED
  BY <1>5, <1>6, <1>7 DEF Resolve

LEMMA StartTypes == Init => TypeOK
<1> SUFFICES ASSUME Init PROVE TypeOK
  OBVIOUS
<1>1. intent = <<>> /\ Id = {}
  BY DEF Init, Id
<1> QED
  BY <1>1, StartAssumption DEF Init, TypeOK, IntentType

LEMMA StepTypes == TypeOK /\ [Next]_vars => TypeOK'
<1> SUFFICES ASSUME TypeOK, [Next]_vars PROVE TypeOK'
  OBVIOUS
<1>1. CASE UNCHANGED vars
  BY <1>1 DEF vars, wiring, money, TypeOK, Id
<1>2. CASE Next
  BY <1>2, ProposeTypes, ResolveTypes, SetterTypes, EnvironmentTypes DEF Next
<1> QED
  BY <1>1, <1>2

\* The router's state keeps its types, in particular only a resolved intent is
\* approved and every intent awaits an account.
THEOREM RouterTypes == Spec => []TypeOK
  BY StartTypes, StepTypes, PTL DEF Spec

-----------------------------------------------------------------------------
(* An intent only climbs. *)

\* What may become of a pending intent i: it is j after the step.
Carried(i, j) ==
  /\ [j EXCEPT !.awaiting = 0, !.resolved = FALSE, !.approved = FALSE] = [i EXCEPT !.awaiting = 0]
  /\ j.awaiting # i.awaiting => j.awaiting = Parent(i.awaiting) /\ ~j.resolved

LEMMA StaysCarried ==
  ASSUME TypeOK, NEW id \in Pending
  PROVE  Carried(intent[id], intent[id])
<1>1. /\ intent[id] \in IntentType
      /\ intent[id].resolved = FALSE /\ intent[id].approved = FALSE
  BY EntryType DEF Pending, IntentType
<1> QED
  BY <1>1 DEF Carried, IntentType

LEMMA ClosedCarried ==
  ASSUME TypeOK, NEW id \in Pending, NEW yes \in BOOLEAN
  PROVE  Carried(intent[id], [intent[id] EXCEPT !.resolved = TRUE, !.approved = yes])
<1>1. /\ intent[id] \in IntentType
      /\ intent[id].resolved = FALSE /\ intent[id].approved = FALSE
  BY EntryType DEF Pending, IntentType
<1> QED
  BY <1>1 DEF Carried, IntentType

LEMMA ClimbCarried ==
  ASSUME TypeOK, NEW caller, NEW id, Climb(caller, id)
  PROVE  Carried(intent[id], [intent[id] EXCEPT !.awaiting = Parent(caller)])
<1>1. id \in Pending /\ caller = intent[id].awaiting
  BY DEF Climb, IsAwaited
<1>2. /\ intent[id] \in IntentType
      /\ intent[id].resolved = FALSE /\ intent[id].approved = FALSE
  BY <1>1, EntryType DEF Pending, IntentType
<1> QED
  BY <1>1, <1>2 DEF Carried, IntentType

LEMMA IntentsCarried ==
  ASSUME TypeOK, [Next]_vars, NEW id \in Pending
  PROVE  id \in DOMAIN intent' /\ Carried(intent[id], intent'[id])
<1>0. id \in Id /\ Id = 1..Len(intent) /\ Len(intent) \in Nat
  BY LenProperties DEF Pending, Id, TypeOK
<1>1. CASE intent' = intent
  BY <1>0, <1>1, StaysCarried DEF Id
<1>2. CASE \E caller \in Caller, agent \in Agent, target \in Target, value \in Value :
              ProposeEscalated(caller, agent, target, value)
  <2>1. PICK i : Raised(i)
    BY <1>2, EscalationAppends
  <2>2. id \in DOMAIN intent' /\ intent'[id] = intent[id]
    BY <1>0, <2>1 DEF Raised
  <2> QED
    BY <2>2, StaysCarried
<1>3. ASSUME NEW at \in Id, NEW i, Replaced(at, i), at \in Pending => Carried(intent[at], i)
      PROVE  id \in DOMAIN intent' /\ Carried(intent[id], intent'[id])
  <2>1. id \in DOMAIN intent' /\ intent'[id] = IF id = at THEN i ELSE intent[id]
    BY <1>0, <1>3 DEF Replaced
  <2> QED
    BY <1>3, <2>1, StaysCarried
<1>4. CASE \E caller \in Caller, at \in Id : Resolve(caller, at)
  <2> PICK caller \in Caller, at \in Id : Resolve(caller, at)
    BY <1>4
  <2>1. CASE Climb(caller, at)
    BY <1>3, <2>1, ClimbReplaces, ClimbCarried
  <2>2. CASE \E yes \in BOOLEAN : Close(at, yes)
    BY <1>3, <2>2, CloseReplaces, ClosedCarried
  <2> QED
    BY <2>1, <2>2 DEF Resolve, Reject, Approve
<1>5. CASE UNCHANGED vars
  BY <1>1, <1>5 DEF vars
<1>6. CASE \E caller \in Caller, agent \in Agent, target \in Target, value \in Value :
              ProposeAllowed(caller, agent, target, value)
  BY <1>1, <1>6 DEF ProposeAllowed
<1>7. CASE (\E caller \in {Deployer, Governor} : Setter(caller)) \/ Environment
  BY <1>1, <1>7, SetterTypes, EnvironmentTypes DEF Quiet
<1> QED
  BY <1>2, <1>4, <1>5, <1>6, <1>7 DEF Next

\* A pending intent is handed up one level at a time and is not changed
\* otherwise while it is pending (resolve).
THEOREM IntentsClimb == Spec => HandedUpOneLevel
<1>1. TypeOK /\ [Next]_vars =>
        [\A id \in Pending :
           /\ id \in DOMAIN intent'
           /\ [intent'[id] EXCEPT !.awaiting = 0, !.resolved = FALSE, !.approved = FALSE]
              = [intent[id] EXCEPT !.awaiting = 0]
           /\ intent'[id].awaiting # intent[id].awaiting =>
                /\ intent'[id].awaiting = Parent(intent[id].awaiting)
                /\ ~intent'[id].resolved]_vars
  BY IntentsCarried DEF Carried
<1> QED
  BY <1>1, StartTypes, StepTypes, PTL DEF Spec, HandedUpOneLevel

-----------------------------------------------------------------------------
(* Who may spend. *)

\* A stack that holds the cap module allows nothing above the cap.
LEMMA AllowedIsCapped ==
  ASSUME TypeOK, \A s \in Stack : "spendCap" \in s,
         NEW n \in Agent, NEW target, NEW value, Verdict(n, target, value) = "ALLOW"
  PROVE  value <= cap[n]
<1> DEFINE verdicts == {ModuleVerdict(m, n, target, value) : m \in PolicyFor(n)}
<1>1. PolicyFor(n) \in Stack
  BY DEF PolicyFor, TypeOK
<1>2. ModuleVerdict("spendCap", n, target, value) \in verdicts
  BY <1>1
<1>3. "ESCALATE" \notin verdicts
  BY DEF Verdict, StackVerdict
<1>4. ModuleVerdict("spendCap", n, target, value) =
        IF value <= cap[n] THEN "ALLOW" ELSE "ESCALATE"
  BY WiringAssumption DEF ModuleVerdict
<1> QED
  BY <1>2, <1>3, <1>4

\* When an allowance falls, an action of its owner was settled: directly by a
\* propose, or with the approval of an intent.
DirectSpend(n, amount) ==
  /\ intent' = intent
  /\ \E caller \in Caller, target \in Target :
       /\ MayPropose(caller, n, target, amount)
       /\ Verdict(n, target, amount) = "ALLOW"
       /\ MaySettle(caller, n)
ApprovedSpend(n, amount) ==
  \E id \in Id :
    /\ Approving(id) /\ intent[id].agent = n /\ intent[id].value = amount
    /\ intent[id].awaiting \in Agent
    /\ \/ Verdict(intent[id].awaiting, intent[id].target, amount) = "ALLOW"
       \/ HasFinalSay(intent[id].awaiting)

LEMMA PaidFalls ==
  ASSUME TypeOK, NEW m \in Agent, NEW value \in Value, Paid(m, value),
         NEW n \in Agent, allowance'[n] < allowance[n]
  PROVE  n = m /\ value = allowance[n] - allowance'[n]
<1>1. value \in Nat /\ allowance \in [Agent -> Nat]
  BY RouterBounds DEF TypeOK
<1>2. allowance[n] \in Nat /\ ~(allowance[n] < allowance[n])
  BY <1>1
<1>3. allowance' = [allowance EXCEPT ![m] = @ - value]
  BY <1>2 DEF Paid
<1> QED
  BY <1>1, <1>2, <1>3

LEMMA FallIsASpend ==
  ASSUME TypeOK, [Next]_vars, NEW n \in Agent, allowance'[n] < allowance[n]
  PROVE  \/ DirectSpend(n, allowance[n] - allowance'[n])
         \/ ApprovedSpend(n, allowance[n] - allowance'[n])
<1>0. allowance[n] \in Nat /\ allowance' # allowance
  BY DEF TypeOK
<1>1. ASSUME NEW caller \in Caller, NEW agent \in Agent, NEW target \in Target,
             NEW value \in Value, ProposeAllowed(caller, agent, target, value)
      PROVE  DirectSpend(n, allowance[n] - allowance'[n])
  <2>1. Paid(agent, value)
    BY <1>1, FinalizePays DEF ProposeAllowed
  <2>2. n = agent /\ value = allowance[n] - allowance'[n]
    BY <2>1, PaidFalls
  <2> QED
    BY <1>1, <2>2 DEF ProposeAllowed, DirectSpend
<1>2. ASSUME NEW caller \in Caller, NEW id \in Id, Resolve(caller, id)
      PROVE  ApprovedSpend(n, allowance[n] - allowance'[n])
  <2>1. Approve(caller, id)
    BY <1>0, <1>2 DEF Resolve, Reject, Climb, money
  <2>2. intent[id] \in IntentType
    BY EntryType
  <2>3. Paid(intent[id].agent, intent[id].value)
    BY <2>1, <2>2, FinalizePays DEF Approve, IntentType
  <2>4. intent[id].agent = n /\ intent[id].value = allowance[n] - allowance'[n]
    BY <2>2, <2>3, PaidFalls DEF IntentType
  <2>5. intent'[id] = [intent[id] EXCEPT !.resolved = TRUE, !.approved = TRUE]
    BY <2>1, CloseReplaces DEF Approve, Replaced
  <2>6. id \in Pending /\ caller = intent[id].awaiting /\ caller \in Agent
    BY <2>1, <2>2 DEF Approve, IsAwaited, IntentType, Agent
  <2>7. Approving(id)
    BY <2>2, <2>5, <2>6 DEF Approving, IntentType
  <2>8. Verdict(caller, intent[id].target, intent[id].value) = "ALLOW" \/ HasFinalSay(caller)
    BY <2>1 DEF Approve
  <2> QED
    BY <2>4, <2>6, <2>7, <2>8 DEF ApprovedSpend
<1>3. ASSUME NEW caller, NEW agent \in Agent, NEW target, NEW value,
             ProposeEscalated(caller, agent, target, value)
      PROVE  FALSE
  BY <1>0, <1>3 DEF ProposeEscalated, money
<1>4. ASSUME NEW caller, Setter(caller) PROVE FALSE
  BY <1>0, <1>4, SetterTypes DEF Quiet
<1>5. ASSUME Environment PROVE FALSE
  <2>1. PICK m \in Agent, amount \in Value : StreamTo(m, amount)
    BY <1>0, <1>5, EnvironmentTypes DEF Quiet
  <2>2. allowance' = [allowance EXCEPT ![m] = @ + amount] /\ amount \in Nat
    BY <2>1, StreamRaises, RouterBounds
  <2>3. allowance \in [Agent -> Nat]
    BY DEF TypeOK
  <2> QED
    BY <2>2, <2>3
<1>6. CASE UNCHANGED vars
  BY <1>0, <1>6 DEF vars, money
<1> QED
  BY <1>1, <1>2, <1>3, <1>4, <1>5, <1>6 DEF Next

\* Money moves only on authority (propose and resolve), when every stack
\* deployed holds the cap module.
THEOREM SpendIsAuthorised ==
  (\A s \in Stack : "spendCap" \in s) => (Spec => SpendNeedsAuthority)
<1> SUFFICES ASSUME \A s \in Stack : "spendCap" \in s
             PROVE  Spec => SpendNeedsAuthority
  OBVIOUS
<1>1. ASSUME TypeOK, [Next]_vars, NEW n \in Agent, allowance'[n] < allowance[n]
      PROVE  \/ intent' = intent /\ allowance[n] - allowance'[n] <= cap[n]
             \/ \E id \in Id :
                  /\ Approving(id)
                  /\ intent[id].agent = n /\ intent[id].value = allowance[n] - allowance'[n]
                  /\ \/ allowance[n] - allowance'[n] <= cap[intent[id].awaiting]
                     \/ HasFinalSay(intent[id].awaiting)
  BY <1>1, FallIsASpend, AllowedIsCapped DEF DirectSpend, ApprovedSpend
<1>2. TypeOK /\ [Next]_vars =>
        [\A n \in Agent : allowance'[n] < allowance[n] =>
           LET amount == allowance[n] - allowance'[n] IN
           \/ intent' = intent /\ amount <= cap[n]
           \/ \E id \in Id :
                /\ Approving(id)
                /\ intent[id].agent = n /\ intent[id].value = amount
                /\ amount <= cap[intent[id].awaiting] \/ HasFinalSay(intent[id].awaiting)]_vars
  BY <1>1
<1> QED
  BY <1>2, StartTypes, StepTypes, PTL DEF Spec, SpendNeedsAuthority

\* A stack allows only what each of its modules allows.
LEMMA StacksAskAll ==
  ASSUME TypeOK, NEW n \in Agent, NEW target, NEW amount, Verdict(n, target, amount) = "ALLOW",
         NEW m \in PolicyFor(n)
  PROVE  ModuleVerdict(m, n, target, amount) = "ALLOW"
<1> DEFINE verdicts == {ModuleVerdict(k, n, target, amount) : k \in PolicyFor(n)}
<1>1. PolicyFor(n) \in Stack
  BY DEF PolicyFor, TypeOK
<1>2. m \in Module
  BY <1>1, WiringAssumption
<1>3. ModuleVerdict(m, n, target, amount) \in {"ALLOW", "ESCALATE", "DENY"}
  BY <1>2, WiringAssumption DEF ModuleVerdict, Module
<1>4. "DENY" \notin verdicts /\ "ESCALATE" \notin verdicts
  BY DEF Verdict, StackVerdict
<1> QED
  BY <1>3, <1>4

\* Whatever is settled without an approver was allowed by every module of the
\* agent's stack and, where a registry is wired and the agent does not call for
\* itself, by a live key for that target and amount (propose,
\* _requireValidSession, _requireSpendScope).
THEOREM DirectSpendsAreGranted == Spec => DirectSpendIsGranted
<1> DEFINE Granted(n) ==
      allowance'[n] < allowance[n] /\ intent' = intent =>
        /\ Exists(n) /\ node[n].active
        /\ \E target \in Target \ Protected(n) :
             LET amount == allowance[n] - allowance'[n] IN
               /\ \A m \in PolicyFor(n) : ModuleVerdict(m, n, target, amount) = "ALLOW"
               /\ sessionRegistry # Zero /\ n \notin Caller => GrantedTo(n, target, amount)
<1>1. ASSUME TypeOK, [Next]_vars, NEW n \in Agent
      PROVE  Granted(n)
  <2> DEFINE amount == allowance[n] - allowance'[n]
  <2> SUFFICES ASSUME allowance'[n] < allowance[n], intent' = intent
               PROVE  /\ Exists(n) /\ node[n].active
                      /\ \E target \in Target \ Protected(n) :
                           /\ \A m \in PolicyFor(n) : ModuleVerdict(m, n, target, amount) = "ALLOW"
                           /\ sessionRegistry # Zero /\ n \notin Caller => GrantedTo(n, target, amount)
    OBVIOUS
  <2>1. ~ApprovedSpend(n, amount)
    BY <1>1 DEF ApprovedSpend, Approving, Pending, TypeOK
  <2>2. DirectSpend(n, amount)
    BY <1>1, <2>1, FallIsASpend
  <2> HIDE DEF amount
  <2>3. PICK caller \in Caller, target \in Target :
          MayPropose(caller, n, target, amount) /\ Verdict(n, target, amount) = "ALLOW" /\ MaySettle(caller, n)
    BY <2>2 DEF DirectSpend
  <2>4. Exists(n) /\ node[n].active /\ target \in Target \ Protected(n)
    BY <2>3 DEF MayPropose
  <2>5. \A m \in PolicyFor(n) : ModuleVerdict(m, n, target, amount) = "ALLOW"
    BY <1>1, <2>3, StacksAskAll
  <2>6. sessionRegistry # Zero /\ n \notin Caller => GrantedTo(n, target, amount)
    BY <2>3 DEF MayPropose, SessionPermits, MaySettle, Unnarrowed, GrantedTo
  <2> QED
    BY <2>4, <2>5, <2>6
<1>2. TypeOK /\ [Next]_vars => [\A n \in Agent : Granted(n)]_vars
  BY <1>1
<1> QED
  BY <1>2, StartTypes, StepTypes, PTL DEF Spec, DirectSpendIsGranted

-----------------------------------------------------------------------------
(* The router implements Approvals. *)

ClaimType == [by : Agent, to : Target, amount : Value,
              state : {"pending", "approved", "rejected"}]

LEMMA ClaimsAreASeq ==
  ASSUME NEW q \in Seq(IntentType)
  PROVE  /\ ClaimsOf(q) \in Seq(ClaimType) /\ Len(ClaimsOf(q)) = Len(q)
         /\ Len(q) \in Nat /\ DOMAIN q = 1..Len(q)
         /\ \A id \in 1..Len(q) : ClaimsOf(q)[id] = Claim(q[id])
<1>1. Len(q) \in Nat /\ DOMAIN q = 1..Len(q)
  BY LenProperties
<1>2. \A id \in 1..Len(q) : q[id] \in IntentType
  BY ElementOfSeq
<1>3. \A id \in 1..Len(q) : Claim(q[id]) \in ClaimType
  BY <1>2 DEF Claim, ClaimType, IntentType
<1>4. ClaimsOf(q) \in [1..Len(q) -> ClaimType]
  BY <1>1, <1>3 DEF ClaimsOf
<1>5. ClaimsOf(q) \in Seq(ClaimType)
  BY <1>1, <1>4
<1>6. Len(ClaimsOf(q)) = Len(q)
  BY <1>1, <1>4, <1>5, LenProperties
<1> QED
  BY <1>1, <1>5, <1>6 DEF ClaimsOf

LEMMA ClaimRaised ==
  ASSUME TypeOK, NEW agent \in Agent, NEW target \in Target, NEW value \in Value,
         Raised(NewIntent(agent, target, value))
  PROVE  Claims' = Append(Claims, [by |-> agent, to |-> target, amount |-> value,
                                   state |-> "pending"])
<1> DEFINE c == [by |-> agent, to |-> target, amount |-> value, state |-> "pending"]
           n == Len(intent)
<1>1. intent \in Seq(IntentType) /\ intent' \in Seq(IntentType) /\ Len(intent') = n + 1
  BY DEF TypeOK, Raised
<1>2. /\ Claims \in Seq(ClaimType) /\ Len(Claims) = n /\ n \in Nat
      /\ \A id \in 1..n : Claims[id] = Claim(intent[id])
  BY <1>1, ClaimsAreASeq DEF Claims
<1>3. /\ Claims' \in Seq(ClaimType) /\ Len(Claims') = n + 1
      /\ \A id \in 1..(n + 1) : Claims'[id] = Claim(intent'[id])
  BY <1>1, ClaimsAreASeq DEF Claims
<1>4. c \in ClaimType /\ c = Claim(NewIntent(agent, target, value))
  BY DEF ClaimType, Claim, NewIntent
<1> HIDE DEF c
<1>5. /\ Append(Claims, c) \in Seq(ClaimType) /\ Len(Append(Claims, c)) = n + 1
      /\ \A id \in 1..n : Append(Claims, c)[id] = Claims[id]
      /\ Append(Claims, c)[n + 1] = c
  BY <1>2, <1>4, AppendProperties
<1>6. \A id \in 1..n : intent'[id] = intent[id]
  BY <1>1, ClaimsAreASeq DEF Raised, Id
<1>7. \A id \in 1..(n + 1) : Claims'[id] = Append(Claims, c)[id]
  <2> TAKE id \in 1..(n + 1)
  <2>1. CASE id \in 1..n
    BY <1>2, <1>3, <1>5, <1>6, <2>1
  <2>2. CASE id = n + 1
    BY <1>3, <1>4, <1>5, <2>2 DEF Raised
  <2> QED
    BY <1>2, <2>1, <2>2
<1>8. Claims' = Append(Claims, c)
  BY <1>3, <1>5, <1>7, SeqEqual
<1> QED
  BY <1>8 DEF c

LEMMA ClaimReplaced ==
  ASSUME TypeOK, NEW id \in Id, NEW i, Replaced(id, i)
  PROVE  Claims' = [Claims EXCEPT ![id] = Claim(i)]
<1>1. /\ intent \in Seq(IntentType) /\ intent' \in Seq(IntentType)
      /\ Len(intent') = Len(intent)
  BY DEF TypeOK, Replaced
<1>2. Id = 1..Len(intent) /\ DOMAIN intent' = Id
  BY <1>1, ClaimsAreASeq DEF Id
<1>3. \A j \in Id : Claim(intent'[j]) = IF j = id THEN Claim(i) ELSE Claim(intent[j])
  BY DEF Replaced
<1>4. Claims' = [j \in Id |-> Claim(intent'[j])]
  BY <1>2 DEF Claims, ClaimsOf
<1>5. [Claims EXCEPT ![id] = Claim(i)] = [j \in Id |-> IF j = id THEN Claim(i) ELSE Claim(intent[j])]
  BY DEF Claims, ClaimsOf, Id
<1> QED
  BY <1>3, <1>4, <1>5

LEMMA SettleClaim ==
  ASSUME TypeOK, NEW id \in Pending, NEW yes \in BOOLEAN, Close(id, yes)
  PROVE  /\ Claims[id].state = "pending"
         /\ Claims' = [Claims EXCEPT ![id].state = IF yes THEN "approved" ELSE "rejected"]
<1> DEFINE i == [intent[id] EXCEPT !.resolved = TRUE, !.approved = yes]
<1>1. id \in Id /\ intent[id] \in IntentType /\ ~intent[id].resolved
  BY EntryType DEF Pending
<1>2. Claims' = [Claims EXCEPT ![id] = Claim(i)]
  BY <1>1, CloseReplaces, ClaimReplaced
<1>3. Claims[id] = Claim(intent[id])
  BY <1>1 DEF Claims, ClaimsOf, Id
<1>4. Claim(i) = [Claim(intent[id]) EXCEPT !.state = IF yes THEN "approved" ELSE "rejected"]
  BY <1>1 DEF Claim, IntentType
<1>5. Claims[id].state = "pending"
  BY <1>1, <1>3 DEF Claim
<1> QED
  BY <1>2, <1>3, <1>4, <1>5

LEMMA ClimbKeepsClaims ==
  ASSUME TypeOK, NEW caller, NEW id \in Id, Climb(caller, id)
  PROVE  Claims' = Claims
<1> DEFINE i == [intent[id] EXCEPT !.awaiting = Parent(caller)]
<1>1. Claims' = [Claims EXCEPT ![id] = Claim(i)]
  BY ClimbReplaces, ClaimReplaced
<1>2. Claim(i) = Claim(intent[id])
  BY EntryType DEF Claim, IntentType
<1> QED
  BY <1>1, <1>2 DEF Claims, ClaimsOf, Id

LEMMA StepIsAClaimStep ==
  ASSUME TypeOK, [Next]_vars
  PROVE  [Promised!ClaimNext]_<<Claims, allowance, Wired>>
<1>0. Value \subseteq Nat /\ 0 \in Value \cup {0} /\ allowance \in [Agent -> Nat]
  BY RouterBounds DEF TypeOK
<1>1. ASSUME NEW caller \in Caller, NEW agent \in Agent, NEW target \in Target,
             NEW value \in Value, ProposeAllowed(caller, agent, target, value)
      PROVE  Promised!ClaimNext
  <2>1. Paid(agent, value) /\ UNCHANGED <<intent, treasury>>
    BY <1>1, FinalizePays DEF ProposeAllowed, wiring
  <2>2. Promised!PayDirectly(agent, value)
    BY <2>1 DEF Promised!PayDirectly, Promised!Debit, Paid, Claims, Wired
  <2> QED
    BY <2>2 DEF Promised!ClaimNext
<1>2. ASSUME NEW caller \in Caller, NEW agent \in Agent, NEW target \in Target,
             NEW value \in Value, ProposeEscalated(caller, agent, target, value)
      PROVE  Promised!ClaimNext
  <2>1. UNCHANGED <<allowance, treasury>>
    BY <1>2 DEF ProposeEscalated, wiring, money
  <2>2. Promised!Raise(agent, target, value)
    BY <1>2, <2>1, EscalationAppends, ClaimRaised DEF Promised!Raise, Wired
  <2> QED
    BY <2>2 DEF Promised!ClaimNext
<1>3. ASSUME NEW caller \in Caller, NEW id \in Id, Approve(caller, id)
      PROVE  Promised!ClaimNext
  <2>1. id \in Pending /\ Close(id, TRUE) /\ treasury' = treasury /\ intent[id] \in IntentType
    BY <1>3, EntryType DEF Approve, IsAwaited, wiring
  <2>2. Paid(intent[id].agent, intent[id].value)
    BY <1>3, <2>1, FinalizePays DEF Approve, IntentType
  <2>3. Claims[id].by = intent[id].agent /\ Claims[id].amount = intent[id].value
    BY DEF Claims, ClaimsOf, Claim, Id
  <2>4. /\ Claims[id].state = "pending"
        /\ Claims' = [Claims EXCEPT ![id].state = "approved"]
    BY <2>1, SettleClaim
  <2>5. Promised!Settle(id, "approved")
    BY <2>1, <2>2, <2>3, <2>4 DEF Promised!Settle, Promised!Debit, Paid, Wired
  <2>6. DOMAIN Claims = Id
    BY DEF Claims, ClaimsOf, Id
  <2> QED
    BY <2>5, <2>6 DEF Promised!ClaimNext
<1>4. ASSUME NEW caller \in Caller, NEW id \in Id, NEW yes \in BOOLEAN, Reject(caller, id, yes)
      PROVE  Promised!ClaimNext
  <2>1. /\ id \in Pending /\ Close(id, FALSE)
        /\ UNCHANGED <<treasury, allowance>>
    BY <1>4 DEF Reject, IsAwaited, wiring, money
  <2>2. /\ Claims[id].state = "pending"
        /\ Claims' = [Claims EXCEPT ![id].state = "rejected"]
    BY <2>1, SettleClaim
  <2>3. Promised!Settle(id, "rejected")
    BY <2>1, <2>2 DEF Promised!Settle, Wired
  <2>4. DOMAIN Claims = Id
    BY DEF Claims, ClaimsOf, Id
  <2> QED
    BY <2>3, <2>4 DEF Promised!ClaimNext
<1>5. ASSUME NEW caller \in Caller, NEW id \in Id, Climb(caller, id)
      PROVE  UNCHANGED <<Claims, allowance, Wired>>
  BY <1>5, ClimbKeepsClaims DEF Climb, wiring, money, Wired
<1>6. ASSUME Quiet PROVE Promised!ClaimNext
  <2> DEFINE w == Wired'
  <2>1. w \in BOOLEAN
    BY DEF Wired
  <2>2. Promised!Wire(w)
    BY <1>6 DEF Promised!Wire, Quiet, Claims
  <2> QED
    BY <2>1, <2>2 DEF Promised!ClaimNext
<1>7. ASSUME Environment PROVE Promised!ClaimNext
  <2>1. CASE Quiet
    BY <1>6, <2>1
  <2>2. CASE \E n \in Agent, amount \in Value : StreamTo(n, amount)
    <3> PICK n \in Agent, amount \in Value : StreamTo(n, amount)
      BY <2>2
    <3>1. UNCHANGED <<intent, treasury>>
      BY DEF StreamTo, wiring
    <3>2. Promised!Receive(n, amount)
      BY <3>1, StreamRaises DEF Promised!Receive, Claims, Wired
    <3> QED
      BY <3>2 DEF Promised!ClaimNext
  <2> QED
    BY <1>7, <2>1, <2>2, EnvironmentTypes
<1>8. CASE UNCHANGED vars
  BY <1>8 DEF vars, wiring, money, Claims, Wired
<1>9. CASE Next
  BY <1>1, <1>2, <1>3, <1>4, <1>5, <1>6, <1>7, <1>9, SetterTypes DEF Next, Resolve
<1> QED
  BY <1>8, <1>9

LEMMA StartIsAClaimStart ==
  ASSUME Init
  PROVE  Promised!ClaimInit
<1>1. intent = <<>> /\ allowance = [n \in Agent |-> 0]
  BY DEF Init
<1>2. Claims = <<>>
  BY <1>1 DEF Claims, ClaimsOf
<1>3. Wired \in BOOLEAN
  BY DEF Wired
<1> QED
  BY <1>1, <1>2, <1>3 DEF Promised!ClaimInit

\* The router implements Approvals, whatever its neighbours do: an intent pays
\* its value from its agent's allowance in the step that approves it, once, and
\* never after it was settled (propose, resolve, _finalizeAction).
THEOREM RouterKeepsApprovals == Spec => KeepsApprovals
<1>1. TypeOK /\ [Next]_vars => [Promised!ClaimNext]_<<Claims, allowance, Wired>>
  BY StepIsAClaimStep
<1>2. Init => Promised!ClaimInit
  BY StartIsAClaimStart
<1> QED
  BY <1>1, <1>2, StartTypes, StepTypes, PTL
  DEF Spec, KeepsApprovals, Promised!ClaimSpec, Promised!ledger

-----------------------------------------------------------------------------
(* Who is asked, while the tree stands.  Above(n) is a least closed set. *)

LEMMA AboveIsClosed ==
  ASSUME ChartTypes, NEW n \in Address
  PROVE  /\ n \in Above(n) /\ Above(n) \subseteq Address
         /\ \A m \in Above(n) \cap Account : Parent(m) \in Above(n)
<1>1. n \in Above(n) /\ Above(n) \subseteq Address
  BY DEF Above
<1>2. ASSUME NEW m \in Above(n) \cap Account PROVE Parent(m) \in Above(n)
  <2>1. Parent(m) \in Address
    BY DEF ChartTypes, NodeType, Parent
  <2>2. ASSUME NEW S \in SUBSET Address, n \in S, \A x \in S \cap Account : Parent(x) \in S
        PROVE  Parent(m) \in S
    <3>1. m \in S
      BY <2>2 DEF Above
    <3> QED
      BY <2>2, <3>1
  <2> QED
    BY <2>1, <2>2 DEF Above
<1> QED
  BY <1>1, <1>2

LEMMA AboveIsLeast ==
  ASSUME NEW n, NEW S \in SUBSET Address, n \in S, \A m \in S \cap Account : Parent(m) \in S
  PROVE  Above(n) \subseteq S
  BY DEF Above

\* Who is above a node is the node or above its parent.
LEMMA AboveByParent ==
  ASSUME ChartTypes, NEW n \in Account
  PROVE  Above(n) = {n} \cup Above(Parent(n))
<1>1. Parent(n) \in Address /\ n \in Address
  BY DEF ChartTypes, NodeType, Parent, Address
<1>2. Above(n) \subseteq {n} \cup Above(Parent(n))
  <2> DEFINE S == {n} \cup Above(Parent(n))
  <2>1. S \in SUBSET Address /\ \A m \in S \cap Account : Parent(m) \in S
    BY <1>1, AboveIsClosed
  <2> QED
    BY <2>1, AboveIsLeast
<1>3. Above(Parent(n)) \subseteq Above(n)
  <2>1. Parent(n) \in Above(n) /\ Above(n) \in SUBSET Address
    BY <1>1, AboveIsClosed
  <2>2. \A m \in Above(n) \cap Account : Parent(m) \in Above(n)
    BY <1>1, AboveIsClosed
  <2> QED
    BY <2>1, <2>2, AboveIsLeast
<1> QED
  BY <1>1, <1>2, <1>3, AboveIsClosed

\* In a rooted tree nobody is above their own parent: who came round on the way
\* up would be in a set of nodes that never reaches the root.
LEMMA NobodyAboveTheirParent ==
  ASSUME ChartTypes, RootedTree, NEW n \in Nodes \ {Root}
  PROVE  n \notin Above(Parent(n))
<1> SUFFICES ASSUME n \in Above(Parent(n)) PROVE FALSE
  OBVIOUS
<1> DEFINE Round == {m \in Nodes \ {Root} : n \in Above(m)}
<1>1. n \in Round
  BY AboveIsClosed DEF Nodes, Address
<1>2. ASSUME NEW m \in Round PROVE Parent(m) \in Round
  <2>1. m \in Account /\ Parent(m) \in Nodes
    BY DEF RootedTree, Nodes
  <2>2. n \in Above(Parent(m))
    BY <2>1, AboveByParent
  <2>3. Parent(m) # Root
    <3>1. Parent(Root) = Zero
      BY DEF RootedTree, RootNode, Parent
    <3>2. {Root, Zero} \in SUBSET Address /\ Zero \notin Account
      BY RootAssumption, ZeroAssumption DEF Address
    <3>3. \A x \in {Root, Zero} \cap Account : Parent(x) \in {Root, Zero}
      BY <3>1, <3>2
    <3>4. Above(Root) \subseteq {Root, Zero}
      BY <3>2, <3>3, AboveIsLeast
    <3>5. n # Root /\ n # Zero
      BY <3>2 DEF Nodes
    <3> QED
      BY <2>2, <3>4, <3>5
  <2> QED
    BY <2>1, <2>2, <2>3
<1>3. Round \in SUBSET (Nodes \ {Root}) /\ Round # {}
  BY <1>1
<1> QED
  BY <1>2, <1>3 DEF RootedTree

\* An intent awaits a node above its agent's manager, or that manager.
Awaits(i) ==
  /\ i.agent \in Nodes \ {Root}
  /\ i.awaiting \in Nodes \cap Above(Parent(i.agent))
AllAwait == \A id \in Pending : Awaits(intent[id])

StandInv == TypeOK /\ reorgs \in Nat /\ (reorgs = 0 => RootedTree /\ AllAwait)

\* While the tree stands, nothing but the intents matters.
LEMMA StillAwait ==
  ASSUME node' = node, \A id \in Id' : ~intent'[id].resolved => Awaits(intent'[id])
  PROVE  AllAwait'
<1>1. ASSUME NEW id \in Pending' PROVE Awaits(intent'[id])
  BY <1>1 DEF Pending
<1>2. ASSUME NEW id \in Pending' PROVE Awaits(intent[id])'
  BY <1>1, <1>2 DEF Awaits, Nodes, Above, Parent
<1> QED
  BY <1>2 DEF AllAwait

LEMMA RaisedAwaits ==
  ASSUME TypeOK, RootedTree, NEW caller, NEW agent \in Agent, NEW target, NEW value,
         ProposeEscalated(caller, agent, target, value)
  PROVE  Awaits(NewIntent(agent, target, value))
<1>1. agent \in Nodes /\ Parent(agent) # Zero
  BY DEF ProposeEscalated, MayPropose, Exists
<1>2. agent # Root
  BY <1>1 DEF RootedTree, RootNode, Parent
<1>3. Parent(agent) \in Nodes
  BY <1>1, <1>2 DEF RootedTree
<1>4. ChartTypes /\ Parent(agent) \in Address
  BY <1>3 DEF TypeOK, ChartTypes, Nodes, Address
<1>5. Parent(agent) \in Above(Parent(agent))
  BY <1>4, AboveIsClosed
<1> QED
  BY <1>1, <1>2, <1>3, <1>5 DEF Awaits, NewIntent

LEMMA ClimbAwaits ==
  ASSUME TypeOK, RootedTree, AllAwait, NEW caller, NEW id, Climb(caller, id)
  PROVE  Awaits([intent[id] EXCEPT !.awaiting = Parent(caller)])
<1>1. id \in Pending /\ caller = intent[id].awaiting /\ Awaits(intent[id])
  BY DEF Climb, IsAwaited, AllAwait
<1>2. caller \in Nodes /\ Parent(caller) # Zero
  BY DEF Climb, HasFinalSay, Exists
<1>3. caller # Root
  BY <1>2 DEF RootedTree, RootNode, Parent
<1>4. Parent(caller) \in Nodes
  BY <1>2, <1>3 DEF RootedTree
<1>5. intent[id].agent \in Account /\ caller \in Above(Parent(intent[id].agent))
  BY <1>1 DEF Awaits, Nodes
<1>6. Parent(intent[id].agent) \in Address /\ ChartTypes
  BY <1>5 DEF TypeOK, ChartTypes, NodeType, Parent
<1>7. Parent(caller) \in Above(Parent(intent[id].agent))
  BY <1>2, <1>5, <1>6, AboveIsClosed DEF Nodes
<1>8. intent[id] \in IntentType
  BY <1>1, EntryType DEF Pending
<1> QED
  BY <1>1, <1>4, <1>7, <1>8 DEF Awaits, IntentType

LEMMA StandStep ==
  ASSUME StandInv, [Next]_vars
  PROVE  StandInv'
<1>1. TypeOK'
  BY StepTypes DEF StandInv
<1>2. reorgs' \in Nat /\ (reorgs' = 0 => reorgs = 0 /\ node' = node)
  <2>1. CASE Reorganise
    BY <2>1 DEF Reorganise, StandInv
  <2>2. CASE UNCHANGED <<node, reorgs>>
    BY <2>2 DEF StandInv
  <2>3. CASE \E caller \in Caller :
               \/ \E agent \in Agent, target \in Target, value \in Value :
                    \/ ProposeAllowed(caller, agent, target, value)
                    \/ ProposeEscalated(caller, agent, target, value)
               \/ \E id \in Id : Resolve(caller, id)
    <3>1. UNCHANGED <<node, reorgs>>
      BY <2>3 DEF ProposeAllowed, ProposeEscalated, Resolve, Reject, Approve, Climb
    <3> QED
      BY <2>2, <3>1
  <2>4. CASE \E caller \in {Deployer, Governor} : Setter(caller)
    <3>1. UNCHANGED <<node, reorgs>>
      BY <2>4 DEF Setter, SetGovernor, SetTreasury, SetSessionRegistry, SetRateRecorder,
                  SetNodeRateRecorder, SetNodePolicy, Sets
    <3> QED
      BY <2>2, <3>1
  <2>5. CASE ChangeKeys \/ ChangePolicy \/ \E n \in Agent, amount \in Value : StreamTo(n, amount)
    <3>1. UNCHANGED <<node, reorgs>>
      BY <2>5 DEF ChangeKeys, ChangePolicy, StreamTo
    <3> QED
      BY <2>2, <3>1
  <2>6. CASE UNCHANGED vars
    BY <2>2, <2>6 DEF vars
  <2> QED
    BY <2>1, <2>3, <2>4, <2>5, <2>6 DEF Next, Environment
<1>3. ASSUME reorgs' = 0 PROVE RootedTree' /\ AllAwait'
  <2>1. reorgs = 0 /\ node' = node /\ RootedTree /\ AllAwait /\ TypeOK
    BY <1>2, <1>3 DEF StandInv
  <2>2. RootedTree'
    BY <2>1 DEF RootedTree, Nodes, Parent
  <2>3. Id = 1..Len(intent) /\ Len(intent) \in Nat
    BY <2>1, LenProperties DEF Id, TypeOK
  <2>4. ASSUME intent' = intent PROVE AllAwait'
    <3>1. ASSUME NEW id \in Id', ~intent'[id].resolved PROVE Awaits(intent'[id])
      BY <2>1, <2>4, <3>1 DEF AllAwait, Pending, Id
    <3> QED
      BY <2>1, <3>1, StillAwait
  <2>5. ASSUME NEW caller \in Caller, NEW agent \in Agent, NEW target \in Target, NEW value \in Value,
               ProposeEscalated(caller, agent, target, value)
        PROVE  AllAwait'
    <3> DEFINE new == NewIntent(agent, target, value)
    <3>1. Raised(new) /\ Awaits(new)
      BY <2>1, <2>5, EscalationAppends, RaisedAwaits
    <3> HIDE DEF new
    <3>2. Id' = 1..(Len(intent) + 1)
      BY <3>1, LenProperties DEF Raised, Id
    <3>3. ASSUME NEW id \in Id', ~intent'[id].resolved PROVE Awaits(intent'[id])
      <4>1. CASE id \in Id
        BY <2>1, <3>1, <3>3, <4>1 DEF Raised, AllAwait, Pending
      <4>2. CASE id = Len(intent) + 1
        BY <3>1, <4>2 DEF Raised
      <4> QED
        BY <2>3, <3>2, <4>1, <4>2
    <3> QED
      BY <2>1, <3>3, StillAwait
  <2>6. ASSUME NEW at \in Id, NEW j, Replaced(at, j), ~j.resolved => Awaits(j)
        PROVE  AllAwait'
    <3>1. Id' = Id
      BY <2>3, <2>6, LenProperties DEF Replaced, Id
    <3>2. ASSUME NEW id \in Id', ~intent'[id].resolved PROVE Awaits(intent'[id])
      BY <2>1, <2>6, <3>1, <3>2 DEF Replaced, AllAwait, Pending
    <3> QED
      BY <2>1, <3>2, StillAwait
  <2>7. ASSUME NEW caller \in Caller, NEW at \in Id, Resolve(caller, at) PROVE AllAwait'
    <3>1. CASE Climb(caller, at)
      BY <2>1, <2>6, <3>1, ClimbReplaces, ClimbAwaits
    <3>2. ASSUME NEW yes \in BOOLEAN, Close(at, yes) PROVE AllAwait'
      <4>1. [intent[at] EXCEPT !.resolved = TRUE, !.approved = yes].resolved
        BY <2>1, EntryType DEF IntentType
      <4> QED
        BY <2>1, <2>6, <3>2, <4>1, CloseReplaces
    <3> QED
      BY <2>7, <3>1, <3>2 DEF Resolve, Reject, Approve
  <2>8. CASE \E caller \in Caller, agent \in Agent, target \in Target, value \in Value :
               ProposeAllowed(caller, agent, target, value)
    BY <2>2, <2>4, <2>8 DEF ProposeAllowed
  <2>9. CASE (\E caller \in {Deployer, Governor} : Setter(caller)) \/ Environment
    BY <2>1, <2>2, <2>4, <2>9, SetterTypes, EnvironmentTypes DEF Quiet
  <2>10. CASE UNCHANGED vars
    BY <2>2, <2>4, <2>10 DEF vars
  <2> QED
    BY <2>2, <2>5, <2>7, <2>8, <2>9, <2>10 DEF Next
<1> QED
  BY <1>1, <1>2, <1>3 DEF StandInv

LEMMA StandStart ==
  ASSUME Init, RootedTree
  PROVE  StandInv
<1>1. TypeOK
  BY StartTypes
<1>2. Pending = {} /\ reorgs = 0
  BY DEF Init, Pending, Id
<1> QED
  BY <1>1, <1>2 DEF StandInv, AllAwait

\* "Escalations resolve only through ancestors": until the tree is reorganised
\* for the first time, whoever an intent awaits is a node above its agent, in
\* any tree, however the wiring, the keys and the policies change.
THEOREM StandingTreesAskAncestors ==
  Spec /\ RootedTree => [](reorgs = 0 => ApproverIsAbove)
<1>1. ASSUME StandInv, reorgs = 0 PROVE ApproverIsAbove
  <2> SUFFICES ASSUME NEW id \in Pending
               PROVE  /\ Exists(intent[id].awaiting)
                      /\ intent[id].awaiting # intent[id].agent
                      /\ IsAncestor(intent[id].awaiting, intent[id].agent)
    BY DEF ApproverIsAbove
  <2>1. Awaits(intent[id]) /\ RootedTree /\ ChartTypes
    BY <1>1 DEF StandInv, AllAwait, TypeOK, ChartTypes
  <2>2. intent[id].agent \notin Above(Parent(intent[id].agent))
    BY <2>1, NobodyAboveTheirParent DEF Awaits
  <2>3. Above(intent[id].agent)
          = {intent[id].agent} \cup Above(Parent(intent[id].agent))
    BY <2>1, AboveByParent DEF Awaits, Nodes
  <2>4. intent[id].awaiting # Zero
    BY <2>1, ZeroAssumption DEF Awaits, Nodes
  <2> QED
    BY <2>1, <2>2, <2>3, <2>4 DEF Awaits, Exists, IsAncestor
<1>2. StandInv /\ [Next]_vars => StandInv'
  BY StandStep
<1>3. Init /\ RootedTree => StandInv
  BY StandStart
<1> QED
  BY <1>1, <1>2, <1>3, PTL DEF Spec
=============================================================================
