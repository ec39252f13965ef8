-------------------------- MODULE EscalationRouter --------------------------
(***************************************************************************)
(* The enforcement path (contracts/src/EscalationRouter.sol), composed     *)
(* with what its neighbours promise: the tree (OrgChart), session keys     *)
(* (KeyGrants), policy verdicts (PolicyView) and allowances (Allowances).  *)
(* Between two calls of the router any of them may take a step of its own. *)
(*                                                                         *)
(* Intent ids are 1, 2, ...; intent is the sequence of the structs.  The   *)
(* calldata is left out: the call of the target can fail without effect on *)
(* the router, and a target that calls back is not modelled.               *)
(***************************************************************************)
EXTENDS OrgChart, Sequences

CONSTANTS Key, Grant, NoGrant,               \* of KeyGrants
          Target, RateModule, MaxActions,    \* of PolicyView
          Caller,       \* who calls propose and resolve: accounts and keys
          This,         \* the router's own address
          Purse,        \* the treasury it can be wired to
          Registry,     \* the session registry it can be wired to
          Stack,        \* the policy stacks deployed, sets of modules
          NoStack,
          Value,        \* values proposed, and caps
          Deployer, Governor,   \* who may call the setters, before and after
          StartChart,   \* the trees a run starts from, as deployed
          StartCap,     \* the caps it starts from
          StartTreasury, StartRegistry, StartRecorder,   \* and the wiring
          Input,        \* the environment's and the setters' steps in a run
          MaxReorgs, MaxIntents, Supply   \* model bounds

ASSUME CallerAssumption == Caller \subseteq Account \cup Key /\ NoGrant \notin Grant
ASSUME RouterBounds == /\ Value \cup {MaxReorgs, MaxIntents, Supply} \subseteq Nat
                       /\ MaxActions \in Nat \ {0}

VARIABLES grant,                                 \* of KeyGrants
          cap, allowed, windowCount, dayOpen,    \* of PolicyView
          free, allowance,                       \* of Allowances
          intent,
          policy,           \* the default stack, immutable
          policyOf,         \* NoStack: the default applies
          treasury,         \* Purse or Zero
          sessionRegistry,  \* Registry or Zero
          rateRecorder, rateRecorderOf,   \* a rate module or Zero
          governor,
          reorgs            \* changes of the tree so far

Agent == Account

INSTANCE KeyGrants
INSTANCE PolicyView WITH Cap <- Value
INSTANCE Allowances WITH Node <- Account, MaxTotal <- Supply

ASSUME WiringAssumption ==
  /\ Zero \notin {This, Purse, Registry} \cup Target \cup RateModule
  /\ NoStack \notin Stack
  /\ \A s \in Stack : s # {} /\ s \subseteq Module
  /\ {"spendCap", "whitelist", "timeWindow"} \cap RateModule = {}
ASSUME StartAssumption ==
  /\ StartChart \subseteq [Account -> NodeType]
  /\ StartTreasury \subseteq {Purse, Zero}
  /\ StartRegistry \subseteq {Registry, Zero}
  /\ StartRecorder \subseteq RateModule \cup {Zero}

wiring == <<policy, policyOf, treasury, sessionRegistry, rateRecorder,
            rateRecorderOf, governor>>
view   == <<cap, allowed, windowCount, dayOpen>>
money  == <<free, allowance>>
vars   == <<node, grant, view, money, intent, wiring, reorgs>>

Id      == DOMAIN intent
Pending == {id \in Id : ~intent[id].resolved}

PolicyFor(n) == IF policyOf[n] # NoStack THEN policyOf[n] ELSE policy
Verdict(n, target, value) == StackVerdict(PolicyFor(n), n, target, value)

\* The contracts that trust the router as sender.  Unwired slots are zero and
\* match nothing.
Protected(agent) ==
  {This, treasury, sessionRegistry, rateRecorder, rateRecorderOf[agent]} \ {Zero}

\* No session narrows the call: no registry, or the agent acts for itself.
Unnarrowed(caller, agent) == sessionRegistry = Zero \/ caller = agent

\* _requireValidSession.  The key's daily window and rate limit may refuse
\* any propose besides; a refused propose is no step.
SessionPermits(caller, agent, target, value) ==
  \/ Unnarrowed(caller, agent)
  \/ /\ caller \in Key
     /\ grant[<<agent, caller>>] # NoGrant
     /\ LET g == grant[<<agent, caller>>] IN
          /\ "PROPOSE_INTENT" \in g.scopes
          /\ value <= g.maxValue
          /\ g.targets # {} => target \in g.targets

\* _requireSpendScope.
MaySettle(caller, agent) ==
  \/ Unnarrowed(caller, agent)
  \/ /\ caller \in Key
     /\ grant[<<agent, caller>>] # NoGrant
     /\ "SPEND_WHITELIST" \in grant[<<agent, caller>>].scopes

RecordRate(agent) ==
  LET m == IF rateRecorderOf[agent] # Zero THEN rateRecorderOf[agent] ELSE rateRecorder
  IN  IF m = Zero THEN UNCHANGED view ELSE Record(m, agent)

\* _finalizeAction: spend, call, record; a failed spend reverts everything.
Finalize(agent, target, value) ==
  /\ IF treasury # Zero /\ value > 0
     THEN target # Zero /\ Pay(agent, value, target = treasury)
     ELSE UNCHANGED money
  /\ RecordRate(agent)

Init ==
  /\ node \in StartChart
  /\ GrantInit
  /\ cap \in StartCap
  /\ allowed = Target
  /\ windowCount = [m \in RateModule |-> [n \in Agent |-> 0]]
  /\ dayOpen = TRUE
  /\ free = Supply
  /\ allowance = [n \in Agent |-> 0]
  /\ intent = <<>>
  /\ policy \in Stack
  /\ policyOf = [n \in Agent |-> NoStack]
  /\ treasury \in StartTreasury
  /\ sessionRegistry \in StartRegistry
  /\ rateRecorder \in StartRecorder
  /\ rateRecorderOf = [n \in Agent |-> Zero]
  /\ governor = Zero
  /\ reorgs = 0

-----------------------------------------------------------------------------
MayPropose(caller, agent, target, value) ==
  /\ Exists(agent)
  /\ node[agent].active
  /\ target \notin Protected(agent)
  /\ SessionPermits(caller, agent, target, value)

ProposeAllowed(caller, agent, target, value) ==
  /\ MayPropose(caller, agent, target, value)
  /\ Verdict(agent, target, value) = "ALLOW"
  /\ MaySettle(caller, agent)
  /\ Finalize(agent, target, value)
  /\ UNCHANGED <<node, grant, intent, wiring, reorgs>>

ProposeEscalated(caller, agent, target, value) ==
  /\ Len(intent) < MaxIntents
  /\ MayPropose(caller, agent, target, value)
  /\ Verdict(agent, target, value) = "ESCALATE"
  /\ Parent(agent) # Zero
  /\ intent' = Append(intent,
       [agent |-> agent, target |-> target, value |-> value,
        awaiting |-> Parent(agent), resolved |-> FALSE, approved |-> FALSE])
  /\ RecordRate(agent)
  /\ UNCHANGED <<node, grant, money, wiring, reorgs>>

IsAwaitedAgain(caller, id) == caller = intent[id].awaiting
IsAwaited(caller, id) == id \in Pending /\ caller = intent[id].awaiting

Close(id, approved) ==
  intent' = [intent EXCEPT ![id].resolved = TRUE, ![id].approved = approved]

\* The approver says no, or says yes and its own policy denies.
Reject(caller, id, approve) ==
  /\ IsAwaited(caller, id)
  /\ approve => Verdict(caller, intent[id].target, intent[id].value) = "DENY"
  /\ Close(id, FALSE)
  /\ UNCHANGED <<node, grant, view, money, wiring, reorgs>>

ReportsToRoot(n) == Exists(n) /\ Parent(n) = Root
HasFinalSay(n) == Exists(n) /\ (Parent(n) = Zero \/ node[n].kind = "HumanRoot")

Approve(caller, id) ==
  /\ IsAwaited(caller, id)
  /\ LET verdict == Verdict(caller, intent[id].target, intent[id].value) IN
       verdict = "ALLOW" \/ (verdict = "ESCALATE" /\ HasFinalSay(caller))
  /\ Close(id, TRUE)
  /\ Finalize(intent[id].agent, intent[id].target, intent[id].value)
  /\ UNCHANGED <<node, grant, wiring, reorgs>>

\* getNode reverts for an approver that is no longer in the tree.
Climb(caller, id) ==
  /\ IsAwaited(caller, id)
  /\ Verdict(caller, intent[id].target, intent[id].value) = "ESCALATE"
  /\ Exists(caller)
  /\ ~HasFinalSay(caller)
  /\ intent' = [intent EXCEPT ![id].awaiting = Parent(caller)]
  /\ UNCHANGED <<node, grant, view, money, wiring, reorgs>>

Resolve(caller, id) ==
  \/ \E approve \in BOOLEAN : Reject(caller, id, approve)
  \/ Approve(caller, id)
  \/ Climb(caller, id)

-----------------------------------------------------------------------------
Sets(caller, slot) ==
  /\ slot \in Input
  /\ caller = IF governor = Zero THEN Deployer ELSE Governor
  /\ UNCHANGED <<node, grant, view, money, intent, policy, reorgs>>

SetGovernor(caller) ==
  /\ Sets(caller, "governor")
  /\ governor' = Governor
  /\ UNCHANGED <<policyOf, treasury, sessionRegistry, rateRecorder, rateRecorderOf>>

SetTreasury(caller, t) ==
  /\ Sets(caller, "treasury")
  /\ treasury' = t
  /\ UNCHANGED <<policyOf, sessionRegistry, rateRecorder, rateRecorderOf, governor>>

SetSessionRegistry(caller, s) ==
  /\ Sets(caller, "sessions")
  /\ sessionRegistry' = s
  /\ UNCHANGED <<policyOf, treasury, rateRecorder, rateRecorderOf, governor>>

SetRateRecorder(caller, m) ==
  /\ Sets(caller, "rate")
  /\ rateRecorder' = m
  /\ UNCHANGED <<policyOf, treasury, sessionRegistry, rateRecorderOf, governor>>

SetNodePolicy(caller, n, s) ==
  /\ Sets(caller, "nodePolicy")
  /\ policyOf' = [policyOf EXCEPT ![n] = s]
  /\ UNCHANGED <<treasury, sessionRegistry, rateRecorder, rateRecorderOf, governor>>

SetNodeRateRecorder(caller, n, m) ==
  /\ Sets(caller, "nodeRate")
  /\ rateRecorderOf' = [rateRecorderOf EXCEPT ![n] = m]
  /\ UNCHANGED <<policyOf, treasury, sessionRegistry, rateRecorder, governor>>

Setter(caller) ==
  \/ SetGovernor(caller)
  \/ \E t \in {Purse, Zero} : SetTreasury(caller, t)
  \/ \E s \in {Registry, Zero} : SetSessionRegistry(caller, s)
  \/ \E m \in RateModule \cup {Zero} :
       \/ SetRateRecorder(caller, m)
       \/ \E n \in Agent : SetNodeRateRecorder(caller, n, m)
  \/ \E n \in Agent, s \in Stack \cup {NoStack} : SetNodePolicy(caller, n, s)

-----------------------------------------------------------------------------
(* Steps of the neighbours, as far as Input enables them. *)
Reorganise ==
  /\ reorgs < MaxReorgs
  /\ ChartNext
  /\ reorgs' = reorgs + 1
  /\ UNCHANGED <<grant, view, money, intent, wiring>>

ChangeKeys ==
  /\ "keys" \in Input
  /\ GrantNext
  /\ UNCHANGED <<node, view, money, intent, wiring, reorgs>>

ChangePolicy ==
  /\ \/ "cap" \in Input /\ \E n \in Agent, c \in Value : SetCap(n, c)
     \/ "allowed" \in Input /\ \E t \in Target, b \in BOOLEAN : SetAllowed(t, b)
     \/ "clock" \in Input /\ \E gone \in SUBSET (RateModule \X Agent), b \in BOOLEAN :
                               Pass(gone, b)
  /\ UNCHANGED <<node, grant, money, intent, wiring, reorgs>>

StreamTo(n, amount) ==
  /\ Reserve(Only(Agent, n, amount))
  /\ UNCHANGED <<node, grant, view, intent, wiring, reorgs>>

Environment ==
  \/ Reorganise
  \/ ChangeKeys
  \/ ChangePolicy
  \/ \E n \in Agent, amount \in Value : StreamTo(n, amount)

Next ==
  \/ \E caller \in Caller :
       \/ \E agent \in Agent, target \in Target, value \in Value :
            \/ ProposeAllowed(caller, agent, target, value)
            \/ ProposeEscalated(caller, agent, target, value)
       \/ \E id \in Id : Resolve(caller, id)
  \/ \E caller \in {Deployer, Governor} : Setter(caller)
  \/ Environment

Spec == Init /\ [][Next]_vars

\* An approver that is asked answers, one way or the other: the seats of the
\* tree are people and agents whose inboxes list what awaits them.
ApproversAnswer == \A id \in 1..MaxIntents :
  WF_vars(\E caller \in Caller : id \in Id /\ Resolve(caller, id))
FairSpec == Spec /\ ApproversAnswer

-----------------------------------------------------------------------------
IntentType == [agent : Agent, target : Target, value : Value, awaiting : Account,
               resolved : BOOLEAN, approved : BOOLEAN]

\* Types of the router's state and of the tree and the allowances it is
\* composed with; only a resolved intent can be approved.
TypeOK ==
  /\ node \in [Account -> NodeType]
  /\ allowance \in [Agent -> Nat]
  /\ policy \in Stack
  /\ intent \in Seq(IntentType)
  /\ \A id \in Id : intent[id].approved => intent[id].resolved
  /\ policyOf \in [Agent -> Stack \cup {NoStack}]
  /\ treasury \in {Purse, Zero} /\ sessionRegistry \in {Registry, Zero}
  /\ rateRecorder \in RateModule \cup {Zero}
  /\ rateRecorderOf \in [Agent -> RateModule \cup {Zero}]
  /\ governor \in {Governor, Zero}

\* "Escalations resolve only through ancestors in the OrgRegistry tree"
\* (SPEC 9.2): whoever a pending intent awaits is a node above its agent.
\* It holds while the tree stands still, and only then.
ApproverIsAbove ==
  \A id \in Pending : LET i == intent[id] IN
    Exists(i.awaiting) /\ i.awaiting # i.agent /\ IsAncestor(i.awaiting, i.agent)

Approving(id) == id \in Pending /\ intent'[id].approved

\* Money moves only on authority (SPEC 9.1, 9.3).  An allowance that falls
\* while no intent is approved falls by a payment within its owner's own cap;
\* otherwise one intent of that owner for that amount is being approved, by
\* an approver whose cap covers it or who has the final say.  In a run whose
\* stacks all hold the cap module.
SpendNeedsAuthority ==
  [][\A n \in Agent : allowance'[n] < allowance[n] =>
       LET amount == allowance[n] - allowance'[n] IN
       \/ intent' = intent /\ amount <= cap[n]
       \/ \E id \in Id :
            /\ Approving(id)
            /\ intent[id].agent = n /\ intent[id].value = amount
            /\ amount <= cap[intent[id].awaiting] \/ HasFinalSay(intent[id].awaiting)]_vars

\* A live key of n that may both propose and settle this.
GrantedTo(n, target, amount) ==
  \E k \in Key :
    /\ grant[<<n, k>>] # NoGrant
    /\ LET g == grant[<<n, k>>] IN
         /\ {"PROPOSE_INTENT", "SPEND_WHITELIST"} \subseteq g.scopes
         /\ amount <= g.maxValue
         /\ g.targets # {} => target \in g.targets

\* A propose that is settled without an approver passed every lock at once: an
\* active node is debited, for a target that does not trust the router, which
\* every module of the node's own stack allows; and a key is one more lock
\* (SessionScopes): while the registry is wired, an agent that never calls for
\* itself is debited only under a live key for that target and that amount.
DirectSpendIsGranted ==
  [][\A n \in Agent :
       allowance'[n] < allowance[n] /\ intent' = intent =>
         /\ Exists(n) /\ node[n].active
         /\ \E target \in Target \ Protected(n) :
              LET amount == allowance[n] - allowance'[n] IN
                /\ \A m \in PolicyFor(n) : ModuleVerdict(m, n, target, amount) = "ALLOW"
                /\ sessionRegistry # Zero /\ n \notin Caller => GrantedTo(n, target, amount)]_vars

\* A pending intent changes hands only upwards, one level at a time, from an
\* approver that could have but did not end it; nothing else about it changes
\* while it is pending.
HandedUpOneLevel ==
  [][\A id \in Pending :
       /\ id \in DOMAIN intent'
       /\ [intent'[id] EXCEPT !.awaiting = 0, !.resolved = FALSE, !.approved = FALSE]
          = [intent[id] EXCEPT !.awaiting = 0]
       /\ intent'[id].awaiting # intent[id].awaiting =>
            /\ intent'[id].awaiting = Parent(intent[id].awaiting)
            /\ ~intent'[id].resolved]_vars

\* The intents as claims on the purse.
Claim(i) ==
  [by |-> i.agent, to |-> i.target, amount |-> i.value,
   state |-> IF ~i.resolved THEN "pending" ELSE IF i.approved THEN "approved" ELSE "rejected"]
ClaimsOf(intents) == [id \in DOMAIN intents |-> Claim(intents[id])]
Claims == ClaimsOf(intent)
Wired  == treasury # Zero

Promised == INSTANCE Approvals WITH
  Claimant <- Agent, Payee <- Target, Amount <- Value \cup {0}, wired <- Wired, claim <- Claims

\* The router keeps the promise of module Approvals: an intent pays once, in
\* full, from its agent's allowance, in the step that approves it, or never.
KeepsApprovals == Promised!ClaimSpec

\* Every intent is eventually resolved, when the tree stands still and asked
\* approvers answer: the climb has a top.
IntentsSettle == \A id \in 1..MaxIntents : id \in Pending ~> (id \in Id /\ id \notin Pending)
=============================================================================
