----------------------------- MODULE PolicyView -----------------------------
(***************************************************************************)
(* What the router sees of the policy modules (contracts/src/policies): a  *)
(* stack is a set of modules, each giving a verdict from its own state.    *)
(* windowCount[m][n] is the count that rate module m would compare now: 0  *)
(* once n's window has elapsed, and never more than the limit it is        *)
(* compared with.                                                          *)
(***************************************************************************)
EXTENDS Naturals

CONSTANTS Agent,        \* accounts that act under a policy
          Target,       \* accounts an action can be aimed at
          RateModule,   \* the RateLimitPolicy instances
          MaxActions,   \* their limit, where zero counts as one
          Cap           \* the caps that are set

VARIABLES cap,          \* SpendCapPolicy.capOf
          allowed,      \* WhitelistPolicy: the targets it allows
          windowCount,
          dayOpen       \* TimeWindowPolicy: now is inside its daily window

policyState == <<cap, allowed, windowCount, dayOpen>>

Module == {"spendCap", "whitelist", "timeWindow"} \cup RateModule

ModuleVerdict(m, n, target, value) ==
  CASE m = "spendCap"   -> IF value <= cap[n] THEN "ALLOW" ELSE "ESCALATE"
    [] m = "whitelist"  -> IF target \in allowed THEN "ALLOW" ELSE "DENY"
    [] m = "timeWindow" -> IF dayOpen THEN "ALLOW" ELSE "DENY"
    [] m \in RateModule -> IF windowCount[m][n] >= MaxActions
                           THEN "ESCALATE" ELSE "ALLOW"

\* One permission is not enough.
AnyAllow(stack, n, target, value) ==
  IF "ALLOW" \in {ModuleVerdict(m, n, target, value) : m \in stack}
  THEN "ALLOW" ELSE "ESCALATE"

\* PolicyStack.check: any DENY denies, else any ESCALATE escalates.
StackVerdict(stack, n, target, value) ==
  LET verdicts == {ModuleVerdict(m, n, target, value) : m \in stack}
  IN  IF "DENY" \in verdicts THEN "DENY"
      ELSE IF "ESCALATE" \in verdicts THEN "ESCALATE"
      ELSE "ALLOW"

SetCap(n, c) ==
  /\ cap' = [cap EXCEPT ![n] = c]
  /\ UNCHANGED <<allowed, windowCount, dayOpen>>

SetAllowed(target, yes) ==
  /\ allowed' = IF yes THEN allowed \cup {target} ELSE allowed \ {target}
  /\ UNCHANGED <<cap, windowCount, dayOpen>>

Counted(m, n) ==
  windowCount' = [windowCount EXCEPT ![m][n] = IF @ < MaxActions THEN @ + 1 ELSE @]

Record(m, n) == Counted(m, n) /\ UNCHANGED <<cap, allowed, dayOpen>>

\* Time passes: some windows have elapsed, the time of day may have changed.
Pass(gone, open) ==
  /\ windowCount' = [m \in RateModule |-> [n \in Agent |->
                       IF <<m, n>> \in gone THEN 0 ELSE windowCount[m][n]]]
  /\ dayOpen' = open
  /\ UNCHANGED <<cap, allowed>>

PolicyInit ==
  /\ \E c \in Cap : cap = [n \in Agent |-> c]
  /\ allowed = {}
  /\ windowCount = [m \in RateModule |-> [n \in Agent |-> 0]]
  /\ dayOpen \in BOOLEAN

PolicyNext ==
  \/ \E n \in Agent, c \in Cap : SetCap(n, c)
  \/ \E target \in Target, yes \in BOOLEAN : SetAllowed(target, yes)
  \/ \E m \in RateModule, n \in Agent : Record(m, n)
  \/ \E gone \in SUBSET (RateModule \X Agent), open \in BOOLEAN : Pass(gone, open)

PolicySpec == PolicyInit /\ [][PolicyNext]_policyState
=============================================================================
