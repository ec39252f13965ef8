-------------------------- MODULE InferenceBudgets --------------------------
(***************************************************************************)
(* Budgets on model calls (orchestrator/src/inferenceBudgets.ts and        *)
(* model/budgeted.ts over the Postgres store): a call is checked against   *)
(* the budgets that cover it, goes out, and is then folded into their      *)
(* counters; whoever sees a counter cross a line claims the alert.  One    *)
(* crew with its seats, one dimension, one kind of period.                 *)
(***************************************************************************)
EXTENDS Naturals, Sequences, FiniteSets

CONSTANTS Seat,           \* the agents of the crew
          Client,         \* who calls the model: one call each at a time
          Limit,          \* the limits an operator sets
          MaxCost,        \* the largest cost of a call
          MaxPeriod,      \* bounds: the clock,
          MaxCalls,       \* the calls made,
          MaxEdits,       \* what the operator changes,
          MaxLapses       \* and lost writes and crashes

ASSUME MeterAssumption ==
  /\ IsFiniteSet(Client)
  /\ Limit \subseteq Nat \ {0}
  /\ MaxCost \in Nat \ {0}
  /\ MaxPeriod \in Nat \ {0}
  /\ MaxCalls \in Nat /\ MaxEdits \in Nat /\ MaxLapses \in Nat
  /\ {"crew", "none"} \cap Seat = {}

Crew   == "crew"
Scope  == {Crew} \cup Seat
Period == 1 .. MaxPeriod
Cost   == 1 .. MaxCost
State  == {"ok", "warning", "exceeded"}

NoBudget == [limit |-> 0, hard |-> FALSE, on |-> FALSE]
Budget   == [limit : Limit, hard : BOOLEAN, on : BOOLEAN] \cup {NoBudget}

VARIABLES budget,      \* orchestrator_inference_budgets
          usage,       \* orchestrator_inference_usage: the counter of a period
          alerted,     \* its column alerted_state
          period,      \* the clock
          work,        \* what a client's call is doing
          calls, edits, lapses,
          ceiling,     \* history: the highest hard limit so far, 0 once there was none
          alerts,      \* history: how often a crossing was announced
          disturbed    \* history: scopes whose counters somebody else's step crossed

budgetsVars == <<budget, usage, alerted, period, work, calls, edits, lapses,
                 ceiling, alerts, disturbed>>

\* scopeKeysFor: the crew's counter first.
ScopesOf(a) == IF a = "none" THEN <<Crew>> ELSE <<Crew, a>>

\* budgetStatus
Standing(limit, used) ==
  IF used >= limit THEN "exceeded" ELSE IF 5 * used >= 4 * limit THEN "warning" ELSE "ok"

\* A mutant of Blocks: the limit itself is still within.
BlocksAbove(b, used) == b.hard /\ used > b.limit

\* blockOf
Blocks(b, used) == b.hard /\ Standing(b.limit, used) = "exceeded"

NoWorkYet == [pc |-> "idle", agent |-> "none", left |-> <<>>, cost |-> 0,
              rule |-> NoBudget, month |-> 1, before |-> "ok", after |-> "ok"]

Bounding(b) == IF b.on /\ b.hard THEN b.limit ELSE 0

BudgetsInit ==
  /\ budget \in [Scope -> Budget]
  /\ usage = [s \in Scope |-> [p \in Period |-> 0]]
  /\ alerted = [s \in Scope |-> [p \in Period |-> "ok"]]
  /\ period = 1
  /\ work = [c \in Client |-> NoWorkYet]
  /\ calls = 0 /\ edits = 0 /\ lapses = 0
  /\ ceiling = [s \in Scope |-> Bounding(budget[s])]
  /\ alerts = [s \in Scope |-> [p \in Period |-> [st \in State |-> 0]]]
  /\ disturbed = {}

Does(c, pc)  == work[c].pc = pc
Covered(c)    == Head(work[c].left)
Ended(c)   == work' = [work EXCEPT ![c] = NoWorkYet]
Metering   == {"meter", "before", "add", "claim"}

\* complete: the call of a seat, or one that names none.
Complete(c, a) ==
  /\ Does(c, "idle")
  /\ calls < MaxCalls
  /\ calls' = calls + 1
  /\ work' = [work EXCEPT ![c] = [NoWorkYet EXCEPT !.pc = "get", !.agent = a, !.left = ScopesOf(a)]]
  /\ UNCHANGED <<budget, usage, alerted, period, edits, lapses, ceiling, alerts, disturbed>>

\* This scope does not refuse the call: the next, or the model.
Admitted(c, b) ==
  work' = [work EXCEPT ![c].rule = NoBudget,
                       ![c].left = Tail(@),
                       ![c].pc = IF Len(work[c].left) = 1 THEN "model" ELSE "get"]

\* check: the budget is read, then its counter.
GetBudget(c) ==
  /\ Does(c, "get")
  /\ LET b == budget[Covered(c)] IN
       IF b.on THEN work' = [work EXCEPT ![c].pc = "look", ![c].rule = b] ELSE Admitted(c, b)
  /\ UNCHANGED <<budget, usage, alerted, period, calls, edits, lapses, ceiling, alerts, disturbed>>

LookAtUsage(c) ==
  /\ Does(c, "look")
  /\ IF Blocks(work[c].rule, usage[Covered(c)][period]) THEN Ended(c) ELSE Admitted(c, work[c].rule)
  /\ UNCHANGED <<budget, usage, alerted, period, calls, edits, lapses, ceiling, alerts, disturbed>>

\* A budget that cannot be read refuses the call; a provider that fails costs
\* nothing.
GivesUp(c) ==
  /\ work[c].pc \in {"get", "look", "model"}
  /\ Ended(c)
  /\ UNCHANGED <<budget, usage, alerted, period, calls, edits, lapses, ceiling, alerts, disturbed>>

\* The model answered: what the call cost is recorded, scope by scope.
Answered(c, cost) ==
  /\ Does(c, "model")
  /\ work' = [work EXCEPT ![c].pc = "meter", ![c].cost = cost, ![c].left = ScopesOf(work[c].agent)]
  /\ UNCHANGED <<budget, usage, alerted, period, calls, edits, lapses, ceiling, alerts, disturbed>>

\* record: the budget and, by the clock, the period to charge.
MeterScope(c) ==
  /\ Does(c, "meter")
  /\ LET b == budget[Covered(c)] IN
       work' = [work EXCEPT ![c].pc = IF b.on THEN "before" ELSE "add",
                            ![c].rule = b, ![c].month = period]
  /\ UNCHANGED <<budget, usage, alerted, period, calls, edits, lapses, ceiling, alerts, disturbed>>

\* The standing before this call is that of the counter, not what was alerted.
ReadBefore(c) ==
  /\ Does(c, "before")
  /\ work' = [work EXCEPT ![c].pc = "add",
                ![c].before = Standing(work[c].rule.limit, usage[Covered(c)][work[c].month])]
  /\ disturbed' = IF \E d \in Client \ {c} : work[d].pc \in {"add", "claim"} /\ Covered(d) = Covered(c)
                  THEN disturbed \cup {Covered(c)} ELSE disturbed
  /\ UNCHANGED <<budget, usage, alerted, period, calls, edits, lapses, ceiling, alerts>>

Metered(c) ==
  IF Len(work[c].left) = 1 THEN NoWorkYet
  ELSE [work[c] EXCEPT !.pc = "meter", !.left = Tail(@), !.rule = NoBudget, !.month = 1,
                       !.before = "ok", !.after = "ok"]

\* A mutant of Crosses: only the first line counts.
CrossesFirst(c, after) == work[c].rule.on /\ work[c].before = "ok" /\ after # "ok"

\* budgetAlertCrossing.  A counter only grows, so another standing is a worse one.
Crosses(c, after) == work[c].rule.on /\ after # work[c].before

\* add: one statement, which returns the counter with everybody's calls in it.
AddUsage(c) ==
  LET s == Covered(c)  m == work[c].month
      used == usage[s][m] + work[c].cost
      after == Standing(work[c].rule.limit, used) IN
  /\ Does(c, "add")
  /\ usage' = [usage EXCEPT ![s][m] = used]
  /\ work' = [work EXCEPT ![c] =
                IF Crosses(c, after) THEN [work[c] EXCEPT !.pc = "claim", !.after = after]
                ELSE Metered(c)]
  /\ UNCHANGED <<budget, alerted, period, calls, edits, lapses, ceiling, alerts, disturbed>>

\* A mutant of MayAlert: whoever crosses the line alerts.
MayAlways(c) == TRUE

\* claimAlert: the column moves on from what this call saw before it.
MayAlert(c) == alerted[Covered(c)][work[c].month] = work[c].before

Announced(c) == [alerts EXCEPT ![Covered(c)][work[c].month][work[c].after] = @ + 1]

\* announce
ClaimAlert(c) ==
  /\ Does(c, "claim")
  /\ IF MayAlert(c)
     THEN /\ alerted' = [alerted EXCEPT ![Covered(c)][work[c].month] = work[c].after]
          /\ alerts' = Announced(c)
     ELSE UNCHANGED <<alerted, alerts>>
  /\ work' = [work EXCEPT ![c] = Metered(c)]
  /\ UNCHANGED <<budget, usage, period, calls, edits, lapses, ceiling, disturbed>>

Lapse(c) ==
  /\ lapses < MaxLapses
  /\ lapses' = lapses + 1
  /\ disturbed' = disturbed \cup {Covered(c)}

\* A claim that cannot be written alerts all the same.
AlertClaimFails(c) ==
  /\ Does(c, "claim")
  /\ Lapse(c)
  /\ alerts' = Announced(c)
  /\ work' = [work EXCEPT ![c] = Metered(c)]
  /\ UNCHANGED <<budget, usage, alerted, period, calls, edits, ceiling>>

\* A write that fails leaves the rest of this call unmetered, which is only
\* logged; so does the death of its process.
Unmetered(c) ==
  /\ work[c].pc \in Metering
  /\ Lapse(c)
  /\ Ended(c)
  /\ UNCHANGED <<budget, usage, alerted, period, calls, edits, ceiling, alerts>>

\* save, setEnabled and remove.
SaveBudget(s, b) ==
  /\ edits < MaxEdits
  /\ b # budget[s]
  /\ edits' = edits + 1
  /\ budget' = [budget EXCEPT ![s] = b]
  /\ ceiling' = [ceiling EXCEPT ![s] =
                   IF @ = 0 \/ Bounding(b) = 0 THEN 0 ELSE IF @ > b.limit THEN @ ELSE b.limit]
  /\ disturbed' = disturbed \cup {s}
  /\ UNCHANGED <<usage, alerted, period, work, calls, lapses, alerts>>

\* budgetPeriod: a new key, and nothing else.
NewPeriod ==
  /\ period < MaxPeriod
  /\ period' = period + 1
  /\ UNCHANGED <<budget, usage, alerted, work, calls, edits, lapses, ceiling, alerts, disturbed>>

BudgetsNext ==
  \/ \E c \in Client :
       \/ \E a \in Seat \cup {"none"} : Complete(c, a)
       \/ GetBudget(c) \/ LookAtUsage(c) \/ GivesUp(c)
       \/ \E cost \in Cost : Answered(c, cost)
       \/ MeterScope(c) \/ ReadBefore(c) \/ AddUsage(c)
       \/ ClaimAlert(c) \/ AlertClaimFails(c) \/ Unmetered(c)
  \/ \E s \in Scope, b \in Budget : SaveBudget(s, b)
  \/ NewPeriod

BudgetsSpec == BudgetsInit /\ [][BudgetsNext]_budgetsVars
-----------------------------------------------------------------------------
(* Properties.                                                             *)
WorkType ==
  [pc : {"idle", "get", "look", "model"} \cup Metering, agent : Seat \cup {"none"},
   left : Seq(Scope), cost : Cost \cup {0}, rule : Budget, month : Period,
   before : State, after : State]

BudgetsTypeOK ==
  /\ budget \in [Scope -> Budget]
  /\ usage \in [Scope -> [Period -> Nat]]
  /\ alerted \in [Scope -> [Period -> State]]
  /\ period \in Period
  /\ work \in [Client -> WorkType]
  /\ calls \in 0 .. MaxCalls /\ edits \in 0 .. MaxEdits /\ lapses \in 0 .. MaxLapses
  /\ ceiling \in [Scope -> Nat]
  /\ alerts \in [Scope -> [Period -> [State -> Nat]]]
  /\ disturbed \subseteq Scope

\* "Check first" is a read of a counter that is charged after the call: a hard
\* limit is overrun, but never by more than what every client's one call costs
\* (budgeted.ts complete), however budgets were raised or lowered, the period
\* turned, or replicas interleave.
OvershootBounded ==
  \A s \in Scope, p \in Period :
    ceiling[s] # 0 => usage[s][p] < ceiling[s] + Cardinality(Client) * MaxCost

\* A crossing is announced once per scope and period, whichever replicas see
\* it (claimInferenceAlert), but for a claim that could not be written.
AlertedOnce ==
  \A s \in Scope, p \in Period, st \in State : alerts[s][p][st] <= 1 + lapses

\* What was announced keeps up with the counter as long as calls are recorded
\* one at a time, under a budget nobody edits and without lost writes.
AlertsKeepUp ==
  \A s \in Scope \ disturbed :
    budget[s].on /\ (\A c \in Client : work[c].pc \in Metering => Covered(c) # s) =>
      \A p \in Period : alerted[s][p] = Standing(budget[s].limit, usage[s][p])

\* "the next crossing alerts again" (inferenceBudgets.ts announce), after a
\* raised cap.  The code does not keep it.
CrossingsAlert ==
  \A s \in Scope, p \in Period :
    (\A c \in Client : work[c].pc = "idle") /\ lapses = 0 /\ budget[s].on
      /\ Standing(budget[s].limit, usage[s][p]) = "exceeded"
    => alerted[s][p] = "exceeded"
=============================================================================
