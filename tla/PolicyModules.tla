--------------------------- MODULE PolicyModules ---------------------------
(***************************************************************************)
(* The deployed policy modules (contracts/src/policies) with their clock:  *)
(* a spend cap, a whitelist, a daily time window and one rate limit per    *)
(* RateModule, and the stacks composed of them.  now is block.timestamp    *)
(* in model seconds; a window that has never been opened starts at 0.      *)
(***************************************************************************)
EXTENDS Naturals, Sequences, Functions

CONSTANTS Agent, Target, RateModule,
          MaxActions, WindowSeconds,      \* of the rate modules
          StartSecond, EndSecond, Day,    \* of the time window; a day
          Cap,                            \* caps and spends tried
          Margin,                         \* RATE_WINDOW_MARGIN_SEC
          Caller, Admin, Governor, Recorder, NoOne,
          MaxTime                         \* model bound

ASSUME PolicyAssumption ==
  /\ MaxTime \in Nat \ {0}
  /\ {MaxActions, WindowSeconds, StartSecond, EndSecond, Margin} \cup Cap \subseteq Nat
  /\ StartSecond < EndSecond /\ EndSecond <= Day /\ Day \in Nat \ {0}
  /\ {"spendCap", "whitelist", "timeWindow"} \cap RateModule = {}
  /\ NoOne \notin Caller /\ {Admin, Governor, Recorder} \subseteq Caller

VARIABLES governorOf,               \* of the cap and of the whitelist
          defaultCap, agentCap,     \* agentCap[n]: <<>>, or <<the override>>
          allowed,
          recorder,                 \* of each rate module, NoOne until bound
          windows,                  \* [windowStart, count] of each agent
          now,
          passed   \* history: when each agent's actions passed a rate module

modulesVars ==
  <<governorOf, defaultCap, agentCap, allowed, recorder, windows, now, passed>>

Governed == {"spendCap", "whitelist"}
Module   == Governed \cup {"timeWindow"} \cup RateModule

CapOf(n) == IF agentCap[n] = <<>> THEN defaultCap ELSE agentCap[n][1]

\* A window that never opened counts as elapsed; one must last to the end of
\* its last second.
ElapsedEarly(m, n, t) == LET w == windows[m][n] IN
  w.windowStart = 0 \/ t + 1 >= w.windowStart + WindowSeconds
ElapsedAt(m, n, t) == LET w == windows[m][n] IN
  w.windowStart = 0 \/ t >= w.windowStart + WindowSeconds
Elapsed(m, n) == ElapsedAt(m, n, now)

InsideDayAt(t) == t % Day \in StartSecond..(EndSecond - 1)

SpendCapCheck(n, value) == IF value <= CapOf(n) THEN "ALLOW" ELSE "ESCALATE"
WhitelistCheck(target)  == IF target \in allowed THEN "ALLOW" ELSE "DENY"
TimeWindowCheck(t)      == IF InsideDayAt(t) THEN "ALLOW" ELSE "DENY"
RateLimitCheck(m, n, t) ==
  IF ~ElapsedAt(m, n, t) /\ windows[m][n].count >= MaxActions THEN "ESCALATE" ELSE "ALLOW"

CheckAt(m, n, target, value, t) ==
  CASE m = "spendCap"   -> SpendCapCheck(n, value)
    [] m = "whitelist"  -> WhitelistCheck(target)
    [] m = "timeWindow" -> TimeWindowCheck(t)
    [] m \in RateModule -> RateLimitCheck(m, n, t)

\* What a window lets through: the action that opens it is not compared, so a
\* limit of zero is one of one.
PerWindow == IF MaxActions = 0 THEN 1 ELSE MaxActions

\* Letting the last objection win would let a later module soften a DENY.
LastObjection(verdict, v) == IF v = "ALLOW" THEN verdict ELSE v

\* The walk of PolicyStack.check: the first DENY ends it, an ESCALATE sticks.
Combine(verdict, v) ==
  IF verdict = "DENY" \/ v = "DENY" THEN "DENY"
  ELSE IF v = "ESCALATE" THEN "ESCALATE" ELSE verdict

Walk(verdicts) ==
  LET sofar[i \in 0..Len(verdicts)] ==
        IF i = 0 THEN "ALLOW" ELSE Combine(sofar[i - 1], verdicts[i])
  IN  sofar[Len(verdicts)]

CheckStackAt(stack, n, target, value, t) ==
  Walk([i \in DOMAIN stack |-> CheckAt(stack[i], n, target, value, t)])
CheckStack(stack, n, target, value) == CheckStackAt(stack, n, target, value, now)

\* Forced, with a window that may lapse just as the margin ends.
ForcedAtTheEdge(stack, n, value) ==
  \E m \in Range(stack) :
    \/ m = "spendCap" /\ value > CapOf(n)
    \/ /\ m \in RateModule /\ ~Elapsed(m, n) /\ windows[m][n].count >= MaxActions
       /\ windows[m][n].windowStart + WindowSeconds - now >= Margin

\* The orchestrator's proof that a stack will escalate a call, on which it
\* narrows the key it signs with: a cap the value is over, or an allowance
\* spent in a window that lasts longer than the margin.
Forced(stack, n, value) ==
  \E m \in Range(stack) :
    \/ m = "spendCap" /\ value > CapOf(n)
    \/ /\ m \in RateModule /\ ~Elapsed(m, n) /\ windows[m][n].count >= MaxActions
       /\ windows[m][n].windowStart + WindowSeconds - now > Margin

ModulesInit ==
  /\ governorOf = [g \in Governed |-> NoOne]
  /\ defaultCap \in Cap
  /\ agentCap = [n \in Agent |-> <<>>]
  /\ allowed = {}
  /\ recorder = [m \in RateModule |-> NoOne]
  /\ windows = [m \in RateModule |-> [n \in Agent |-> [windowStart |-> 0, count |-> 0]]]
  /\ now = 1
  /\ passed = [m \in RateModule |-> [n \in Agent |-> <<>>]]

-----------------------------------------------------------------------------
SetGovernorOf(caller, g) ==
  /\ caller = Admin /\ governorOf[g] = NoOne
  /\ governorOf' = [governorOf EXCEPT ![g] = Governor]
  /\ UNCHANGED <<defaultCap, agentCap, allowed, recorder, windows, now, passed>>

SetAgentCap(caller, n, c) ==
  /\ caller \in {Admin, governorOf["spendCap"]}
  /\ agentCap' = [agentCap EXCEPT ![n] = <<c>>]
  /\ UNCHANGED <<governorOf, defaultCap, allowed, recorder, windows, now, passed>>

SetAllowed(caller, target, yes) ==
  /\ caller \in {Admin, governorOf["whitelist"]}
  /\ allowed' = IF yes THEN allowed \cup {target} ELSE allowed \ {target}
  /\ UNCHANGED <<governorOf, defaultCap, agentCap, recorder, windows, now, passed>>

SetRecorder(caller, m) ==
  /\ caller = Admin /\ recorder[m] = NoOne
  /\ recorder' = [recorder EXCEPT ![m] = Recorder]
  /\ UNCHANGED <<governorOf, defaultCap, agentCap, allowed, windows, now, passed>>

\* What windows[agent] becomes: a new window starts with this action.
\* CountOn restarts the clock but not the count.
CountOn(m, n) ==
  [windowStart |-> now, count |-> windows[m][n].count + 1]
Count(m, n) ==
  IF Elapsed(m, n) THEN [windowStart |-> now, count |-> 1]
  ELSE [windows[m][n] EXCEPT !.count = @ + 1]

\* The router consults the module before it records; passed notes the
\* actions recorded that the module let through.
RecordAction(caller, m, n) ==
  /\ caller = IF recorder[m] = NoOne THEN Admin ELSE recorder[m]
  /\ windows' = [windows EXCEPT ![m][n] = Count(m, n)]
  /\ passed' = IF ~Elapsed(m, n) /\ windows[m][n].count >= MaxActions THEN passed
               ELSE [passed EXCEPT ![m][n] = Append(@, now)]
  /\ UNCHANGED <<governorOf, defaultCap, agentCap, allowed, recorder, now>>

Tick ==
  /\ now < MaxTime
  /\ now' = now + 1
  /\ UNCHANGED <<governorOf, defaultCap, agentCap, allowed, recorder, windows, passed>>

\* Model bound on RecordAction: escalated actions past the limit look alike.
Recordable(m, n) == Elapsed(m, n) \/ windows[m][n].count <= PerWindow

ModulesNext ==
  \/ \E caller \in Caller :
       \/ \E g \in Governed : SetGovernorOf(caller, g)
       \/ \E n \in Agent, c \in Cap : SetAgentCap(caller, n, c)
       \/ \E target \in Target, yes \in BOOLEAN : SetAllowed(caller, target, yes)
       \/ \E m \in RateModule :
            \/ SetRecorder(caller, m)
            \/ \E n \in Agent : Recordable(m, n) /\ RecordAction(caller, m, n)
  \/ Tick

ModulesSpec == ModulesInit /\ [][ModulesNext]_modulesVars

-----------------------------------------------------------------------------
\* Types; and a window that was never opened has counted nothing.
ModulesTypeOK ==
  /\ governorOf \in [Governed -> {Governor, NoOne}]
  /\ defaultCap \in Cap
  /\ agentCap \in [Agent -> {<<>>} \cup {<<c>> : c \in Cap}]
  /\ allowed \subseteq Target
  /\ recorder \in [RateModule -> {Recorder, NoOne}]
  /\ now \in 1..MaxTime
  /\ windows \in [RateModule -> [Agent -> [windowStart : 0..MaxTime, count : Nat]]]
  /\ \A m \in RateModule, n \in Agent :
       windows[m][n].count = 0 <=> windows[m][n].windowStart = 0
  /\ passed \in [RateModule -> [Agent -> Seq(1..MaxTime)]]

\* No windowSeconds hold more than k actions that the module let through.
AtMost(k) == \A m \in RateModule, n \in Agent : LET at == passed[m][n] IN
  \A i \in DOMAIN at : i + k \in DOMAIN at => at[i + k] >= at[i] + WindowSeconds

\* RateLimitPolicy "Escalates when an agent exceeds maxActions within
\* windowSeconds"; SPEC 2 calls it a sliding-window count.  The code does not
\* keep it: its windows are fixed ones.
SlidingWindow == AtMost(MaxActions)

\* What the fixed windows do give: no windowSeconds hold as many as twice
\* maxActions, or two if that is zero.
AtMostTwoWindows == AtMost(2 * PerWindow - 1)

View == INSTANCE PolicyView WITH
  MaxActions <- PerWindow,
  cap <- [n \in Agent |-> CapOf(n)],
  windowCount <- [m \in RateModule |-> [n \in Agent |->
    IF Elapsed(m, n) THEN 0
    ELSE IF windows[m][n].count > PerWindow THEN PerWindow ELSE windows[m][n].count]],
  dayOpen <- InsideDayAt(now)

\* The router may be verified against PolicyView instead: whatever the
\* modules, their clocks and their admins do is a step of it.
KeepsView == View!PolicySpec

Stacks(k) == {s \in UNION {[1..i -> Module] : i \in 1..k} : IsInjective(s)}

Leniency == [DENY |-> 0, ESCALATE |-> 1, ALLOW |-> 2]

Narrows(s) == \A n \in Agent, target \in Target, value \in Cap :
  LET verdict == CheckStack(s, n, target, value) IN
  /\ verdict = View!StackVerdict(Range(s), n, target, value)
  /\ \A i \in DOMAIN s :
       Leniency[verdict] <= Leniency[CheckStack(SubSeq(s, 1, i), n, target, value)]

\* SPEC 2.2: a module appended to a node's stack "can only ever narrow what
\* the existing stack lets through", and the verdict depends on the modules the
\* stack holds, not on their order or on where the walk stopped (the router is
\* verified against sets of modules).
AppendingNarrows == \A s \in Stacks(3) : Narrows(s)

Escalates(s) == \A n \in Agent, target \in Target, value \in Cap :
  Forced(s, n, value) =>
    \A t \in now..(now + Margin) : CheckStackAt(s, n, target, value, t) # "ALLOW"

\* "Whether this policy stack provably escalates the described call", and
\* "cannot lapse before the propose lands" (core/src/types.ts:288, :332): a call
\* proved to escalate is not allowed at any moment of the margin that follows,
\* whatever else the stack holds and wherever its walk stops, so that the narrow
\* key it is sent with never lacks a scope.  It holds of the modules as they
\* are: a cap raised in between is outside it.
ProvedEscalationHolds == \A s \in Stacks(3) : Escalates(s)
=============================================================================
