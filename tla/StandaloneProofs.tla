-------------------------- MODULE StandaloneProofs --------------------------
(***************************************************************************)
(* The parts that stand by themselves: the policy modules, which any       *)
(* router may consult, the marketplace's payments, the budgets on model    *)
(* calls, the indexer, and the services that wait and remember: webhooks   *)
(* and heartbeats on the job queue, asks, agent controls and keys.         *)
(*                                                                         *)
(* The policy modules: what a rate module has let through (passed) is      *)
(* spaced by the windows that counted it.  Spaced says of each agent that  *)
(* the last entries, as many as the open window counted, are inside it,    *)
(* those before it are no later than its start, and those a whole limit    *)
(* before it a whole window earlier; it is inductive with the types, and   *)
(* two windows' limit follows.  The verdict of a stack is what its modules *)
(* say together (WalkSums, by the least number principle), whatever its    *)
(* length.  The modules with their clock implement PolicyView, the view    *)
(* the router is verified against, step by step.                           *)
(*                                                                         *)
(* The marketplace: TypeOK and Solvent are inductive together: the fee     *)
(* ceiling (in TypeOK) makes the seller's share a natural number, so a     *)
(* sale adds its price to the debts and no more.                           *)
(*                                                                         *)
(* The budgets, for any clients, seats, limits, costs and calls: how far   *)
(* usage can pass a hard limit, and that each crossing is alerted once and *)
(* by somebody.  The indexer, for any tickets, approvers, logs, boots and  *)
(* lost rows: its store says what the chain does, its audit has no         *)
(* doubles, and a replay completes the sink.                               *)
(*                                                                         *)
(* Webhook deliveries, for any producers, replicas, posts, tries and       *)
(* crashes: a delivery becomes one job at most, and one that is answered   *)
(* as a duplicate is queued unless its claim was lost.  Heartbeats on the  *)
(* same job queue, for any replicas, minutes and crashes: a window is      *)
(* worked once, and sweeps overlap for a cause.  Asks, for any answers,    *)
(* writes and restarts: a yes releases one call.  Agent controls and keys, *)
(* for any briefs, slots, operations and sessions: what was last commanded *)
(* stands, what is live under a pause is what it named, and a cached key   *)
(* works.                                                                  *)
(***************************************************************************)
EXTENDS PolicyModules, MarketplacePayments, InferenceBudgets, EventIndexer,
        Webhooks, Heartbeats, ConnectorAsks, AgentKeys,
        SequenceTheorems, FiniteSetTheorems, WellFoundedInduction, TLAPS

-----------------------------------------------------------------------------
\* What stands on data.

\* The least number principle, for sets: what an induction on data rests on.
LEMMA LeastNumber ==
  ASSUME NEW T, T \subseteq Nat, T # {}
  PROVE  \E n \in T : \A m \in T : n <= m
<1> DEFINE R == OpToRel(<, Nat)
<1>1. IsWellFoundedOn(R, Nat)
  BY NatLessThanWellFounded
<1>2. \A x, y \in Nat : x < y => <<x, y>> \in R
  BY DEF OpToRel
<1> HIDE DEF R
<1>3. PICK n \in T : \A m \in T : ~(<<m, n>> \in R)
  BY <1>1, WFMin
<1>4. \A m \in T : n \in Nat /\ m \in Nat /\ ~(m < n)
  BY <1>2, <1>3
<1> QED
  BY <1>4

\* What the walk of a stack comes to.
Sum(verdicts, k) ==
  IF \E i \in 1..k : verdicts[i] = "DENY" THEN "DENY"
  ELSE IF \E i \in 1..k : verdicts[i] = "ESCALATE" THEN "ESCALATE" ELSE "ALLOW"

Verdict == {"ALLOW", "ESCALATE", "DENY"}

LEMMA SumCombines ==
  ASSUME NEW verdicts \in Seq(Verdict), NEW i \in 1..Len(verdicts)
  PROVE  Sum(verdicts, i) = Combine(Sum(verdicts, i - 1), verdicts[i])
<1>1. Len(verdicts) \in Nat
  BY LenProperties
<1>2. verdicts[i] \in Verdict
  BY ElementOfSeq
<1>3. 1..i = 1..(i - 1) \cup {i}
  BY <1>1
<1> QED
  BY <1>2, <1>3 DEF Sum, Combine, Verdict

\* The walk stops nowhere and forgets nothing: whatever the length of the stack,
\* the verdict is what its modules say together.
LEMMA WalkSums ==
  ASSUME NEW verdicts \in Seq(Verdict)
  PROVE  Walk(verdicts) = Sum(verdicts, Len(verdicts))
<1> DEFINE n == Len(verdicts)
           Follows(w, i) == IF i = 0 THEN "ALLOW" ELSE Combine(w[i - 1], verdicts[i])
           Steps(w) == w = [i \in 0..n |-> Follows(w, i)]
           sum == [i \in 0..n |-> Sum(verdicts, i)]
           walk == CHOOSE w : Steps(w)
<1>1. n \in Nat
  BY LenProperties
<1>2. Steps(sum)
  <2>1. ASSUME NEW i \in 0..n PROVE sum[i] = Follows(sum, i)
    <3>1. CASE i = 0
      <4>1. 1..0 = {}
        OBVIOUS
      <4> QED
        BY <3>1, <4>1 DEF Sum
    <3>2. CASE i # 0
      <4>1. i \in 1..n /\ i - 1 \in 0..n
        BY <1>1, <3>2
      <4> QED
        BY <3>2, <4>1, SumCombines
    <3> QED
      BY <3>1, <3>2
  <2> QED
    BY <2>1
<1>3. Steps(walk)
  <2> HIDE DEF sum
  <2> QED
    BY <1>2
<1>4. Walk(verdicts) = walk[n]
  BY DEF Walk
<1> HIDE DEF walk, sum
<1>5. \A i \in 0..n : walk[i] = Sum(verdicts, i)
  <2> DEFINE Odd == {i \in 0..n : walk[i] # Sum(verdicts, i)}
  <2> SUFFICES ASSUME Odd # {} PROVE FALSE
    OBVIOUS
  <2>1. Odd \subseteq Nat
    BY <1>1
  <2> HIDE DEF Odd
  <2>2. PICK i \in Odd : \A j \in Odd : i <= j
    BY <2>1, LeastNumber
  <2> USE DEF Odd
  <2>3. i \in 0..n /\ walk[i] # Sum(verdicts, i)
    BY <2>2
  <2>4. CASE i = 0
    <3>1. 1..0 = {} /\ walk[0] = "ALLOW"
      BY <1>3, <2>3, <2>4
    <3> QED
      BY <2>3, <2>4, <3>1 DEF Sum
  <2>5. CASE i # 0
    <3>1. i \in 1..n /\ i - 1 \in 0..n /\ ~(i <= i - 1)
      BY <1>1, <2>3, <2>5
    <3>2. walk[i - 1] = Sum(verdicts, i - 1)
      BY <2>2, <3>1
    <3>3. walk[i] = Combine(walk[i - 1], verdicts[i])
      BY <1>3, <2>3, <2>5
    <3> QED
      BY <2>3, <3>1, <3>2, <3>3, SumCombines
  <2> QED
    BY <2>4, <2>5
<1> QED
  BY <1>1, <1>4, <1>5

-----------------------------------------------------------------------------
\* The policy modules.


\* One window: at are the times of the actions let through, the last k of them
\* inside the window that opened at start.
InWindow(w) == IF w.count <= PerWindow THEN w.count ELSE PerWindow
Spaced(w, at, t) ==
  LET L == Len(at) k == InWindow(w) IN
  /\ w.windowStart <= t /\ k <= L
  /\ \A i \in 1..L : at[i] <= t
  /\ \A i \in 1..L : i <= L - k + 1 => at[i] <= w.windowStart
  /\ w.windowStart # 0 =>
       \A i \in 1..L : i <= L - k - PerWindow + 1 => at[i] + WindowSeconds <= w.windowStart
  /\ w.windowStart = 0 => L = 0
  /\ \A i, j \in 1..L : j = i + (2 * PerWindow - 1) => at[j] >= at[i] + WindowSeconds

ModulesInv ==
  /\ ModulesTypeOK
  /\ \A m \in RateModule, n \in Agent : Spaced(windows[m][n], passed[m][n], now)

WindowType == [windowStart : Nat, count : Nat]

LEMMA Limits ==
  /\ PerWindow \in Nat /\ PerWindow >= 1 /\ WindowSeconds \in Nat /\ Margin \in Nat
  /\ MaxTime \in Nat /\ MaxTime >= 1 /\ Cap \subseteq Nat
  BY PolicyAssumption DEF PerWindow

\* An open window has its first action.
LEMMA ZeroIsOne ==
  ASSUME NEW count \in Nat \ {0}
  PROVE  count >= MaxActions <=> count >= PerWindow
  BY PolicyAssumption DEF PerWindow

LEMMA SpacedLater ==
  ASSUME NEW w \in WindowType, NEW at \in Seq(Nat), NEW t \in Nat, NEW u \in Nat, t <= u,
         Spaced(w, at, t)
  PROVE  Spaced(w, at, u)
<1>1. Len(at) \in Nat /\ w.windowStart \in Nat /\ \A i \in 1..Len(at) : at[i] \in Nat
  BY LenProperties, ElementOfSeq DEF WindowType
<1> QED
  BY <1>1 DEF Spaced

\* The times with one more at their end.
LEMMA OneMoreTime ==
  ASSUME NEW at \in Seq(Nat), NEW t \in Nat
  PROVE  /\ Len(at) \in Nat /\ Append(at, t) \in Seq(Nat)
         /\ Len(Append(at, t)) = Len(at) + 1
         /\ \A i \in 1..Len(at) : at[i] \in Nat /\ Append(at, t)[i] = at[i]
         /\ Append(at, t)[Len(at) + 1] = t
  BY LenProperties, AppendProperties, ElementOfSeq

\* The first action of a window.
LEMMA SpacedFirst ==
  ASSUME NEW w \in WindowType, NEW at \in Seq(Nat), NEW t \in Nat, t # 0, Spaced(w, at, t),
         w.windowStart = 0 \/ t >= w.windowStart + WindowSeconds
  PROVE  Spaced([windowStart |-> t, count |-> 1], Append(at, t), t)
<1> DEFINE L == Len(at)
           M == PerWindow
           W == WindowSeconds
           k == InWindow(w)
           s == w.windowStart
           one == [windowStart |-> t, count |-> 1]
           more == Append(at, t)
<1>1. /\ L \in Nat /\ Len(more) = L + 1 /\ more[L + 1] = t
      /\ \A i \in 1..L : at[i] \in Nat /\ more[i] = at[i]
  BY OneMoreTime
<1>2. M \in Nat /\ M >= 1 /\ W \in Nat
  BY Limits
<1>3. s \in Nat /\ k \in Nat /\ k <= M
  BY <1>2 DEF InWindow, WindowType
<1>4. /\ s <= t /\ k <= L
      /\ \A i \in 1..L : at[i] <= t
      /\ \A i \in 1..L : i <= L - k + 1 => at[i] <= s
      /\ s = 0 => L = 0
      /\ \A i, j \in 1..L : j = i + (2 * M - 1) => at[j] >= at[i] + W
  BY DEF Spaced
<1>5. InWindow(one) = 1 /\ one.windowStart = t
  BY <1>2 DEF InWindow
<1> HIDE DEF L, M, W, k, s, one, more
<1>6. \A i \in 1..L + 1 : more[i] <= t
  BY <1>1, <1>4
<1>7. \A i \in 1..L : i <= L - M + 1 => at[i] + W <= t
  <2> SUFFICES ASSUME NEW i \in 1..L, i <= L - M + 1 PROVE at[i] + W <= t
    OBVIOUS
  <2>1. s # 0 /\ t >= s + W
    BY <1>1, <1>4 DEF s, W
  <2>2. i <= L - k + 1
    BY <1>1, <1>2, <1>3
  <2>3. at[i] <= s /\ at[i] \in Nat
    BY <1>1, <1>4, <2>2
  <2> QED
    BY <1>2, <1>3, <2>1, <2>3
<1>8. \A i \in 1..L + 1 : i <= (L + 1) - 1 - M + 1 => more[i] + W <= t
  <2> SUFFICES ASSUME NEW i \in 1..L + 1, i <= L - M + 1 PROVE more[i] + W <= t
    BY <1>1, <1>2
  <2>1. i \in 1..L
    BY <1>1, <1>2
  <2> QED
    BY <1>1, <1>7, <2>1
<1>9. ASSUME NEW i \in 1..L + 1, NEW j \in 1..L + 1, j = i + (2 * M - 1)
      PROVE  more[j] >= more[i] + W
  <2>1. CASE j \in 1..L
    <3>1. i \in 1..L
      BY <1>1, <1>2, <1>9, <2>1
    <3> QED
      BY <1>1, <1>4, <1>9, <2>1, <3>1
  <2>2. CASE j = L + 1
    <3>1. i \in 1..L /\ i <= L - M + 1
      BY <1>1, <1>2, <1>9, <2>2
    <3> QED
      BY <1>1, <1>7, <2>2, <3>1
  <2> QED
    BY <1>1, <2>1, <2>2
<1> QED
  BY <1>1, <1>2, <1>5, <1>6, <1>8, <1>9 DEF Spaced, M, W, one, more

\* One more in a window that is open and not full.
LEMMA SpacedMore ==
  ASSUME NEW w \in WindowType, NEW at \in Seq(Nat), NEW t \in Nat, Spaced(w, at, t),
         w.windowStart # 0, w.count # 0, w.count < PerWindow,
         NEW v \in WindowType, v.windowStart = w.windowStart, v.count = w.count + 1
  PROVE  Spaced(v, Append(at, t), t)
<1> DEFINE L == Len(at)
           M == PerWindow
           W == WindowSeconds
           k == InWindow(w)
           s == w.windowStart
           more == Append(at, t)
<1>1. /\ L \in Nat /\ Len(more) = L + 1 /\ more[L + 1] = t
      /\ \A i \in 1..L : at[i] \in Nat /\ more[i] = at[i]
  BY OneMoreTime
<1>2. M \in Nat /\ M >= 1 /\ W \in Nat
  BY Limits
<1>3. /\ s \in Nat /\ k \in Nat \ {0} /\ k + 1 <= M /\ s # 0
      /\ InWindow(v) = k + 1 /\ v.windowStart = s
  BY <1>2 DEF InWindow, WindowType
<1>4. /\ s <= t /\ k <= L
      /\ \A i \in 1..L : at[i] <= t
      /\ \A i \in 1..L : i <= L - k + 1 => at[i] <= s
      /\ \A i \in 1..L : i <= L - k - M + 1 => at[i] + W <= s
      /\ \A i, j \in 1..L : j = i + (2 * M - 1) => at[j] >= at[i] + W
  BY DEF Spaced
<1> HIDE DEF L, M, W, k, s, more
<1>5. \A i \in 1..L + 1 : more[i] <= t
  BY <1>1, <1>4
<1>6. \A i \in 1..L + 1 : i <= (L + 1) - (k + 1) + 1 => more[i] <= s
  <2> SUFFICES ASSUME NEW i \in 1..L + 1, i <= L - k + 1 PROVE more[i] <= s
    BY <1>1, <1>3
  <2>1. i \in 1..L
    BY <1>1, <1>3
  <2> QED
    BY <1>1, <1>4, <2>1
<1>7. \A i \in 1..L + 1 : i <= (L + 1) - (k + 1) - M + 1 => more[i] + W <= s
  <2> SUFFICES ASSUME NEW i \in 1..L + 1, i <= L - k - M + 1 PROVE more[i] + W <= s
    BY <1>1, <1>2, <1>3
  <2>1. i \in 1..L
    BY <1>1, <1>2, <1>3
  <2> QED
    BY <1>1, <1>4, <2>1
<1>8. ASSUME NEW i \in 1..L + 1, NEW j \in 1..L + 1, j = i + (2 * M - 1)
      PROVE  more[j] >= more[i] + W
  <2>1. CASE j \in 1..L
    <3>1. i \in 1..L
      BY <1>1, <1>2, <1>8, <2>1
    <3> QED
      BY <1>1, <1>4, <1>8, <2>1, <3>1
  <2>2. CASE j = L + 1
    <3>1. i \in 1..L + 1 /\ i <= (L + 1) - (k + 1) - M + 1
      BY <1>1, <1>2, <1>3, <1>8, <2>2
    <3>2. more[i] + W <= s
      BY <1>7, <3>1
    <3>3. i \in 1..L
      BY <1>1, <1>2, <1>3, <3>1
    <3> QED
      BY <1>1, <1>2, <1>3, <1>4, <2>2, <3>2, <3>3
  <2> QED
    BY <1>1, <2>1, <2>2
<1>9. s <= t /\ k + 1 <= L + 1 /\ ~(s = 0)
  BY <1>1, <1>3, <1>4
<1>10. Len(more) = L + 1 /\ InWindow(v) = k + 1 /\ v.windowStart = s
  BY <1>1, <1>3
<1>11. Spaced(v, more, t)
  BY <1>5, <1>6, <1>7, <1>8, <1>9, <1>10 DEF Spaced, M, W
<1> QED
  BY <1>11 DEF more

\* An escalated one is counted and passes nothing.
LEMMA SpacedFull ==
  ASSUME NEW w \in WindowType, NEW at \in Seq(Nat), NEW t \in Nat, Spaced(w, at, t),
         w.count >= PerWindow,
         NEW v \in WindowType, v.windowStart = w.windowStart, v.count = w.count + 1
  PROVE  Spaced(v, at, t)
<1>1. InWindow(v) = InWindow(w)
  BY Limits DEF InWindow, WindowType
<1> QED
  BY <1>1 DEF Spaced

\* A state of the rate windows in which one agent's window has moved on.
LEMMA InvTypes ==
  ASSUME ModulesInv, NEW m \in RateModule, NEW n \in Agent
  PROVE  /\ now \in Nat /\ now \in 1..MaxTime
         /\ windows[m][n] \in [windowStart : 0..MaxTime, count : Nat]
         /\ windows[m][n] \in WindowType
         /\ passed[m][n] \in Seq(1..MaxTime) /\ passed[m][n] \in Seq(Nat)
         /\ windows[m][n].count = 0 <=> windows[m][n].windowStart = 0
         /\ Spaced(windows[m][n], passed[m][n], now)
<1>1. now \in 1..MaxTime /\ MaxTime \in Nat
  <2>1. now \in 1..MaxTime
    BY DEF ModulesInv, ModulesTypeOK
  <2> QED
    BY <2>1, Limits
<1>2. windows[m][n] \in [windowStart : 0..MaxTime, count : Nat]
  BY DEF ModulesInv, ModulesTypeOK
<1>3. windows[m][n] \in WindowType
  BY <1>1, <1>2 DEF WindowType
<1>4. passed[m][n] \in Seq(1..MaxTime)
  BY DEF ModulesInv, ModulesTypeOK
<1>5. passed[m][n] \in Seq(Nat)
  <2>1. 1..MaxTime \subseteq Nat
    BY <1>1
  <2> QED
    BY <1>4, <2>1, SeqMonotonic
<1>6. /\ windows[m][n].count = 0 <=> windows[m][n].windowStart = 0
      /\ Spaced(windows[m][n], passed[m][n], now)
  BY DEF ModulesInv, ModulesTypeOK
<1> QED
  BY <1>1, <1>2, <1>3, <1>4, <1>5, <1>6

LEMMA ModulesStart ==
  ASSUME ModulesInit
  PROVE  ModulesInv
<1>1. ModulesTypeOK
  BY Limits, EmptySeq DEF ModulesInit, ModulesTypeOK
<1>2. ASSUME NEW m \in RateModule, NEW n \in Agent
      PROVE  Spaced(windows[m][n], passed[m][n], now)
  <2>1. /\ windows[m][n] = [windowStart |-> 0, count |-> 0]
        /\ passed[m][n] = <<>> /\ now = 1 /\ Len(<<>>) = 0
    BY EmptySeq DEF ModulesInit
  <2>2. 1..0 = {}
    OBVIOUS
  <2> QED
    BY <2>1, <2>2, Limits DEF Spaced, InWindow
<1> QED
  BY <1>1, <1>2 DEF ModulesInv

\* A step that leaves the windows alone.
LEMMA WindowsRest ==
  ASSUME ModulesInv, ModulesTypeOK', UNCHANGED <<windows, passed>>, now' >= now
  PROVE  ModulesInv'
<1>1. now' \in Nat /\ now \in Nat /\ now <= now'
  <2>1. now \in 1..MaxTime /\ now' \in 1..MaxTime
    BY DEF ModulesInv, ModulesTypeOK
  <2> QED
    BY <2>1, Limits
<1>2. ASSUME NEW m \in RateModule, NEW n \in Agent
      PROVE  Spaced(windows[m][n], passed[m][n], now')
  BY <1>1, InvTypes, SpacedLater
<1>3. ModulesTypeOK' /\ windows' = windows /\ passed' = passed
  OBVIOUS
<1> QED
  BY <1>2, <1>3 DEF ModulesInv

\* A record is the first of a window, one more of it, or one past its limit.
LEMMA Counted ==
  ASSUME ModulesInv, NEW m \in RateModule, NEW n \in Agent, NEW sender,
         RecordAction(sender, m, n)
  PROVE  LET w == windows[m][n] IN
         /\ Count(m, n) \in [windowStart : 0..MaxTime, count : Nat]
         /\ Count(m, n) \in WindowType
         /\ Count(m, n).count = 0 <=> Count(m, n).windowStart = 0
         /\ Spaced(Count(m, n), passed'[m][n], now)
         /\ passed'[m][n] \in Seq(1..MaxTime)
<1> DEFINE w == windows[m][n]
           v == [windows[m][n] EXCEPT !.count = @ + 1]
           one == [windowStart |-> now, count |-> 1]
           more == Append(passed[m][n], now)
<1>1. /\ now \in Nat /\ now \in 1..MaxTime /\ w \in WindowType /\ passed[m][n] \in Seq(Nat)
      /\ w \in [windowStart : 0..MaxTime, count : Nat] /\ passed[m][n] \in Seq(1..MaxTime)
      /\ w.count = 0 <=> w.windowStart = 0
      /\ Spaced(w, passed[m][n], now)
  BY InvTypes
<1>2. passed \in [RateModule -> [Agent -> Seq(1..MaxTime)]]
  BY DEF ModulesInv, ModulesTypeOK
<1>3. more \in Seq(1..MaxTime)
  BY <1>1, AppendProperties
<1>4. /\ v \in [windowStart : 0..MaxTime, count : Nat] /\ v \in WindowType
      /\ v.windowStart = w.windowStart /\ v.count = w.count + 1
  <2>1. ASSUME NEW T, NEW u \in [windowStart : T, count : Nat],
               NEW z, z = [u EXCEPT !.count = u.count + 1]
        PROVE  /\ z \in [windowStart : T, count : Nat]
               /\ z.windowStart = u.windowStart /\ z.count = u.count + 1
    BY <2>1
  <2>2. w \in [windowStart : Nat, count : Nat]
    BY <1>1 DEF WindowType
  <2>3. v = [w EXCEPT !.count = w.count + 1]
    OBVIOUS
  <2> HIDE DEF v, w
  <2> QED
    BY <1>1, <2>1, <2>2, <2>3 DEF WindowType
<1>5. /\ one \in [windowStart : 0..MaxTime, count : Nat] /\ one \in WindowType
      /\ one.windowStart # 0 /\ one.count # 0
  BY <1>1, Limits DEF WindowType
<1>6. CASE Elapsed(m, n)
  <2>1. Count(m, n) = one
    BY <1>6 DEF Count
  <2>2. passed'[m][n] = more
    BY <1>2, <1>6 DEF RecordAction
  <2>3. Spaced(one, more, now)
    <3>1. w.windowStart = 0 \/ now >= w.windowStart + WindowSeconds
      BY <1>6 DEF Elapsed, ElapsedAt
    <3>2. now # 0
      BY <1>1
    <3> QED
      BY <1>1, <3>1, <3>2, SpacedFirst
  <2> QED
    BY <1>3, <1>5, <2>1, <2>2, <2>3
<1>7. CASE ~Elapsed(m, n)
  <2>1. Count(m, n) = v /\ w.windowStart # 0
    BY <1>7 DEF Count, Elapsed, ElapsedAt
  <2>2. CASE w.count < PerWindow
    <3>1. passed'[m][n] = more
      <4>1. ~(w.count >= PerWindow) /\ w.count \in Nat \ {0}
        BY <1>1, <2>1, <2>2, Limits DEF WindowType
      <4> QED
        BY <1>2, <4>1, ZeroIsOne DEF RecordAction
    <3>2. Spaced(v, more, now)
      BY <1>1, <1>4, <2>1, <2>2, SpacedMore
    <3> QED
      BY <1>1, <1>3, <1>4, <2>1, <3>1, <3>2 DEF WindowType
  <2>3. CASE ~(w.count < PerWindow)
    <3>1. w.count >= PerWindow
      BY <1>1, <2>3, Limits DEF WindowType
    <3>2. passed' = passed
      <4>1. w.count \in Nat \ {0}
        BY <1>1, <2>1 DEF WindowType
      <4> QED
        BY <1>7, <3>1, <4>1, ZeroIsOne DEF RecordAction
    <3>3. Spaced(v, passed[m][n], now)
      BY <1>1, <1>4, <3>1, SpacedFull
    <3> QED
      BY <1>1, <1>4, <2>1, <3>2, <3>3 DEF WindowType
  <2> QED
    BY <2>2, <2>3
<1> QED
  BY <1>6, <1>7

LEMMA RecordKeeps ==
  ASSUME ModulesInv, NEW m \in RateModule, NEW n \in Agent, NEW sender,
         RecordAction(sender, m, n)
  PROVE  ModulesInv'
<1> DEFINE v == Count(m, n)
<1>1. /\ windows \in [RateModule -> [Agent -> [windowStart : 0..MaxTime, count : Nat]]]
      /\ passed \in [RateModule -> [Agent -> Seq(1..MaxTime)]]
      /\ \A l \in RateModule, a \in Agent :
           windows[l][a].count = 0 <=> windows[l][a].windowStart = 0
  BY DEF ModulesInv, ModulesTypeOK
<1>2. /\ v \in [windowStart : 0..MaxTime, count : Nat]
      /\ v.count = 0 <=> v.windowStart = 0
      /\ Spaced(v, passed'[m][n], now) /\ passed'[m][n] \in Seq(1..MaxTime)
  BY Counted
<1>3. now' = now /\ windows' = [windows EXCEPT ![m][n] = v]
  BY DEF RecordAction
<1> HIDE DEF v
<1>4. /\ windows'[m][n] = v
      /\ \A l \in RateModule, a \in Agent : l # m \/ a # n =>
           windows'[l][a] = windows[l][a] /\ passed'[l][a] = passed[l][a]
  <2>1. \A l \in RateModule, a \in Agent : l # m \/ a # n => windows'[l][a] = windows[l][a]
    BY <1>1, <1>3
  <2>2. \A l \in RateModule, a \in Agent : l # m \/ a # n => passed'[l][a] = passed[l][a]
    BY <1>1 DEF RecordAction
  <2>3. windows'[m][n] = v
    BY <1>1, <1>3
  <2> QED
    BY <2>1, <2>2, <2>3
<1>5. windows' \in [RateModule -> [Agent -> [windowStart : 0..MaxTime, count : Nat]]]
  BY <1>1, <1>2, <1>3
<1>6. passed' \in [RateModule -> [Agent -> Seq(1..MaxTime)]]
  <2>1. passed' = passed \/ passed' = [passed EXCEPT ![m][n] = Append(@, now)]
    BY DEF RecordAction
  <2>2. CASE passed' = passed
    BY <1>1, <2>2
  <2>3. CASE passed' = [passed EXCEPT ![m][n] = Append(@, now)]
    <3>1. Append(passed[m][n], now) \in Seq(1..MaxTime)
      BY InvTypes, AppendProperties
    <3> QED
      BY <1>1, <2>3, <3>1
  <2> QED
    BY <2>1, <2>2, <2>3
<1>7. ASSUME NEW l \in RateModule, NEW a \in Agent
      PROVE  /\ windows'[l][a].count = 0 <=> windows'[l][a].windowStart = 0
             /\ Spaced(windows'[l][a], passed'[l][a], now)
  <2>1. CASE l = m /\ a = n
    BY <1>2, <1>4, <2>1
  <2>2. CASE l # m \/ a # n
    <3>1. windows'[l][a] = windows[l][a] /\ passed'[l][a] = passed[l][a]
      BY <1>4, <2>2
    <3>2. Spaced(windows[l][a], passed[l][a], now)
      BY InvTypes
    <3> QED
      BY <1>1, <3>1, <3>2
  <2> QED
    BY <2>1, <2>2
<1>8. ModulesTypeOK'
  <2>1. /\ governorOf' \in [Governed -> {Governor, NoOne}] /\ defaultCap' \in Cap
        /\ agentCap' \in [Agent -> {<<>>} \cup {<<c>> : c \in Cap}]
        /\ allowed' \subseteq Target /\ recorder' \in [RateModule -> {Recorder, NoOne}]
        /\ now' \in 1..MaxTime
    BY DEF ModulesInv, ModulesTypeOK, RecordAction
  <2> QED
    BY <1>5, <1>6, <1>7, <2>1 DEF ModulesTypeOK
<1> QED
  BY <1>3, <1>7, <1>8 DEF ModulesInv

LEMMA ModulesKeep ==
  ASSUME ModulesInv, [ModulesNext]_modulesVars
  PROVE  ModulesInv'
<1>t. ModulesTypeOK /\ now \in Nat
  <2>1. ModulesTypeOK
    BY DEF ModulesInv
  <2>2. now \in 1..MaxTime
    BY <2>1 DEF ModulesTypeOK
  <2> QED
    BY <2>1, <2>2, Limits
<1>1. ASSUME NEW sender, NEW g \in Governed, SetGovernorOf(sender, g) PROVE ModulesInv'
  <2>1. ModulesTypeOK'
    BY <1>t, <1>1 DEF SetGovernorOf, ModulesTypeOK
  <2> QED
    BY <1>t, <1>1, <2>1, WindowsRest DEF SetGovernorOf
<1>2. ASSUME NEW sender, NEW n \in Agent, NEW c \in Cap, SetAgentCap(sender, n, c)
      PROVE  ModulesInv'
  <2>1. ModulesTypeOK'
    BY <1>t, <1>2 DEF SetAgentCap, ModulesTypeOK
  <2> QED
    BY <1>t, <1>2, <2>1, WindowsRest DEF SetAgentCap
<1>3. ASSUME NEW sender, NEW target \in Target, NEW yes, SetAllowed(sender, target, yes)
      PROVE  ModulesInv'
  <2>1. ModulesTypeOK'
    BY <1>t, <1>3 DEF SetAllowed, ModulesTypeOK
  <2> QED
    BY <1>t, <1>3, <2>1, WindowsRest DEF SetAllowed
<1>4. ASSUME NEW sender, NEW m \in RateModule, SetRecorder(sender, m) PROVE ModulesInv'
  <2>1. ModulesTypeOK'
    BY <1>t, <1>4 DEF SetRecorder, ModulesTypeOK
  <2> QED
    BY <1>t, <1>4, <2>1, WindowsRest DEF SetRecorder
<1>5. ASSUME NEW sender, NEW m \in RateModule, NEW n \in Agent, RecordAction(sender, m, n)
      PROVE  ModulesInv'
  BY <1>5, RecordKeeps
<1>6. ASSUME Tick PROVE ModulesInv'
  <2>1. ModulesTypeOK' /\ now' >= now
    BY <1>t, <1>6, Limits DEF Tick, ModulesTypeOK
  <2> QED
    BY <1>6, <2>1, WindowsRest DEF Tick
<1>7. ASSUME UNCHANGED modulesVars PROVE ModulesInv'
  <2>1. ModulesTypeOK'
    BY <1>t, <1>7 DEF modulesVars, ModulesTypeOK
  <2> QED
    BY <1>t, <1>7, <2>1, WindowsRest DEF modulesVars
<1> QED
  BY <1>1, <1>2, <1>3, <1>4, <1>5, <1>6, <1>7 DEF ModulesNext

LEMMA ModulesAlways == ModulesSpec => []ModulesInv
<1>1. ModulesInit => ModulesInv
  BY ModulesStart
<1>2. ModulesInv /\ [ModulesNext]_modulesVars => ModulesInv'
  BY ModulesKeep
<1> QED
  BY <1>1, <1>2, PTL DEF ModulesSpec

\* RateLimitPolicy.recordAction: whatever the limit and the window, and however
\* the actions of an agent are spread, no windowSeconds hold as many as twice
\* maxActions of them (two, if that is zero): a burst at the end of one window and the start of the
\* next is all the fixed windows let through.
THEOREM TwoWindowsAtMost == ModulesSpec => []AtMostTwoWindows
<1>1. ModulesInv => AtMostTwoWindows
  <2> SUFFICES ASSUME ModulesInv, NEW m \in RateModule, NEW n \in Agent,
                      NEW i \in DOMAIN passed[m][n],
                      i + (2 * PerWindow - 1) \in DOMAIN passed[m][n]
               PROVE  passed[m][n][i + (2 * PerWindow - 1)]
                        >= passed[m][n][i] + WindowSeconds
    BY DEF AtMostTwoWindows, AtMost
  <2>1. passed[m][n] \in Seq(Nat) /\ Spaced(windows[m][n], passed[m][n], now)
    BY InvTypes
  <2>2. DOMAIN passed[m][n] = 1..Len(passed[m][n])
    BY <2>1, LenProperties
  <2> QED
    BY <2>1, <2>2 DEF Spaced
<1> QED
  BY <1>1, ModulesAlways, PTL

\* What the router sees of a rate module's count.
Shown(m, n) ==
  IF Elapsed(m, n) THEN 0
  ELSE IF windows[m][n].count > PerWindow THEN PerWindow ELSE windows[m][n].count
ShownCounts == [m \in RateModule |-> [n \in Agent |-> Shown(m, n)]]
ShownCaps == [n \in Agent |-> CapOf(n)]

LEMMA ViewStart ==
  ASSUME ModulesInit
  PROVE  View!PolicyInit
<1>1. ShownCaps = [n \in Agent |-> defaultCap] /\ defaultCap \in Cap
  BY DEF ModulesInit, CapOf, ShownCaps
<1>2. ShownCounts = [m \in RateModule |-> [n \in Agent |-> 0]]
  <2>1. \A m \in RateModule, n \in Agent : Shown(m, n) = 0
    BY DEF ModulesInit, Shown, Elapsed, ElapsedAt
  <2> QED
    BY <2>1 DEF ShownCounts
<1>3. InsideDayAt(now) \in BOOLEAN
  BY DEF InsideDayAt
<1>4. allowed = {}
  BY DEF ModulesInit
<1> QED
  BY <1>1, <1>2, <1>3, <1>4 DEF View!PolicyInit, ShownCaps, ShownCounts, Shown

\* A record counts one more, up to the limit; windows of no length show nothing.
LEMMA RecordShows ==
  ASSUME ModulesInv, NEW m \in RateModule, NEW n \in Agent, NEW sender,
         RecordAction(sender, m, n)
  PROVE  \/ ShownCounts' = ShownCounts
         \/ ShownCounts' = [ShownCounts EXCEPT ![m][n] = IF @ < PerWindow THEN @ + 1 ELSE @]
<1> DEFINE w == windows[m][n]
           Grown(k) == IF k < PerWindow THEN k + 1 ELSE k
<1>1. /\ now \in Nat \ {0} /\ WindowSeconds \in Nat /\ PerWindow \in Nat \ {0}
      /\ windows \in [RateModule -> [Agent -> [windowStart : 0..MaxTime, count : Nat]]]
      /\ windows' = [windows EXCEPT ![m][n] = Count(m, n)] /\ now' = now
  <2>1. /\ now \in 1..MaxTime
        /\ windows \in [RateModule -> [Agent -> [windowStart : 0..MaxTime, count : Nat]]]
    BY DEF ModulesInv, ModulesTypeOK
  <2>2. windows' = [windows EXCEPT ![m][n] = Count(m, n)] /\ now' = now
    BY DEF RecordAction
  <2> QED
    BY <2>1, <2>2, Limits
<1>2. \A l \in RateModule, a \in Agent : l # m \/ a # n => Shown(l, a)' = Shown(l, a)
  BY <1>1 DEF Shown, Elapsed, ElapsedAt
<1>3. windows'[m][n] = Count(m, n) /\ w.windowStart \in Nat /\ w.count \in Nat
  <2>1. w \in WindowType
    BY InvTypes
  <2> QED
    BY <1>1, <2>1 DEF WindowType
<1>4. CASE WindowSeconds = 0
  <2>1. ASSUME NEW l \in RateModule, NEW a \in Agent PROVE Elapsed(l, a)
    <3>1. Spaced(windows[l][a], passed[l][a], now) /\ windows[l][a] \in WindowType
      BY InvTypes
    <3> QED
      BY <1>1, <1>4, <3>1 DEF Spaced, Elapsed, ElapsedAt, WindowType
  <2>2. ASSUME NEW l \in RateModule, NEW a \in Agent PROVE Elapsed(l, a)'
    <3>1. ModulesInv'
      BY RecordKeeps
    <3>2. Spaced(windows'[l][a], passed'[l][a], now')
      BY <3>1 DEF ModulesInv
    <3>3. windows'[l][a] \in [windowStart : 0..MaxTime, count : Nat]
      BY <3>1 DEF ModulesInv, ModulesTypeOK
    <3>4. windows'[l][a].windowStart \in Nat
      BY <3>3, Limits
    <3> QED
      BY <1>1, <1>4, <3>2, <3>4 DEF Spaced, Elapsed, ElapsedAt
  <2>3. \A l \in RateModule, a \in Agent : Shown(l, a) = 0 /\ Shown(l, a)' = 0
    BY <2>1, <2>2 DEF Shown
  <2> QED
    BY <2>3 DEF ShownCounts
<1>5. CASE WindowSeconds # 0
  <2>1. Shown(m, n)' = Grown(Shown(m, n))
    <3>1. CASE Elapsed(m, n)
      <4>1. windows'[m][n].windowStart = now /\ windows'[m][n].count = 1
        BY <1>3, <3>1 DEF Count
      <4>2. ~Elapsed(m, n)'
        BY <1>1, <1>5, <4>1 DEF Elapsed, ElapsedAt
      <4>3. Shown(m, n)' = 1 /\ Shown(m, n) = 0
        BY <1>1, <3>1, <4>1, <4>2 DEF Shown
      <4> QED
        BY <1>1, <4>3
    <3>2. CASE ~Elapsed(m, n)
      <4>1. /\ windows'[m][n].windowStart = w.windowStart
            /\ windows'[m][n].count = w.count + 1
        <5>1. Count(m, n) = [w EXCEPT !.count = w.count + 1]
          BY <3>2 DEF Count
        <5>2. w \in [windowStart : 0..MaxTime, count : Nat]
          BY <1>1
        <5> QED
          BY <1>3, <5>1, <5>2
      <4>2. ~Elapsed(m, n)'
        BY <1>1, <3>2, <4>1 DEF Elapsed, ElapsedAt
      <4>3. /\ Shown(m, n)' = IF w.count + 1 > PerWindow THEN PerWindow ELSE w.count + 1
            /\ Shown(m, n) = IF w.count > PerWindow THEN PerWindow ELSE w.count
        BY <3>2, <4>1, <4>2 DEF Shown
      <4>4. \A k \in Nat : (IF k + 1 > PerWindow THEN PerWindow ELSE k + 1)
                             = Grown(IF k > PerWindow THEN PerWindow ELSE k)
        BY <1>1
      <4> HIDE DEF w, Grown
      <4> QED
        BY <1>3, <4>3, <4>4
    <3> QED
      BY <3>1, <3>2
  <2>2. \A l \in RateModule, a \in Agent :
          Shown(l, a)' = IF l = m /\ a = n THEN Grown(Shown(l, a)) ELSE Shown(l, a)
    BY <1>2, <2>1
  <2>3. ShownCounts' = [ShownCounts EXCEPT ![m][n] = IF @ < PerWindow THEN @ + 1 ELSE @]
    BY <2>2 DEF ShownCounts
  <2> QED
    BY <2>3
<1> QED
  BY <1>4, <1>5

\* As time passes, a window only ever lapses.
LEMMA TickShows ==
  ASSUME ModulesInv, Tick
  PROVE  \E gone \in SUBSET (RateModule \X Agent) :
           ShownCounts' = [m \in RateModule |-> [n \in Agent |->
                            IF <<m, n>> \in gone THEN 0 ELSE ShownCounts[m][n]]]
<1> DEFINE gone == {p \in RateModule \X Agent : Elapsed(p[1], p[2])'}
<1>1. ASSUME NEW m \in RateModule, NEW n \in Agent
      PROVE  Shown(m, n)' = IF <<m, n>> \in gone THEN 0 ELSE Shown(m, n)
  <2>1. <<m, n>> \in gone <=> Elapsed(m, n)'
    OBVIOUS
  <2>2. Elapsed(m, n) => Elapsed(m, n)'
    <3>1. now \in Nat /\ now' = now + 1 /\ windows' = windows /\ windows[m][n] \in WindowType
      BY InvTypes DEF Tick
    <3> QED
      BY <3>1, Limits DEF Elapsed, ElapsedAt, WindowType
  <2>3. windows' = windows
    BY DEF Tick
  <2> HIDE DEF gone
  <2> QED
    BY <2>1, <2>2, <2>3 DEF Shown
<1>2. gone \in SUBSET (RateModule \X Agent)
  OBVIOUS
<1> HIDE DEF gone
<1>3. ShownCounts' = [m \in RateModule |-> [n \in Agent |->
                       IF <<m, n>> \in gone THEN 0 ELSE ShownCounts[m][n]]]
  BY <1>1 DEF ShownCounts
<1> QED
  BY <1>2, <1>3

LEMMA ViewStep ==
  ASSUME ModulesInv, [ModulesNext]_modulesVars
  PROVE  [View!PolicyNext]_(View!policyState)
<1> DEFINE dayOpen == InsideDayAt(now)
           Still == UNCHANGED <<ShownCaps, allowed, ShownCounts, dayOpen>>
<1>s. Still => UNCHANGED View!policyState
  BY DEF View!policyState, ShownCaps, ShownCounts, Shown
<1>0. agentCap \in [Agent -> {<<>>} \cup {<<c>> : c \in Cap}]
  BY DEF ModulesInv, ModulesTypeOK
<1>1. ASSUME NEW sender, NEW g \in Governed, SetGovernorOf(sender, g) PROVE Still
  BY <1>1 DEF SetGovernorOf, ShownCaps, ShownCounts, Shown, CapOf, Elapsed, ElapsedAt, InsideDayAt
<1>2. ASSUME NEW sender, NEW n \in Agent, NEW c \in Cap, SetAgentCap(sender, n, c)
      PROVE  View!PolicyNext
  <2>1. ShownCaps' = [ShownCaps EXCEPT ![n] = c]
    <3>1. agentCap' = [agentCap EXCEPT ![n] = <<c>>] /\ defaultCap' = defaultCap
      BY <1>2 DEF SetAgentCap
    <3>2. \A a \in Agent : CapOf(a)' = IF a = n THEN c ELSE CapOf(a)
      BY <1>0, <3>1 DEF CapOf
    <3> QED
      BY <3>2 DEF ShownCaps
  <2>2. UNCHANGED <<allowed, ShownCounts, dayOpen>>
    BY <1>2 DEF SetAgentCap, ShownCounts, Shown, Elapsed, ElapsedAt, InsideDayAt
  <2>3. View!SetCap(n, c)
    BY <2>1, <2>2 DEF View!SetCap, ShownCaps, ShownCounts, Shown
  <2> QED
    BY <2>3 DEF View!PolicyNext
<1>3. ASSUME NEW sender, NEW target \in Target, NEW yes \in BOOLEAN,
             SetAllowed(sender, target, yes)
      PROVE  View!PolicyNext
  <2>1. UNCHANGED <<ShownCaps, ShownCounts, dayOpen>>
    BY <1>3 DEF SetAllowed, ShownCaps, ShownCounts, Shown, CapOf, Elapsed, ElapsedAt, InsideDayAt
  <2>2. View!SetAllowed(target, yes)
    BY <1>3, <2>1 DEF SetAllowed, View!SetAllowed, ShownCaps, ShownCounts, Shown
  <2> QED
    BY <2>2 DEF View!PolicyNext
<1>4. ASSUME NEW sender, NEW m \in RateModule, SetRecorder(sender, m) PROVE Still
  BY <1>4 DEF SetRecorder, ShownCaps, ShownCounts, Shown, CapOf, Elapsed, ElapsedAt, InsideDayAt
<1>5. ASSUME NEW sender, NEW m \in RateModule, NEW n \in Agent, RecordAction(sender, m, n)
      PROVE  View!PolicyNext \/ Still
  <2>1. UNCHANGED <<ShownCaps, allowed, dayOpen>>
    BY <1>5 DEF RecordAction, ShownCaps, CapOf, InsideDayAt
  <2>2. CASE ShownCounts' = ShownCounts
    BY <2>1, <2>2
  <2>3. CASE ShownCounts' = [ShownCounts EXCEPT ![m][n] = IF @ < PerWindow THEN @ + 1 ELSE @]
    <3>1. View!Record(m, n)
      BY <2>1, <2>3 DEF View!Record, View!Counted, ShownCaps, ShownCounts, Shown
    <3> QED
      BY <3>1 DEF View!PolicyNext
  <2> QED
    BY <1>5, <2>2, <2>3, RecordShows
<1>6. ASSUME Tick PROVE View!PolicyNext
  <2>1. PICK gone \in SUBSET (RateModule \X Agent) :
          ShownCounts' = [m \in RateModule |-> [n \in Agent |->
                           IF <<m, n>> \in gone THEN 0 ELSE ShownCounts[m][n]]]
    BY <1>6, TickShows
  <2>2. UNCHANGED <<ShownCaps, allowed>>
    BY <1>6 DEF Tick, ShownCaps, CapOf
  <2>3. PICK open \in BOOLEAN : open = dayOpen'
    <3>1. dayOpen' \in BOOLEAN
      BY DEF InsideDayAt
    <3> HIDE DEF dayOpen
    <3> QED
      BY <3>1
  <2>4. View!Pass(gone, open)
    BY <2>1, <2>2, <2>3 DEF View!Pass, ShownCaps, ShownCounts, Shown
  <2> QED
    BY <2>4 DEF View!PolicyNext
<1>7. ASSUME UNCHANGED modulesVars PROVE Still
  BY <1>7 DEF modulesVars, ShownCaps, ShownCounts, Shown, CapOf, Elapsed, ElapsedAt, InsideDayAt
<1> QED
  BY <1>s, <1>1, <1>2, <1>3, <1>4, <1>5, <1>6, <1>7 DEF ModulesNext

\* Every step of the deployed modules and of their clock is a step of PolicyView
\* or shows nothing: what is proved of the router against PolicyView holds of it
\* beside these modules.
THEOREM ModulesImplementView == ModulesSpec => KeepsView
<1>1. ModulesInit => View!PolicyInit
  BY ViewStart
<1>2. ModulesInv /\ [ModulesNext]_modulesVars => [View!PolicyNext]_(View!policyState)
  BY ViewStep
<1> QED
  BY <1>1, <1>2, ModulesAlways, PTL DEF ModulesSpec, KeepsView, View!PolicySpec

LEMMA CheckIsVerdict ==
  ASSUME NEW m \in Module, NEW n, NEW target, NEW value, NEW t
  PROVE  CheckAt(m, n, target, value, t) \in Verdict
  BY PolicyAssumption DEF CheckAt, SpendCapCheck, WhitelistCheck, TimeWindowCheck, RateLimitCheck,
                          Verdict, Module, Governed

\* The verdict of a stack, of any length, from the verdicts of its modules.
LEMMA StackSums ==
  ASSUME NEW s \in Seq(Module), NEW n, NEW target, NEW value, NEW t
  PROVE  LET verdict == CheckStackAt(s, n, target, value, t)
             Says(v) == \E i \in 1..Len(s) : CheckAt(s[i], n, target, value, t) = v
         IN  /\ verdict \in Verdict
             /\ verdict = "DENY" <=> Says("DENY")
             /\ verdict = "ALLOW" <=> ~Says("DENY") /\ ~Says("ESCALATE")
<1> DEFINE verdicts == [i \in DOMAIN s |-> CheckAt(s[i], n, target, value, t)]
<1>1. Len(s) \in Nat /\ DOMAIN s = 1..Len(s) /\ \A i \in 1..Len(s) : s[i] \in Module
  BY LenProperties, ElementOfSeq
<1>2. verdicts \in [1..Len(s) -> Verdict]
  BY <1>1, CheckIsVerdict
<1>3. verdicts \in Seq(Verdict) /\ Len(verdicts) = Len(s)
  BY <1>1, <1>2
<1>4. CheckStackAt(s, n, target, value, t) = Sum(verdicts, Len(s))
  <2>1. CheckStackAt(s, n, target, value, t) = Walk(verdicts)
    BY DEF CheckStackAt
  <2> HIDE DEF verdicts
  <2> QED
    BY <1>3, <2>1, WalkSums
<1>5. \A i \in 1..Len(s) : verdicts[i] = CheckAt(s[i], n, target, value, t)
  BY <1>1
<1> HIDE DEF verdicts
<1> QED
  BY <1>4, <1>5 DEF Sum, Verdict

\* What the router sees of a module is what the module says now.
LEMMA ViewVerdict ==
  ASSUME ModulesInv, NEW m \in Module, NEW n \in Agent, NEW target, NEW value
  PROVE  CheckAt(m, n, target, value, now) = View!ModuleVerdict(m, n, target, value)
<1>1. CASE m = "spendCap"
  BY <1>1, PolicyAssumption DEF CheckAt, SpendCapCheck, View!ModuleVerdict
<1>2. CASE m = "whitelist"
  BY <1>2, PolicyAssumption DEF CheckAt, WhitelistCheck, View!ModuleVerdict
<1>3. CASE m = "timeWindow"
  BY <1>3, PolicyAssumption DEF CheckAt, TimeWindowCheck, View!ModuleVerdict
<1>4. CASE m \in RateModule
  <2>1. m # "spendCap" /\ m # "whitelist" /\ m # "timeWindow"
    BY <1>4, PolicyAssumption
  <2>2. CheckAt(m, n, target, value, now)
          = IF ~Elapsed(m, n) /\ windows[m][n].count >= MaxActions THEN "ESCALATE" ELSE "ALLOW"
    BY <1>4, <2>1 DEF CheckAt, RateLimitCheck, Elapsed
  <2>3. View!ModuleVerdict(m, n, target, value)
          = IF Shown(m, n) >= PerWindow THEN "ESCALATE" ELSE "ALLOW"
    BY <1>4, <2>1 DEF View!ModuleVerdict, Shown
  <2>4. windows[m][n].count \in Nat /\ (~Elapsed(m, n) => windows[m][n].count # 0)
    <3>1. windows[m][n].count = 0 => windows[m][n].windowStart = 0
      BY <1>4 DEF ModulesInv, ModulesTypeOK
    <3> QED
      BY <1>4, <3>1, InvTypes DEF WindowType, Elapsed, ElapsedAt
  <2>5. Shown(m, n) >= PerWindow <=> ~Elapsed(m, n) /\ windows[m][n].count >= PerWindow
    BY <2>4, Limits DEF Shown
  <2>6. ~Elapsed(m, n) => (windows[m][n].count >= MaxActions <=> windows[m][n].count >= PerWindow)
    BY <2>4, ZeroIsOne
  <2> QED
    BY <2>2, <2>3, <2>5, <2>6
<1> QED
  BY <1>1, <1>2, <1>3, <1>4 DEF Module, Governed

LEMMA StackNarrows ==
  ASSUME ModulesInv, NEW s \in Seq(Module)
  PROVE  Narrows(s)
<1> SUFFICES ASSUME NEW n \in Agent, NEW target \in Target, NEW value \in Cap
    PROVE  /\ CheckStack(s, n, target, value) = View!StackVerdict(Range(s), n, target, value)
           /\ \A i \in DOMAIN s : Leniency[CheckStack(s, n, target, value)]
                <= Leniency[CheckStack(SubSeq(s, 1, i), n, target, value)]
  BY DEF Narrows
<1> DEFINE VerdictOf(i) == CheckAt(s[i], n, target, value, now)
           verdict == CheckStack(s, n, target, value)
<1>1. Len(s) \in Nat /\ DOMAIN s = 1..Len(s) /\ \A i \in 1..Len(s) : s[i] \in Module
  BY LenProperties, ElementOfSeq
<1>2. /\ verdict \in Verdict
      /\ verdict = "DENY" <=> \E i \in 1..Len(s) : VerdictOf(i) = "DENY"
      /\ verdict = "ALLOW" <=> ~\E i \in 1..Len(s) : VerdictOf(i) \in {"DENY", "ESCALATE"}
  BY StackSums DEF CheckStack
<1>3. verdict = View!StackVerdict(Range(s), n, target, value)
  <2>1. Range(s) = {s[i] : i \in 1..Len(s)}
    BY <1>1 DEF Range
  <2>2. {View!ModuleVerdict(m, n, target, value) : m \in Range(s)} = {VerdictOf(i) : i \in 1..Len(s)}
    BY <1>1, <2>1, ViewVerdict
  <2> QED
    BY <1>2, <2>2 DEF View!StackVerdict, Verdict
<1>4. ASSUME NEW i \in DOMAIN s
      PROVE  Leniency[verdict] <= Leniency[CheckStack(SubSeq(s, 1, i), n, target, value)]
  <2> DEFINE some == SubSeq(s, 1, i)
             before == CheckStack(some, n, target, value)
  <2>1. some \in Seq(Module) /\ Len(some) = i /\ i \in Nat /\ \A j \in 1..i : some[j] = s[j]
    BY <1>1, <1>4, SubSeqProperties
  <2> HIDE DEF some
  <2>2. /\ before \in Verdict
        /\ before = "DENY" <=> \E j \in 1..i : CheckAt(some[j], n, target, value, now) = "DENY"
        /\ before = "ALLOW" <=>
             ~\E j \in 1..i : CheckAt(some[j], n, target, value, now) \in {"DENY", "ESCALATE"}
    BY <2>1, StackSums DEF CheckStack
  <2>3. 1..i \subseteq 1..Len(s)
    BY <1>1, <2>1
  <2>4. /\ before = "DENY" => verdict = "DENY"
        /\ verdict = "ALLOW" => before = "ALLOW"
    BY <1>2, <2>1, <2>2, <2>3
  <2> HIDE DEF before, verdict
  <2>5. \A a, b \in Verdict : (b = "DENY" => a = "DENY") /\ (a = "ALLOW" => b = "ALLOW")
                               => Leniency[a] <= Leniency[b]
    BY DEF Verdict, Leniency
  <2>6. Leniency[verdict] <= Leniency[before]
    BY <1>2, <2>2, <2>4, <2>5
  <2> QED
    BY <2>6 DEF some, before
<1> QED
  BY <1>3, <1>4

LEMMA StackEscalates ==
  ASSUME ModulesInv, NEW s \in Seq(Module)
  PROVE  Escalates(s)
<1> SUFFICES ASSUME NEW n \in Agent, NEW target \in Target, NEW value \in Cap,
                    Forced(s, n, value), NEW t \in now..(now + Margin)
             PROVE  CheckStackAt(s, n, target, value, t) # "ALLOW"
  BY DEF Escalates
<1>1. Len(s) \in Nat /\ DOMAIN s = 1..Len(s) /\ \A i \in 1..Len(s) : s[i] \in Module
  BY LenProperties, ElementOfSeq
<1>2. PICK i \in 1..Len(s) :
        \/ s[i] = "spendCap" /\ value > CapOf(n)
        \/ /\ s[i] \in RateModule /\ ~Elapsed(s[i], n) /\ windows[s[i]][n].count >= MaxActions
           /\ windows[s[i]][n].windowStart + WindowSeconds - now > Margin
  BY <1>1 DEF Forced, Range
<1>3. CheckAt(s[i], n, target, value, t) = "ESCALATE"
  <2>1. CASE s[i] = "spendCap" /\ value > CapOf(n)
    <3>1. CapOf(n) \in Nat /\ value \in Nat
      <4>1. CapOf(n) \in Cap
        BY DEF ModulesInv, ModulesTypeOK, CapOf
      <4> QED
        BY <4>1, Limits
    <3> QED
      BY <2>1, <3>1, PolicyAssumption DEF CheckAt, SpendCapCheck
  <2>2. CASE /\ s[i] \in RateModule /\ ~Elapsed(s[i], n)
             /\ windows[s[i]][n].count >= MaxActions
             /\ windows[s[i]][n].windowStart + WindowSeconds - now > Margin
    <3>1. s[i] # "spendCap" /\ s[i] # "whitelist" /\ s[i] # "timeWindow"
      BY <2>2, PolicyAssumption
    <3>2. now \in Nat /\ windows[s[i]][n].windowStart \in Nat
      BY <2>2, InvTypes DEF WindowType
    <3>3. ~ElapsedAt(s[i], n, t)
      BY <2>2, <3>2, Limits DEF Elapsed, ElapsedAt
    <3> QED
      BY <2>2, <3>1, <3>3 DEF CheckAt, RateLimitCheck
  <2> QED
    BY <1>2, <2>1, <2>2
<1> QED
  BY <1>3, StackSums

LEMMA StacksAreSequences == Stacks(3) \subseteq Seq(Module)
<1> SUFFICES ASSUME NEW s \in Stacks(3) PROVE s \in Seq(Module)
  OBVIOUS
<1>1. PICK i \in 1..3 : s \in [1..i -> Module]
  BY DEF Stacks
<1> QED
  BY <1>1

\* PolicyStack.check: a stack of any length gives the verdict its modules give as
\* a set, wherever the walk stops, and is never more lenient than the part of it
\* that came first.
THEOREM LongerStacksNarrow ==
  ModulesSpec => [](AppendingNarrows /\ \A s \in Seq(Module) : Narrows(s))
<1>1. ModulesInv => AppendingNarrows /\ \A s \in Seq(Module) : Narrows(s)
  BY StackNarrows, StacksAreSequences DEF AppendingNarrows
<1> QED
  BY <1>1, ModulesAlways, PTL

\* stackWillEscalate (policyVerdict.ts): whatever the stack, a call it is proved
\* to escalate is not allowed at any moment of the margin that follows.
THEOREM ProofsOfEscalationHold ==
  ModulesSpec => [](ProvedEscalationHolds /\ \A s \in Seq(Module) : Escalates(s))
<1>1. ModulesInv => ProvedEscalationHolds /\ \A s \in Seq(Module) : Escalates(s)
  BY StackEscalates, StacksAreSequences DEF ProvedEscalationHolds
<1> QED
  BY <1>1, ModulesAlways, PTL

-----------------------------------------------------------------------------
\* The marketplace.

MarketInv == TypeOK /\ Solvent

\* Rounded down and below the denominator, the fee is part of the price.
LEMMA FeeOfPrice ==
  ASSUME TypeOK, NEW price \in Nat
  PROVE  Fee(price) \in Nat /\ Fee(price) <= price
<1>1. feeBps \in Nat /\ BpsDenominator \in Nat \ {0} /\ feeBps <= BpsDenominator
  BY MarketAssumption DEF TypeOK
<1>2. price * feeBps \in Nat /\ price * feeBps <= price * BpsDenominator
  BY <1>1
<1>3. \A a, b \in Nat, d \in Nat \ {0} : a <= b * d => a \div d \in Nat /\ a \div d <= b
  OBVIOUS
<1> QED
  BY <1>1, <1>2, <1>3 DEF Fee

LEMMA TransferTypes ==
  ASSUME NEW from \in Holder, NEW to \in Holder, NEW amount \in Nat,
         tokens \in [Holder -> Nat], Transfer(from, to, amount)
  PROVE  /\ tokens' \in [Holder -> Nat]
         /\ from # This /\ to = This => tokens'[This] = tokens[This] + amount
         /\ from = This => tokens'[This] >= tokens[This] - amount
         /\ amount <= tokens[from]
<1>1. This \in Holder
  BY DEF Holder
<1> QED
  BY <1>1 DEF Transfer

LEMMA RecordAdds ==
  ASSUME MarketInv, NEW l \in Listing, NEW buyer \in Party, NEW maxPrice,
         Sellable(l, buyer, maxPrice), RecordPurchase(l, buyer)
  PROVE  /\ listings[l].price \in Nat
         /\ owed' \in [Party -> Nat] /\ purchased' \subseteq Listing \X Party
         /\ Total(owed') = Total(owed) + listings[l].price
         /\ totalOwed' = totalOwed + listings[l].price
<1> DEFINE price == listings[l].price
           seller == listings[l].seller
           share == Only(Party, seller, price - Fee(price))
           cut == Only(Party, feeRecipient, Fee(price))
<1>1. /\ price \in Nat /\ seller \in Party /\ feeRecipient \in Party
      /\ owed \in [Party -> Nat] /\ purchased \subseteq Listing \X Party
      /\ IsFiniteSet(Party)
  <2>1. listings[l].price \in Price \cup {0} /\ listings[l].seller \in Party \cup {Zero}
    BY DEF MarketInv, TypeOK
  <2>2. listings[l].price \in Nat
    <3>1. \A n \in Price \cup {0} : n \in Nat
      BY MarketAssumption
    <3> QED
      BY <2>1, <3>1
  <2>3. listings[l].seller # Zero /\ IsFiniteSet(Party)
    BY MarketAssumption DEF Sellable
  <2>4. /\ feeRecipient \in Party /\ owed \in [Party -> Nat]
        /\ purchased \subseteq Listing \X Party
    BY DEF MarketInv, TypeOK
  <2> QED
    BY <2>1, <2>2, <2>3, <2>4
<1>2. /\ purchased' = purchased \cup {<<l, buyer>>}
      /\ owed' = Plus(Plus(owed, share), cut)
      /\ totalOwed' = totalOwed + price
  BY DEF RecordPurchase
<1>3. Fee(price) \in Nat /\ price - Fee(price) \in Nat
  BY <1>1, FeeOfPrice DEF MarketInv
<1> HIDE DEF price, seller
<1>4. /\ share \in [Party -> Nat] /\ Total(share) = price - Fee(price)
      /\ cut \in [Party -> Nat] /\ Total(cut) = Fee(price)
  BY <1>1, <1>3, TotalOnly
<1> HIDE DEF share, cut
<1>5. Plus(owed, share) \in [Party -> Nat] /\ Total(Plus(owed, share)) = Total(owed) + Total(share)
  BY <1>1, <1>4, TotalPlus
<1>6. owed' \in [Party -> Nat] /\ Total(owed') = Total(Plus(owed, share)) + Total(cut)
  BY <1>1, <1>2, <1>4, <1>5, TotalPlus
<1>7. Total(owed) \in Nat
  BY <1>1, TotalNat
<1>8. Total(owed') = Total(owed) + price
  BY <1>1, <1>3, <1>4, <1>5, <1>6, <1>7
<1> QED
  BY <1>1, <1>2, <1>6, <1>8 DEF price

LEMMA MarketStart == Init => MarketInv
<1> SUFFICES ASSUME Init PROVE MarketInv
  OBVIOUS
<1>1. TypeOK
  BY MarketAssumption, EndowmentAssumption DEF Init, TypeOK
<1>2. Total(owed) = 0
  BY TotalZero DEF Init
<1>3. tokens[This] \in Nat
  BY EndowmentAssumption DEF Init, Holder
<1> QED
  BY <1>1, <1>2, <1>3 DEF Init, MarketInv, Solvent

-----------------------------------------------------------------------------
LEMMA SaleStep ==
  ASSUME MarketInv, NEW l \in Listing, NEW buyer \in Party, NEW sender, NEW maxPrice,
         Purchase(buyer, l, maxPrice) \/ PurchaseFor(sender, l, buyer, maxPrice)
  PROVE  MarketInv'
<1>1. Sellable(l, buyer, maxPrice) /\ RecordPurchase(l, buyer) /\ UNCHANGED <<listings, config>>
  BY DEF Purchase, PurchaseFor
<1>2. /\ listings[l].price \in Nat
      /\ owed' \in [Party -> Nat] /\ purchased' \subseteq Listing \X Party
      /\ Total(owed') = Total(owed) + listings[l].price
      /\ totalOwed' = totalOwed + listings[l].price
  BY <1>1, RecordAdds
<1>3. This \in Holder /\ buyer \in Holder /\ buyer # This /\ tokens \in [Holder -> Nat]
  BY MarketAssumption DEF Holder, MarketInv, TypeOK
<1>4. tokens' \in [Holder -> Nat] /\ totalOwed' <= tokens'[This]
  <2>1. totalOwed \in Nat /\ totalOwed <= tokens[This] /\ tokens[This] \in Nat
    BY <1>3 DEF MarketInv, TypeOK, Solvent
  <2>2. CASE Purchase(buyer, l, maxPrice)
    <3>1. tokens' \in [Holder -> Nat] /\ tokens'[This] = tokens[This] + listings[l].price
      BY <1>2, <1>3, <2>2, TransferTypes DEF Purchase
    <3> QED
      BY <1>2, <2>1, <3>1
  <2>3. CASE PurchaseFor(sender, l, buyer, maxPrice)
    BY <1>2, <1>3, <2>1, <2>3 DEF PurchaseFor, Delivered
  <2> QED
    BY <2>2, <2>3
<1>5. totalOwed' \in Nat /\ totalOwed' = Total(owed')
  BY <1>2 DEF MarketInv, TypeOK, Solvent
<1> QED
  BY <1>1, <1>2, <1>4, <1>5 DEF MarketInv, TypeOK, Solvent, config

LEMMA WithdrawStep ==
  ASSUME MarketInv, NEW sender \in Party, Withdraw(sender)
  PROVE  MarketInv'
<1>1. /\ This \in Holder /\ sender \in Holder /\ tokens \in [Holder -> Nat]
      /\ owed \in [Party -> Nat] /\ owed[sender] \in Nat /\ IsFiniteSet(Party)
      /\ totalOwed = Total(owed) /\ totalOwed <= tokens[This] /\ tokens[This] \in Nat
  BY MarketAssumption DEF Holder, MarketInv, TypeOK, Solvent
<1>2. /\ owed' = [owed EXCEPT ![sender] = 0]
      /\ totalOwed' = totalOwed - owed[sender]
      /\ Transfer(This, sender, owed[sender])
      /\ UNCHANGED <<listings, purchased, config>>
  BY DEF Withdraw
<1>3. tokens' \in [Holder -> Nat] /\ tokens'[This] >= tokens[This] - owed[sender]
  BY <1>1, <1>2, TransferTypes
<1>4. /\ owed' \in [Party -> Nat] /\ owed'[sender] = 0
      /\ \A p \in Party \ {sender} : owed'[p] = owed[p]
  BY <1>1, <1>2
<1>5. Total(owed') = Total(owed) - owed[sender] + owed'[sender]
  BY <1>1, <1>4, TotalChange
<1>6. owed[sender] <= Total(owed) /\ Total(owed) \in Nat
  BY <1>1, EntryAtMostTotal, TotalNat
<1>7. totalOwed' \in Nat /\ totalOwed' = Total(owed')
  BY <1>1, <1>2, <1>4, <1>5, <1>6
<1>8. tokens'[This] \in Nat
  BY <1>1, <1>3
<1>9. totalOwed' <= tokens'[This]
  BY <1>1, <1>2, <1>3, <1>7, <1>8
<1> QED
  BY <1>2, <1>3, <1>4, <1>7, <1>9 DEF MarketInv, TypeOK, Solvent, config

\* Tokens come in, or what is not owed is swept out.
LEMMA MoneyStep ==
  ASSUME MarketInv,
         \/ \E from \in Holder, amount \in 1..MaxPrice : Deliver(from, amount)
         \/ \E sender \in Party, to \in Party : SweepUnallocated(sender, to)
  PROVE  MarketInv'
<1>1. /\ This \in Holder /\ Party \subseteq Holder /\ tokens \in [Holder -> Nat]
      /\ totalOwed \in Nat /\ totalOwed <= tokens[This] /\ tokens[This] \in Nat
  BY DEF Holder, MarketInv, TypeOK, Solvent
<1>2. UNCHANGED <<listings, purchased, owed, totalOwed, config>>
  BY DEF Deliver, SweepUnallocated
<1>3. tokens' \in [Holder -> Nat] /\ totalOwed <= tokens'[This]
  <2>1. ASSUME NEW from \in Holder, NEW amount \in 1..MaxPrice, Deliver(from, amount)
        PROVE  tokens' \in [Holder -> Nat] /\ totalOwed <= tokens'[This]
    <3>1. amount \in Nat
      BY MarketAssumption
    <3>2. tokens' \in [Holder -> Nat] /\ tokens'[This] = tokens[This] + amount
      BY <1>1, <2>1, <3>1, TransferTypes DEF Deliver
    <3> QED
      BY <1>1, <3>1, <3>2
  <2>2. ASSUME NEW sender \in Party, NEW to \in Party, SweepUnallocated(sender, to)
        PROVE  tokens' \in [Holder -> Nat] /\ totalOwed <= tokens'[This]
    <3>1. Delivered \in Nat /\ Delivered = tokens[This] - totalOwed
      BY <1>1 DEF Delivered
    <3>2. Transfer(This, to, Delivered)
      BY <2>2 DEF SweepUnallocated
    <3>3. tokens' \in [Holder -> Nat] /\ tokens'[This] >= tokens[This] - Delivered
      BY <1>1, <3>1, <3>2, TransferTypes
    <3>4. tokens'[This] \in Nat
      BY <1>1, <3>3
    <3> QED
      BY <1>1, <3>1, <3>3, <3>4
  <2> QED
    BY <2>1, <2>2
<1> QED
  BY <1>2, <1>3 DEF MarketInv, TypeOK, Solvent, config

\* Listings and settings leave tokens and debts alone.
LEMMA SettingStep ==
  ASSUME MarketInv, NEW sender \in Party,
         \/ \E l \in Listing, price \in Price : RegisterListing(sender, l, price)
         \/ \E l \in Listing : Delist(sender, l)
         \/ \E f \in FeeBps : SetFeeBps(sender, f)
         \/ \E p \in Party : SetFeeRecipient(sender, p) \/ SetGovernor(sender, p)
         \/ \E r \in {Router, Zero} : SetSettlementRouter(sender, r)
  PROVE  MarketInv'
<1>1. UNCHANGED <<tokens, purchased, owed, totalOwed>>
  BY DEF RegisterListing, Delist, SetFeeBps, SetFeeRecipient, SetGovernor, SetSettlementRouter
<1>2. Solvent'
  BY <1>1 DEF MarketInv, Solvent
<1>3. /\ tokens' \in [Holder -> Nat] /\ purchased' \subseteq Listing \X Party
      /\ owed' \in [Party -> Nat] /\ totalOwed' \in Nat
  BY <1>1 DEF MarketInv, TypeOK
<1>4. listings' \in [Listing -> [seller : Party \cup {Zero}, price : Price \cup {0},
                                 active : BOOLEAN]]
  <2>1. listings \in [Listing -> [seller : Party \cup {Zero}, price : Price \cup {0},
                                  active : BOOLEAN]]
    BY DEF MarketInv, TypeOK
  <2>2. ASSUME NEW l \in Listing, NEW price \in Price, RegisterListing(sender, l, price)
        PROVE  listings' \in [Listing -> [seller : Party \cup {Zero}, price : Price \cup {0},
                                          active : BOOLEAN]]
    BY <2>1, <2>2 DEF RegisterListing
  <2>3. ASSUME NEW l \in Listing, Delist(sender, l)
        PROVE  listings' \in [Listing -> [seller : Party \cup {Zero}, price : Price \cup {0},
                                          active : BOOLEAN]]
    BY <2>1, <2>3 DEF Delist
  <2>4. CASE UNCHANGED listings
    BY <2>1, <2>4
  <2> QED
    BY <2>2, <2>3, <2>4 DEF SetFeeBps, SetFeeRecipient, SetGovernor, SetSettlementRouter
<1>5. /\ feeBps' \in Nat /\ feeBps' <= MaxFeeBps
      /\ feeRecipient' \in Party /\ governor' \in Party
      /\ settlementRouter' \in {Router, Zero}
  BY MarketAssumption DEF MarketInv, TypeOK, config, RegisterListing, Delist, SetFeeBps,
     SetFeeRecipient, SetGovernor, SetSettlementRouter
<1> QED
  BY <1>2, <1>3, <1>4, <1>5 DEF MarketInv, TypeOK

LEMMA MarketStep == MarketInv /\ [Next]_vars => MarketInv'
<1> SUFFICES ASSUME MarketInv, [Next]_vars PROVE MarketInv'
  OBVIOUS
<1>1. CASE UNCHANGED vars
  BY <1>1 DEF vars, config, MarketInv, TypeOK, Solvent
<1>2. CASE Next
  BY <1>2, SaleStep, WithdrawStep, MoneyStep, SettingStep DEF Next
<1> QED
  BY <1>1, <1>2

\* What the marketplace owes is what it has written down, and it holds that
\* much, for every set of parties, listings, prices and fees.
THEOREM MarketIsSolvent == Spec => [](TypeOK /\ Solvent)
  BY MarketStart, MarketStep, PTL DEF Spec, MarketInv

-----------------------------------------------------------------------------
(* What a sale credits. *)
LEMMA ShareAtLeast ==
  ASSUME TypeOK, NEW price \in Nat
  PROVE  (price - Fee(price)) * BpsDenominator >= price * (BpsDenominator - MaxFeeBps)
<1>1. /\ feeBps \in Nat /\ feeBps <= MaxFeeBps /\ MaxFeeBps \in Nat
      /\ BpsDenominator \in Nat \ {0}
  BY MarketAssumption DEF TypeOK
<1>2. price * feeBps \in Nat /\ price * feeBps <= price * MaxFeeBps
  BY <1>1
<1>3. \A a \in Nat, d \in Nat \ {0} : a \div d \in Nat /\ (a \div d) * d <= a
  OBVIOUS
<1>4. Fee(price) \in Nat /\ Fee(price) * BpsDenominator <= price * feeBps
  BY <1>1, <1>2, <1>3 DEF Fee
<1>5. (price - Fee(price)) * BpsDenominator
        = price * BpsDenominator - Fee(price) * BpsDenominator
  BY <1>1, <1>4
<1>6. price * (BpsDenominator - MaxFeeBps) = price * BpsDenominator - price * MaxFeeBps
  BY <1>1
<1>7. /\ price * BpsDenominator \in Nat /\ price * MaxFeeBps \in Nat
      /\ Fee(price) * BpsDenominator \in Nat
  BY <1>1, <1>4
<1>8. \A x, y, u, w \in Nat : y <= u /\ u <= w => x - y >= x - w
  OBVIOUS
<1>9. price * BpsDenominator - Fee(price) * BpsDenominator
        >= price * BpsDenominator - price * MaxFeeBps
  BY <1>2, <1>4, <1>7, <1>8
<1> QED
  BY <1>5, <1>6, <1>9

LEMMA SaleCredits ==
  ASSUME MarketInv, NEW l \in Listing, NEW buyer \in Party, NEW maxPrice,
         Sellable(l, buyer, maxPrice), RecordPurchase(l, buyer)
  PROVE  /\ purchased' = purchased \cup {<<l, buyer>>}
         /\ (owed'[listings[l].seller] - owed[listings[l].seller]) * BpsDenominator
              >= listings[l].price * (BpsDenominator - MaxFeeBps)
         /\ \A p \in Party : owed'[p] >= owed[p]
<1> DEFINE price == listings[l].price
           seller == listings[l].seller
           net == price - Fee(price)
           share == Only(Party, seller, net)
           cut == Only(Party, feeRecipient, Fee(price))
<1>1. /\ price \in Nat /\ seller \in Party /\ owed \in [Party -> Nat]
  <2>1. listings[l].price \in Price \cup {0} /\ listings[l].seller \in Party \cup {Zero}
    BY DEF MarketInv, TypeOK
  <2>2. \A n \in Price \cup {0} : n \in Nat
    BY MarketAssumption
  <2>3. listings[l].seller # Zero
    BY DEF Sellable
  <2>4. owed \in [Party -> Nat]
    BY DEF MarketInv, TypeOK
  <2> QED
    BY <2>1, <2>2, <2>3, <2>4
<1>2. Fee(price) \in Nat /\ net \in Nat
  BY <1>1, FeeOfPrice DEF MarketInv
<1>3. net * BpsDenominator >= price * (BpsDenominator - MaxFeeBps)
  BY <1>1, ShareAtLeast DEF MarketInv
<1>4. owed' = Plus(Plus(owed, share), cut) /\ purchased' = purchased \cup {<<l, buyer>>}
  BY DEF RecordPurchase
<1> HIDE DEF price, seller, net
<1>5. \A p \in Party : share[p] \in Nat /\ cut[p] \in Nat
  BY <1>2 DEF Only
<1>6. share[seller] = net
  BY <1>1 DEF Only
<1> HIDE DEF share, cut
<1>7. \A p \in Party : owed'[p] = owed[p] + share[p] + cut[p]
  BY <1>1, <1>4 DEF Plus
<1>8. \A p \in Party : owed'[p] >= owed[p]
  BY <1>1, <1>5, <1>7
<1>9. owed'[seller] - owed[seller] \in Nat /\ owed'[seller] - owed[seller] >= net
  BY <1>1, <1>2, <1>5, <1>6, <1>7
<1>10. /\ BpsDenominator \in Nat /\ BpsDenominator - MaxFeeBps \in Nat
  BY MarketAssumption
<1>11. \A x, y, d \in Nat : x >= y => x * d >= y * d /\ x * d \in Nat /\ y * d \in Nat
  OBVIOUS
<1>12. /\ (owed'[seller] - owed[seller]) * BpsDenominator >= net * BpsDenominator
       /\ (owed'[seller] - owed[seller]) * BpsDenominator \in Nat
       /\ net * BpsDenominator \in Nat
       /\ price * (BpsDenominator - MaxFeeBps) \in Nat
  BY <1>1, <1>2, <1>9, <1>10, <1>11
<1>13. (owed'[seller] - owed[seller]) * BpsDenominator >= price * (BpsDenominator - MaxFeeBps)
  BY <1>3, <1>12
<1> QED
  BY <1>4, <1>8, <1>13 DEF price, seller

Credits ==
  \A p \in Party :
    /\ \A l \in Listing : listings[l].seller = p =>
         \A buyer \in Party :
           <<l, buyer>> \in purchased' \ purchased =>
             (owed'[p] - owed[p]) * BpsDenominator
               >= listings[l].price * (BpsDenominator - MaxFeeBps)
    /\ owed'[p] < owed[p] =>
         owed'[p] = 0 /\ tokens'[p] = tokens[p] + owed[p]

LEMMA CreditsStep == MarketInv /\ [Next]_vars => [Credits]_vars
<1> SUFFICES ASSUME MarketInv, Next PROVE Credits
  OBVIOUS
<1>1. owed \in [Party -> Nat] /\ tokens \in [Holder -> Nat]
  BY DEF MarketInv, TypeOK
<1>2. ASSUME UNCHANGED <<purchased, owed>> PROVE Credits
  BY <1>1, <1>2 DEF Credits
<1>3. ASSUME NEW l \in Listing, NEW buyer \in Party, NEW maxPrice,
             Sellable(l, buyer, maxPrice), RecordPurchase(l, buyer)
      PROVE  Credits
  <2>1. /\ purchased' = purchased \cup {<<l, buyer>>}
        /\ (owed'[listings[l].seller] - owed[listings[l].seller]) * BpsDenominator
             >= listings[l].price * (BpsDenominator - MaxFeeBps)
        /\ \A p \in Party : owed'[p] >= owed[p]
    BY <1>3, SaleCredits
  <2>2. owed' \in [Party -> Nat]
    BY <1>3, RecordAdds
  <2>3. \A p \in Party : ~(owed'[p] < owed[p])
    BY <1>1, <2>1, <2>2
  <2>4. \A k \in Listing, b \in Party : <<k, b>> \in purchased' \ purchased => k = l
    BY <2>1
  <2> QED
    BY <2>1, <2>3, <2>4 DEF Credits
<1>4. ASSUME NEW sender \in Party, Withdraw(sender) PROVE Credits
  <2>1. /\ owed' = [owed EXCEPT ![sender] = 0] /\ purchased' = purchased
        /\ Transfer(This, sender, owed[sender])
    BY <1>4 DEF Withdraw
  <2>2. sender # This /\ sender \in Holder /\ This \in Holder
    BY MarketAssumption DEF Holder
  <2>3. tokens[sender] \in Nat /\ owed[sender] \in Nat
    BY <1>1, <2>2
  <2>4. tokens'[sender] = tokens[sender] + owed[sender]
    BY <2>1, <2>2, <2>3 DEF Transfer
  <2>5. \A p \in Party : p = sender \/ ~(owed'[p] < owed[p])
    BY <1>1, <2>1
  <2>6. owed'[sender] = 0
    BY <1>1, <2>1
  <2> QED
    BY <2>1, <2>4, <2>5, <2>6 DEF Credits
<1>5. CASE \E sender \in Party, l \in Listing, maxPrice \in 0..MaxPrice :
             Purchase(sender, l, maxPrice)
  BY <1>3, <1>5 DEF Purchase
<1>6. CASE \E l \in Listing, buyer \in Party, maxPrice \in 0..MaxPrice :
             PurchaseFor(Router, l, buyer, maxPrice)
  BY <1>3, <1>6 DEF PurchaseFor
<1>7. CASE \E sender \in Party :
             \/ \E l \in Listing : \/ \E price \in Price : RegisterListing(sender, l, price)
                                   \/ Delist(sender, l)
             \/ \E f \in FeeBps : SetFeeBps(sender, f)
             \/ \E p \in Party : \/ SetFeeRecipient(sender, p)
                                 \/ SweepUnallocated(sender, p)
                                 \/ SetGovernor(sender, p)
             \/ \E r \in {Router, Zero} : SetSettlementRouter(sender, r)
  BY <1>2, <1>7 DEF RegisterListing, Delist, SetFeeBps, SetFeeRecipient, SweepUnallocated,
                    SetGovernor, SetSettlementRouter
<1>8. CASE \E from \in Holder, amount \in 1..MaxPrice : Deliver(from, amount)
  BY <1>2, <1>8 DEF Deliver
<1> QED
  BY <1>4, <1>5, <1>6, <1>7, <1>8 DEF Next

\* A seller gets at least the price less the fee ceiling, in the step that
\* gives the buyer the receipt, and a debt is only ever paid in full.
THEOREM SellersGetTheirShare == Spec => SellersAreCredited
<1>1. MarketInv /\ [Next]_vars => MarketInv'
  BY MarketStep
<1>2. MarketInv /\ [Next]_vars =>
        [\A p \in Party :
           /\ \A l \in Listing : listings[l].seller = p =>
                \A buyer \in Party :
                  <<l, buyer>> \in purchased' \ purchased =>
                    (owed'[p] - owed[p]) * BpsDenominator
                      >= listings[l].price * (BpsDenominator - MaxFeeBps)
           /\ owed'[p] < owed[p] =>
                owed'[p] = 0 /\ tokens'[p] = tokens[p] + owed[p]]_vars
  BY CreditsStep DEF Credits
<1> QED
  BY <1>1, <1>2, MarketStart, PTL DEF Spec, SellersAreCredited
-----------------------------------------------------------------------------
(* Budgets on model calls.                                                 *)
\* The scopes a call has before it, and what it knows on its way.
Route(a) == IF a = "none" THEN {<<Crew>>} ELSE {<<Crew, a>>, <<a>>}
Works == {w \in WorkType :
            /\ w.pc \in {"get", "look"} \cup Metering => w.left \in Route(w.agent)
            /\ w.pc \in Metering => w.cost \in Cost
            /\ w.pc \in {"look", "before", "claim"} => w.rule.on}
MeterTypes == BudgetsTypeOK /\ work \in [Client -> Works]

LEMMA Routes ==
  ASSUME NEW a \in Seat \cup {"none"}
  PROVE  /\ ScopesOf(a) \in Route(a)
         /\ \A l \in Route(a) :
              /\ l \in Seq(Scope) /\ Head(l) \in Scope /\ Len(l) \in {1, 2}
              /\ Len(l) = 1 => Tail(l) = <<>>
              /\ Len(l) = 2 => a \in Seat /\ Head(l) = Crew /\ Tail(l) = <<a>> /\ Tail(l) \in Route(a)
              /\ Len(l) = 1 /\ a \in Seat => l = <<a>> /\ Head(l) = a
              /\ Len(l) = 1 /\ a = "none" => l = <<Crew>> /\ Head(l) = Crew
<1>1. Crew \in Scope /\ (a # "none" => a \in Scope)
  BY DEF Scope
<1>2. CASE a = "none"
  <2>1. Len(<<Crew>>) = 1 /\ Head(<<Crew>>) = Crew /\ Tail(<<Crew>>) = <<>>
    OBVIOUS
  <2>2. <<Crew>> \in Seq(Scope)
    BY <1>1
  <2>3. a \notin Seat
    BY <1>2, MeterAssumption
  <2>4. Route(a) = {<<Crew>>} /\ ScopesOf(a) = <<Crew>>
    BY <1>2 DEF Route, ScopesOf
  <2>5. ASSUME NEW l \in Route(a)
        PROVE  /\ l = <<Crew>> /\ l \in Seq(Scope) /\ Head(l) = Crew /\ Len(l) = 1
               /\ Tail(l) = <<>> /\ Head(l) \in Scope
    BY <1>1, <2>1, <2>2, <2>4
  <2> QED
    BY <1>2, <2>3, <2>4, <2>5
<1>3. CASE a # "none"
  <2>1. a \in Seat
    BY <1>3
  <2>2. Len(<<Crew, a>>) = 2 /\ Head(<<Crew, a>>) = Crew /\ Tail(<<Crew, a>>) = <<a>>
        /\ Len(<<a>>) = 1 /\ Head(<<a>>) = a /\ Tail(<<a>>) = <<>>
    OBVIOUS
  <2>3. <<Crew, a>> \in Seq(Scope) /\ <<a>> \in Seq(Scope)
    BY <1>1, <1>3
  <2> QED
    <3>1. Route(a) = {<<Crew, a>>, <<a>>} /\ ScopesOf(a) = <<Crew, a>>
      BY <1>3 DEF Route, ScopesOf
    <3>2. ASSUME NEW l \in Route(a) PROVE l = <<Crew, a>> \/ l = <<a>>
      BY <3>1
    <3> QED
      BY <1>1, <1>3, <2>1, <2>2, <2>3, <3>1, <3>2
<1> QED
  BY <1>2, <1>3

LEMMA Idle == NoWorkYet \in Works
<1>1. NoBudget \in Budget /\ 1 \in Period /\ <<>> \in Seq(Scope)
  BY MeterAssumption DEF Budget, Period
<1> QED
  BY <1>1 DEF NoWorkYet, Works, WorkType, Metering, Cost, State

LEMMA Standings ==
  ASSUME NEW l \in Nat, NEW u \in Nat
  PROVE  Standing(l, u) \in State
BY DEF Standing, State

\* What a step of a client does to its own work keeps the types.
LEMMA WorkSteps ==
  ASSUME MeterTypes, NEW c \in Client
  PROVE  /\ \A a \in Seat \cup {"none"} : Complete(c, a) => work' \in [Client -> Works]
         /\ GetBudget(c) \/ LookAtUsage(c) \/ GivesUp(c) => work' \in [Client -> Works]
         /\ \A cost \in Cost : Answered(c, cost) => work' \in [Client -> Works]
         /\ MeterScope(c) \/ ReadBefore(c) \/ AddUsage(c) => work' \in [Client -> Works]
         /\ ClaimAlert(c) \/ AlertClaimFails(c) \/ Unmetered(c) => work' \in [Client -> Works]
<1>1. /\ work \in [Client -> Works] /\ work[c] \in Works /\ work[c] \in WorkType
      /\ budget \in [Scope -> Budget] /\ usage \in [Scope -> [Period -> Nat]] /\ period \in Period
  BY DEF MeterTypes, BudgetsTypeOK, Works
<1>2. \A w \in Works : [work EXCEPT ![c] = w] \in [Client -> Works]
  BY <1>1
<1> DEFINE w == work[c]
<1>3. w.agent \in Seat \cup {"none"}
  BY <1>1 DEF WorkType
<1>4. w.pc \in {"get", "look"} \cup Metering =>
        /\ w.left \in Route(w.agent) /\ Covered(c) \in Scope /\ Len(w.left) \in {1, 2}
        /\ Len(w.left) # 1 => Tail(w.left) \in Route(w.agent)
        /\ Tail(w.left) \in Seq(Scope)
  <2>1. \A a \in Seat \cup {"none"} : \A l \in Route(a) : Tail(l) \in Seq(Scope)
    <3> SUFFICES ASSUME NEW a \in Seat \cup {"none"}, NEW l \in Route(a)
                 PROVE  Tail(l) \in Seq(Scope)
      OBVIOUS
    <3>1. Len(l) = 1 => Tail(l) \in Seq(Scope)
      BY Routes
    <3>2. Len(l) = 2 => Tail(l) \in Seq(Scope)
      BY Routes
    <3> QED
      BY <3>1, <3>2, Routes
  <2> QED
    BY <1>1, <1>3, <2>1, Routes DEF Works, Covered
<1>5. NoBudget \in Budget /\ 1 \in Period /\ "ok" \in State
  BY MeterAssumption DEF Budget, Period, State
<1>6. ASSUME NEW a \in Seat \cup {"none"}, Complete(c, a) PROVE work' \in [Client -> Works]
  <2> DEFINE v == [NoWorkYet EXCEPT !.pc = "get", !.agent = a, !.left = ScopesOf(a)]
  <2>1. ScopesOf(a) \in Route(a) /\ ScopesOf(a) \in Seq(Scope)
    BY Routes
  <2>2. v \in Works
    BY <2>1, <1>5 DEF NoWorkYet, Works, WorkType, Metering, Cost
  <2> QED
    BY <1>2, <1>6, <2>2 DEF Complete
<1>7. ASSUME NEW b, w.pc \in {"get", "look"}, Admitted(c, b) PROVE work' \in [Client -> Works]
  <2> DEFINE v == [w EXCEPT !.rule = NoBudget, !.left = Tail(w.left),
                            !.pc = IF Len(w.left) = 1 THEN "model" ELSE "get"]
  <2>1. work' = [work EXCEPT ![c] = v]
    BY <1>7 DEF Admitted
  <2>2. v \in Works
    BY <1>1, <1>4, <1>5, <1>7 DEF Works, WorkType, Metering
  <2> QED
    BY <1>2, <2>1, <2>2
<1>8. CASE GetBudget(c)
  <2>1. budget[Covered(c)] \in Budget /\ w.pc = "get"
    BY <1>1, <1>4, <1>8 DEF GetBudget, Does
  <2> DEFINE v == [w EXCEPT !.pc = "look", !.rule = budget[Covered(c)]]
  <2>2. budget[Covered(c)].on => v \in Works
    BY <1>1, <1>4, <2>1 DEF Works, WorkType, Metering
  <2>3. budget[Covered(c)].on => work' = [work EXCEPT ![c] = v]
    BY <1>8 DEF GetBudget
  <2>4. ~budget[Covered(c)].on => Admitted(c, budget[Covered(c)])
    BY <1>8 DEF GetBudget
  <2> QED
    BY <1>2, <1>7, <2>1, <2>2, <2>3, <2>4
<1>9. Ended(c) => work' \in [Client -> Works]
  BY <1>2, Idle DEF Ended
<1>10. CASE LookAtUsage(c)
  <2>1. w.pc = "look" /\ (Ended(c) \/ Admitted(c, w.rule))
    BY <1>10 DEF LookAtUsage, Does
  <2> QED
    BY <1>7, <1>9, <2>1
<1>11. ASSUME NEW cost \in Cost, Answered(c, cost) PROVE work' \in [Client -> Works]
  <2> DEFINE v == [w EXCEPT !.pc = "meter", !.cost = cost, !.left = ScopesOf(w.agent)]
  <2>1. ScopesOf(w.agent) \in Route(w.agent) /\ ScopesOf(w.agent) \in Seq(Scope)
    BY <1>3, Routes
  <2>2. v \in Works
    BY <1>1, <2>1 DEF Works, WorkType, Metering
  <2> QED
    BY <1>2, <1>11, <2>2 DEF Answered
<1>12. CASE MeterScope(c)
  <2>1. budget[Covered(c)] \in Budget /\ w.pc = "meter"
    BY <1>1, <1>4, <1>12 DEF MeterScope, Does, Metering
  <2> DEFINE v == [w EXCEPT !.pc = IF budget[Covered(c)].on THEN "before" ELSE "add",
                            !.rule = budget[Covered(c)], !.month = period]
  <2>2. v \in Works
    BY <1>1, <1>4, <2>1 DEF Works, WorkType, Metering
  <2>3. work' = [work EXCEPT ![c] = v]
    BY <1>12 DEF MeterScope
  <2> QED
    BY <1>2, <2>2, <2>3
<1>13. CASE ReadBefore(c)
  <2>1. w.pc = "before" /\ w.rule.limit \in Nat /\ w.month \in Period
    BY <1>1, <1>13, MeterAssumption DEF ReadBefore, Does, WorkType, Budget, NoBudget
  <2>2. usage[Covered(c)][w.month] \in Nat
    BY <1>1, <1>4, <2>1 DEF Metering
  <2> DEFINE v == [w EXCEPT !.pc = "add", !.before = Standing(w.rule.limit, usage[Covered(c)][w.month])]
  <2>3. v \in Works
    BY <1>1, <1>4, <2>1, <2>2, Standings DEF Works, WorkType, Metering
  <2> QED
    BY <1>2, <1>13, <2>3 DEF ReadBefore
<1>14. w.pc \in Metering => Metered(c) \in Works
  <2> DEFINE v == [w EXCEPT !.pc = "meter", !.left = Tail(w.left), !.rule = NoBudget, !.month = 1,
                            !.before = "ok", !.after = "ok"]
  <2>1. w.pc \in Metering /\ Len(w.left) # 1 => v \in Works
    BY <1>1, <1>4, <1>5 DEF Works, WorkType, Metering
  <2> QED
    BY <2>1, Idle DEF Metered
<1>15. CASE AddUsage(c)
  <2>1. w.pc = "add" /\ w.rule.limit \in Nat /\ w.month \in Period /\ w.cost \in Nat
    BY <1>1, <1>15, MeterAssumption DEF AddUsage, Does, WorkType, Budget, NoBudget, Cost
  <2> DEFINE after == Standing(w.rule.limit, usage[Covered(c)][w.month] + w.cost)
             v == [w EXCEPT !.pc = "claim", !.after = after]
  <2>2. usage[Covered(c)][w.month] + w.cost \in Nat
    BY <1>1, <1>4, <2>1 DEF Metering
  <2>3. after \in State
    BY <2>1, <2>2, Standings
  <2>4. w.rule.on => v \in Works
    BY <1>1, <1>4, <2>1, <2>3 DEF Works, WorkType, Metering
  <2>5. work' = [work EXCEPT ![c] = IF Crosses(c, after) THEN v ELSE Metered(c)]
    BY <1>15 DEF AddUsage
  <2> QED
    BY <1>2, <1>14, <2>1, <2>4, <2>5 DEF Crosses, Metering
<1>16. CASE ClaimAlert(c) \/ AlertClaimFails(c)
  BY <1>2, <1>14, <1>16 DEF ClaimAlert, AlertClaimFails, Does, Metering
<1> QED
  BY <1>6, <1>8, <1>9, <1>10, <1>11, <1>12, <1>13, <1>15, <1>16 DEF GivesUp, Unmetered

LEMMA LimitsAreNumbers == \A b \in Budget : b.limit \in Nat /\ (b.on => b.limit \in Nat \ {0})
<1> SUFFICES ASSUME NEW b \in Budget PROVE b.limit \in Nat /\ (b.on => b.limit \in Nat \ {0})
  OBVIOUS
<1>1. CASE b = NoBudget
  BY <1>1 DEF NoBudget
<1>2. CASE b \in [limit : Limit, hard : BOOLEAN, on : BOOLEAN]
  BY <1>2, MeterAssumption
<1> QED
  BY <1>1, <1>2 DEF Budget

LEMMA MeterStart == BudgetsInit => MeterTypes
<1> SUFFICES ASSUME BudgetsInit PROVE MeterTypes
  OBVIOUS
<1>1. \A s \in Scope : Bounding(budget[s]) \in Nat
  BY LimitsAreNumbers DEF BudgetsInit, Bounding
<1>2. work \in [Client -> Works]
  BY Idle DEF BudgetsInit
<1>3. 1 \in Period /\ MaxCalls \in Nat /\ MaxEdits \in Nat /\ MaxLapses \in Nat
  BY MeterAssumption DEF Period
<1> QED
  BY <1>1, <1>2, <1>3 DEF BudgetsInit, MeterTypes, BudgetsTypeOK, Works, State

LEMMA MeterStep == MeterTypes /\ [BudgetsNext]_budgetsVars => MeterTypes'
<1> SUFFICES ASSUME MeterTypes, [BudgetsNext]_budgetsVars PROVE MeterTypes'
  OBVIOUS
<1>1. /\ budget \in [Scope -> Budget] /\ usage \in [Scope -> [Period -> Nat]]
      /\ alerted \in [Scope -> [Period -> State]] /\ period \in Period
      /\ work \in [Client -> Works] /\ work \in [Client -> WorkType]
      /\ calls \in 0 .. MaxCalls /\ edits \in 0 .. MaxEdits /\ lapses \in 0 .. MaxLapses
      /\ ceiling \in [Scope -> Nat] /\ alerts \in [Scope -> [Period -> [State -> Nat]]]
      /\ disturbed \subseteq Scope
  BY DEF MeterTypes, BudgetsTypeOK
<1>2. work' \in [Client -> Works] => work' \in [Client -> WorkType]
  BY DEF Works
<1>3. /\ MaxCalls \in Nat /\ MaxEdits \in Nat /\ MaxLapses \in Nat /\ MaxPeriod \in Nat
      /\ \A b \in Budget : b.limit \in Nat
  BY MeterAssumption, LimitsAreNumbers
<1>4. ASSUME NEW c \in Client, work[c].pc \in {"get", "look"} \cup Metering
      PROVE  /\ Covered(c) \in Scope /\ work[c].month \in Period /\ work[c].cost \in Nat
             /\ work[c].after \in State
  <2>1. work[c] \in Works /\ work[c] \in WorkType
    BY <1>1
  <2>2. work[c].agent \in Seat \cup {"none"} /\ work[c].left \in Route(work[c].agent)
    BY <1>4, <2>1 DEF Works, WorkType
  <2> QED
    BY <2>1, <2>2, Routes, MeterAssumption DEF WorkType, Covered, Cost
<1>5. ASSUME NEW c \in Client, NEW a \in Seat \cup {"none"}, Complete(c, a) PROVE MeterTypes'
  <2>1. work' \in [Client -> Works]
    BY <1>5, WorkSteps
  <2>2. calls' \in 0 .. MaxCalls
    BY <1>1, <1>3, <1>5 DEF Complete
  <2> QED
    BY <1>1, <1>2, <1>5, <2>1, <2>2 DEF Complete, MeterTypes, BudgetsTypeOK
<1>6. ASSUME NEW c \in Client, GetBudget(c) \/ LookAtUsage(c) \/ GivesUp(c) \/ MeterScope(c)
      PROVE  MeterTypes'
  <2>1. work' \in [Client -> Works]
    BY <1>6, WorkSteps
  <2> QED
    BY <1>1, <1>2, <1>6, <2>1 DEF GetBudget, LookAtUsage, GivesUp, MeterScope, MeterTypes, BudgetsTypeOK
<1>7. ASSUME NEW c \in Client, NEW cost \in Cost, Answered(c, cost) PROVE MeterTypes'
  <2>1. work' \in [Client -> Works]
    BY <1>7, WorkSteps
  <2> QED
    BY <1>1, <1>2, <1>7, <2>1 DEF Answered, MeterTypes, BudgetsTypeOK
<1>8. ASSUME NEW c \in Client, ReadBefore(c) PROVE MeterTypes'
  <2>1. work' \in [Client -> Works]
    BY <1>8, WorkSteps
  <2>2. disturbed' \subseteq Scope
    BY <1>1, <1>4, <1>8 DEF ReadBefore, Does, Metering
  <2> QED
    BY <1>1, <1>2, <1>8, <2>1, <2>2 DEF ReadBefore, MeterTypes, BudgetsTypeOK
<1>9. ASSUME NEW c \in Client, AddUsage(c) PROVE MeterTypes'
  <2>1. work' \in [Client -> Works]
    BY <1>9, WorkSteps
  <2>2. Covered(c) \in Scope /\ work[c].month \in Period /\ work[c].cost \in Nat
    BY <1>4, <1>9 DEF AddUsage, Does, Metering
  <2>3. usage' = [usage EXCEPT ![Covered(c)][work[c].month] = usage[Covered(c)][work[c].month] + work[c].cost]
    BY <1>9 DEF AddUsage
  <2>4. usage' \in [Scope -> [Period -> Nat]]
    BY <1>1, <2>2, <2>3
  <2> QED
    BY <1>1, <1>2, <1>9, <2>1, <2>4 DEF AddUsage, MeterTypes, BudgetsTypeOK
<1>10. ASSUME NEW c \in Client, work[c].pc = "claim"
       PROVE  /\ Announced(c) \in [Scope -> [Period -> [State -> Nat]]]
              /\ [alerted EXCEPT ![Covered(c)][work[c].month] = work[c].after] \in [Scope -> [Period -> State]]
              /\ disturbed \cup {Covered(c)} \subseteq Scope
  <2>1. Covered(c) \in Scope /\ work[c].month \in Period /\ work[c].after \in State
    BY <1>4, <1>10 DEF Metering
  <2> QED
    BY <1>1, <2>1 DEF Announced
<1>11. ASSUME NEW c \in Client, ClaimAlert(c) PROVE MeterTypes'
  <2>1. work' \in [Client -> Works]
    BY <1>11, WorkSteps
  <2>2. work[c].pc = "claim"
    BY <1>11 DEF ClaimAlert, Does
  <2>3. alerts' \in [Scope -> [Period -> [State -> Nat]]] /\ alerted' \in [Scope -> [Period -> State]]
    BY <1>1, <1>10, <1>11, <2>2 DEF ClaimAlert
  <2> QED
    BY <1>1, <1>2, <1>11, <2>1, <2>3 DEF ClaimAlert, MeterTypes, BudgetsTypeOK
<1>12. ASSUME NEW c \in Client, Lapse(c), work[c].pc \in Metering
       PROVE  lapses' \in 0 .. MaxLapses /\ disturbed' \subseteq Scope
  BY <1>1, <1>3, <1>4, <1>12 DEF Lapse
<1>13. ASSUME NEW c \in Client, AlertClaimFails(c) PROVE MeterTypes'
  <2>1. work' \in [Client -> Works]
    BY <1>13, WorkSteps
  <2>2. work[c].pc = "claim" /\ work[c].pc \in Metering /\ Lapse(c)
    BY <1>13 DEF AlertClaimFails, Does, Metering
  <2>3. alerts' \in [Scope -> [Period -> [State -> Nat]]]
    BY <1>10, <1>13, <2>2 DEF AlertClaimFails
  <2> QED
    BY <1>1, <1>2, <1>12, <1>13, <2>1, <2>2, <2>3 DEF AlertClaimFails, MeterTypes, BudgetsTypeOK
<1>14. ASSUME NEW c \in Client, Unmetered(c) PROVE MeterTypes'
  <2>1. work' \in [Client -> Works]
    BY <1>14, WorkSteps
  <2> QED
    BY <1>1, <1>2, <1>12, <1>14, <2>1 DEF Unmetered, MeterTypes, BudgetsTypeOK
<1>15. ASSUME NEW s \in Scope, NEW b \in Budget, SaveBudget(s, b) PROVE MeterTypes'
  <2>1. Bounding(b) \in Nat /\ b.limit \in Nat
    BY <1>3 DEF Bounding
  <2>2. ceiling' \in [Scope -> Nat] /\ budget' \in [Scope -> Budget]
    BY <1>1, <1>15, <2>1 DEF SaveBudget
  <2>3. edits' \in 0 .. MaxEdits /\ disturbed' \subseteq Scope
    BY <1>1, <1>3, <1>15 DEF SaveBudget
  <2> QED
    BY <1>1, <1>15, <2>2, <2>3 DEF SaveBudget, MeterTypes, BudgetsTypeOK
<1>16. CASE NewPeriod
  <2>1. period' \in Period
    BY <1>1, <1>3, <1>16 DEF NewPeriod, Period
  <2> QED
    BY <1>1, <1>16, <2>1 DEF NewPeriod, MeterTypes, BudgetsTypeOK
<1>17. CASE UNCHANGED budgetsVars
  BY <1>1, <1>17 DEF budgetsVars, MeterTypes, BudgetsTypeOK
<1> QED
  BY <1>5, <1>6, <1>7, <1>8, <1>9, <1>11, <1>13, <1>14, <1>15, <1>16, <1>17 DEF BudgetsNext

\* The counters, alerts and calls in flight keep their types.
THEOREM MeterIsTyped == BudgetsSpec => []MeterTypes
BY MeterStart, MeterStep, PTL DEF BudgetsSpec
\* Whether a call, at time t, has yet to charge a period of a scope that let it
\* pass.
Owes(w, t, s, p) ==
  \/ w.pc \in {"get", "look"} /\ w.left = <<w.agent>> /\ w.agent \in Seat /\ s = Crew /\ p >= t
  \/ w.pc = "model" /\ s \in {Crew, w.agent} /\ p >= t
  \/ w.pc = "meter" /\ s = Head(w.left) /\ p >= t
  \/ w.pc \in {"before", "add"} /\ s = Head(w.left) /\ p = w.month
  \/ w.pc \in Metering /\ Len(w.left) = 2 /\ s = w.agent /\ p >= t
Owing(s, p) == {c \in Client : Owes(work[c], period, s, p)}

\* The inductive invariant: what is used, and what calls in flight may still
\* use, is within the ceiling and a call of each client.
WithinSlack(s, p) ==
  ceiling[s] # 0 =>
    usage[s][p] + MaxCost * Cardinality(Owing(s, p)) < ceiling[s] + MaxCost * Cardinality(Client)
OvershootInv ==
  /\ MeterTypes
  /\ \A s \in Scope : ceiling[s] # 0 =>
       budget[s].on /\ budget[s].hard /\ budget[s].limit <= ceiling[s]
  /\ \A c \in Client : work[c].pc = "look" /\ ceiling[Covered(c)] # 0 =>
       work[c].rule.hard /\ work[c].rule.limit <= ceiling[Covered(c)]
  /\ \A s \in Scope, p \in Period : p > period => usage[s][p] = 0
  /\ \A c \in Client : work[c].pc \in {"before", "add"} => work[c].month <= period
  /\ \A s \in Scope, p \in Period : WithinSlack(s, p)

LEMMA Times ==
  ASSUME NEW m \in Nat, NEW n \in Nat
  PROVE  /\ MaxCost * m \in Nat
         /\ m <= n => MaxCost * m <= MaxCost * n
         /\ m < n => MaxCost * m + MaxCost <= MaxCost * n
<1>1. MaxCost \in Nat
  BY MeterAssumption
<1>2. ASSUME m <= n PROVE MaxCost * m <= MaxCost * n
  <2>1. PICK k \in Nat : n = m + k
    <3>1. n - m \in Nat /\ n = m + (n - m)
      BY <1>2
    <3> QED
      BY <3>1
  <2>2. MaxCost * n = MaxCost * m + MaxCost * k /\ MaxCost * k \in Nat /\ MaxCost * m \in Nat
    BY <1>1, <2>1
  <2> QED
    BY <2>2
<1>3. ASSUME m < n PROVE MaxCost * m + MaxCost <= MaxCost * n
  <2>1. PICK k \in Nat : n = m + 1 + k
    <3>1. n - m - 1 \in Nat /\ n = m + 1 + (n - m - 1)
      BY <1>3
    <3> QED
      BY <3>1
  <2>2. MaxCost * n = MaxCost * m + MaxCost + MaxCost * k /\ MaxCost * k \in Nat /\ MaxCost * m \in Nat
    BY <1>1, <2>1
  <2> QED
    BY <1>1, <2>2
<1>4. MaxCost * m \in Nat
  BY <1>1
<1> QED
  BY <1>2, <1>3, <1>4

LEMMA Debtors ==
  ASSUME NEW S \in SUBSET Client
  PROVE  /\ IsFiniteSet(S) /\ Cardinality(S) \in Nat /\ Cardinality(Client) \in Nat
         /\ Cardinality(S) <= Cardinality(Client)
         /\ \A T \in SUBSET S : Cardinality(T) <= Cardinality(S) /\ Cardinality(T) \in Nat
         /\ \A c \in S : \A T \in SUBSET (S \ {c}) : Cardinality(T) < Cardinality(S)
<1>1. IsFiniteSet(Client)
  BY MeterAssumption
<1>2. IsFiniteSet(S) /\ Cardinality(S) <= Cardinality(Client)
  BY <1>1, FS_Subset
<1>3. Cardinality(S) \in Nat /\ Cardinality(Client) \in Nat
  BY <1>1, <1>2, FS_CardinalityType
<1>4. \A T \in SUBSET S : Cardinality(T) <= Cardinality(S) /\ Cardinality(T) \in Nat
  BY <1>2, FS_Subset, FS_CardinalityType
<1>5. ASSUME NEW c \in S, NEW T \in SUBSET (S \ {c}) PROVE Cardinality(T) < Cardinality(S)
  <2>1. IsFiniteSet(S \ {c}) /\ Cardinality(S \ {c}) = Cardinality(S) - 1
    BY <1>2, FS_RemoveElement
  <2>2. Cardinality(T) <= Cardinality(S) - 1 /\ Cardinality(T) \in Nat
    BY <2>1, FS_Subset, FS_CardinalityType
  <2> QED
    BY <1>3, <2>2
<1> QED
  BY <1>2, <1>3, <1>4, <1>5

\* A counter that nobody new owes to stays within its slack, whether or not the
\* ceiling rises; so does one below its ceiling.
LEMMA SlackStays ==
  ASSUME NEW s \in Scope, NEW p \in Period, MeterTypes, MeterTypes', WithinSlack(s, p),
         usage'[s][p] = usage[s][p],
         ceiling'[s] # 0 => ceiling[s] # 0 /\ ceiling[s] <= ceiling'[s],
         \A d \in Client : Owes(work'[d], period', s, p) => Owes(work[d], period, s, p)
  PROVE  WithinSlack(s, p)'
<1> DEFINE O == Owing(s, p)
           P == {c \in Client : Owes(work'[c], period', s, p)}
<1>1. P \subseteq O /\ O \subseteq Client
  BY DEF Owing
<1>2. MaxCost * Cardinality(P) <= MaxCost * Cardinality(O)
      /\ MaxCost * Cardinality(P) \in Nat /\ MaxCost * Cardinality(O) \in Nat
      /\ MaxCost * Cardinality(Client) \in Nat
  <2>1. Cardinality(P) <= Cardinality(O) /\ Cardinality(P) \in Nat /\ Cardinality(O) \in Nat
        /\ Cardinality(Client) \in Nat
    BY <1>1, Debtors
  <2> HIDE DEF O, P
  <2> QED
    BY <2>1, Times
<1>3. usage[s][p] \in Nat /\ ceiling[s] \in Nat /\ ceiling'[s] \in Nat
  BY DEF MeterTypes, BudgetsTypeOK
<1>4. Owing(s, p)' = P
  BY DEF Owing
<1>5. ASSUME ceiling'[s] # 0
      PROVE usage[s][p] + MaxCost * Cardinality(P) < ceiling'[s] + MaxCost * Cardinality(Client)
  <2>1. usage[s][p] + MaxCost * Cardinality(O) < ceiling[s] + MaxCost * Cardinality(Client)
    BY <1>5 DEF WithinSlack
  <2> HIDE DEF O, P
  <2> QED
    BY <1>2, <1>3, <1>5, <2>1
<1> QED
  BY <1>4, <1>5 DEF WithinSlack

LEMMA SlackBelow ==
  ASSUME NEW s \in Scope, NEW p \in Period, MeterTypes', ceiling'[s] # 0 => usage'[s][p] < ceiling'[s]
  PROVE  WithinSlack(s, p)'
<1> DEFINE P == {c \in Client : Owes(work'[c], period', s, p)}
<1>1. P \subseteq Client
  OBVIOUS
<1>2. MaxCost * Cardinality(P) <= MaxCost * Cardinality(Client)
      /\ MaxCost * Cardinality(P) \in Nat /\ MaxCost * Cardinality(Client) \in Nat
  <2>1. Cardinality(P) <= Cardinality(Client) /\ Cardinality(P) \in Nat /\ Cardinality(Client) \in Nat
    BY <1>1, Debtors
  <2> HIDE DEF P
  <2> QED
    BY <2>1, Times
<1>3. usage'[s][p] \in Nat /\ ceiling'[s] \in Nat
  BY DEF MeterTypes, BudgetsTypeOK
<1>4. Owing(s, p)' = P
  BY DEF Owing
<1> HIDE DEF P
<1>5. ceiling'[s] # 0 =>
        usage'[s][p] + MaxCost * Cardinality(P) < ceiling'[s] + MaxCost * Cardinality(Client)
  BY <1>2, <1>3
<1> QED
  BY <1>4, <1>5 DEF WithinSlack
\* The step of a call only pays what it owes, or takes on the scope that let it
\* pass.
LEMMA Debts ==
  ASSUME MeterTypes, NEW c \in Client, NEW s \in Scope, NEW p \in Period
  PROVE  /\ \A a \in Seat \cup {"none"} : Complete(c, a) => ~Owes(work'[c], period, s, p)
         /\ Ended(c) => ~Owes(work'[c], period, s, p)
         /\ \A cost \in Cost : Answered(c, cost) =>
              (Owes(work'[c], period, s, p) => Owes(work[c], period, s, p))
         /\ MeterScope(c) \/ ReadBefore(c) \/ ClaimAlert(c) \/ AlertClaimFails(c) =>
              (Owes(work'[c], period, s, p) => Owes(work[c], period, s, p))
         /\ AddUsage(c) => /\ Owes(work'[c], period, s, p) => Owes(work[c], period, s, p)
                           /\ ~Owes(work'[c], period, Covered(c), work[c].month)
                           /\ Owes(work[c], period, Covered(c), work[c].month)
         /\ \A b : work[c].pc \in {"get", "look"} /\ Admitted(c, b) /\ Owes(work'[c], period, s, p) =>
              Owes(work[c], period, s, p) \/ (s = Covered(c) /\ p >= period)
<1> DEFINE w == work[c]
<1>1. /\ work \in [Client -> Works] /\ w \in Works /\ w.agent \in Seat \cup {"none"}
      /\ \A v : [work EXCEPT ![c] = v][c] = v
  BY DEF MeterTypes, BudgetsTypeOK, WorkType
<1>2. w.pc \in {"get", "look"} \cup Metering =>
        /\ w.left \in Route(w.agent) /\ Covered(c) = Head(w.left) /\ Len(w.left) \in {1, 2}
        /\ Len(w.left) = 2 => w.agent \in Seat /\ Covered(c) = Crew /\ Tail(w.left) = <<w.agent>>
        /\ Len(w.left) = 1 => Tail(w.left) = <<>>
        /\ Len(w.left) = 1 /\ w.agent \in Seat => w.left = <<w.agent>> /\ Covered(c) = w.agent
        /\ Len(w.left) = 1 /\ w.agent = "none" => Covered(c) = Crew
  BY <1>1, Routes DEF Works, Covered
<1>3. /\ Crew \notin Seat /\ "none" \notin Scope /\ "none" \notin Seat
      /\ \A a : Head(<<a>>) = a /\ Len(<<a>>) = 1
      /\ \A a, b : Len(<<a, b>>) = 2 /\ Head(<<a, b>>) = a
  BY MeterAssumption DEF Crew, Scope
<1>4. ASSUME NEW a \in Seat \cup {"none"}, Complete(c, a) PROVE ~Owes(work'[c], period, s, p)
  <2>1. work'[c].pc = "get" /\ work'[c].left = ScopesOf(a) /\ work'[c].agent = a
    BY <1>1, <1>4 DEF Complete, NoWorkYet
  <2>2. a \in Seat => Len(ScopesOf(a)) = 2 /\ Len(<<a>>) = 1
    BY <1>3 DEF ScopesOf
  <2> QED
    BY <2>1, <2>2 DEF Owes, Metering
<1>5. ASSUME Ended(c) PROVE ~Owes(work'[c], period, s, p)
  BY <1>1, <1>5 DEF Ended, NoWorkYet, Owes, Metering
<1>6. ASSUME NEW cost \in Cost, Answered(c, cost), Owes(work'[c], period, s, p)
      PROVE Owes(work[c], period, s, p)
  <2>1. /\ work'[c].pc = "meter" /\ work'[c].left = ScopesOf(w.agent) /\ work'[c].agent = w.agent
        /\ w.pc = "model"
    BY <1>1, <1>6 DEF Answered, Does, Works, WorkType
  <2>2. Head(ScopesOf(w.agent)) = Crew
    BY <1>3 DEF ScopesOf
  <2> QED
    BY <1>6, <2>1, <2>2 DEF Owes
<1>7. ASSUME MeterScope(c), Owes(work'[c], period, s, p) PROVE Owes(work[c], period, s, p)
  <2>1. /\ work'[c].pc \in {"before", "add"} /\ work'[c].left = w.left /\ work'[c].agent = w.agent
        /\ work'[c].month = period /\ w.pc = "meter"
    BY <1>1, <1>7 DEF MeterScope, Does, Works, WorkType
  <2>2. p >= p
    BY DEF Period
  <2> QED
    BY <1>7, <2>1, <2>2 DEF Owes, Metering
<1>8. ASSUME ReadBefore(c), Owes(work'[c], period, s, p) PROVE Owes(work[c], period, s, p)
  <2>1. /\ work'[c].pc = "add" /\ work'[c].left = w.left /\ work'[c].agent = w.agent
        /\ work'[c].month = w.month /\ w.pc = "before"
    BY <1>1, <1>8 DEF ReadBefore, Does, Works, WorkType
  <2> QED
    BY <1>8, <2>1 DEF Owes, Metering
<1>9. ASSUME w.pc \in Metering, work'[c] = Metered(c), Owes(work'[c], period, s, p)
      PROVE  w.agent \in Seat /\ s = w.agent /\ p >= period /\ Len(w.left) = 2
  <2>1. Len(w.left) # 1
    BY <1>9 DEF Metered, NoWorkYet, Owes, Metering
  <2>2. /\ work'[c].pc = "meter" /\ work'[c].left = <<w.agent>> /\ work'[c].agent = w.agent
        /\ Len(w.left) = 2 /\ w.agent \in Seat
    BY <1>1, <1>2, <1>9, <2>1 DEF Metered, Works, WorkType
  <2> QED
    BY <1>3, <1>9, <2>2 DEF Owes
<1>10. ASSUME ClaimAlert(c) \/ AlertClaimFails(c), Owes(work'[c], period, s, p)
       PROVE  Owes(work[c], period, s, p)
  <2>1. w.pc = "claim" /\ work'[c] = Metered(c)
    BY <1>1, <1>10 DEF ClaimAlert, AlertClaimFails, Does
  <2> QED
    BY <1>9, <1>10, <2>1 DEF Owes, Metering
<1>11. ASSUME AddUsage(c)
       PROVE  /\ Owes(work'[c], period, s, p) => Owes(work[c], period, s, p)
              /\ ~Owes(work'[c], period, Covered(c), work[c].month)
              /\ Owes(work[c], period, Covered(c), work[c].month)
  <2>1. w.pc = "add" /\ w.pc \in Metering
    BY <1>11 DEF AddUsage, Does, Metering
  <2>2. \/ work'[c] = Metered(c)
        \/ work'[c].pc = "claim" /\ work'[c].left = w.left /\ work'[c].agent = w.agent
    BY <1>1, <1>11 DEF AddUsage, Works, WorkType
  <2>3. ASSUME NEW t \in Scope, NEW q, Owes(work'[c], period, t, q)
        PROVE  t = w.agent /\ q >= period /\ Len(w.left) = 2 /\ w.agent \in Seat
    <3>1. CASE work'[c] = Metered(c)
      <4>1. Len(w.left) # 1
        BY <2>1, <2>3, <3>1 DEF Metered, NoWorkYet, Owes, Metering
      <4>2. /\ work'[c].pc = "meter" /\ work'[c].left = <<w.agent>> /\ work'[c].agent = w.agent
            /\ Len(w.left) = 2 /\ w.agent \in Seat
        BY <1>1, <1>2, <2>1, <3>1, <4>1 DEF Metered, Works, WorkType
      <4> QED
        BY <1>3, <2>3, <4>2 DEF Owes
    <3>2. CASE work'[c].pc = "claim" /\ work'[c].left = w.left /\ work'[c].agent = w.agent
      BY <1>2, <2>1, <2>3, <3>2 DEF Owes
    <3> QED
      BY <2>2, <3>1, <3>2
  <2>4. Covered(c) \in Scope
    BY <1>1, <1>2, <2>1, Routes
  <2>5. Len(w.left) = 2 => Covered(c) # w.agent
    BY <1>2, <1>3, <2>1
  <2> QED
    BY <1>2, <2>1, <2>3, <2>4, <2>5 DEF Owes
<1>12. ASSUME NEW b, w.pc \in {"get", "look"}, Admitted(c, b), Owes(work'[c], period, s, p)
       PROVE  Owes(work[c], period, s, p) \/ (s = Covered(c) /\ p >= period)
  <2>1. /\ work'[c].left = Tail(w.left) /\ work'[c].agent = w.agent
        /\ work'[c].pc = IF Len(w.left) = 1 THEN "model" ELSE "get"
    BY <1>1, <1>12 DEF Admitted, Works, WorkType
  <2>2. CASE Len(w.left) = 1
    <3>1. work'[c].pc = "model" /\ s \in {Crew, w.agent} /\ p >= period
      BY <1>12, <2>1, <2>2 DEF Owes, Metering
    <3> QED
      BY <1>1, <1>2, <1>3, <1>12, <2>2, <3>1 DEF Owes
  <2>3. CASE Len(w.left) = 2
    BY <1>2, <1>12, <2>1, <2>3 DEF Owes, Metering
  <2> QED
    BY <1>2, <1>12, <2>2, <2>3
<1> QED
  BY <1>4, <1>5, <1>6, <1>7, <1>8, <1>10, <1>11, <1>12
LEMMA OvershootStart == BudgetsInit => OvershootInv
<1> SUFFICES ASSUME BudgetsInit PROVE OvershootInv
  OBVIOUS
<1>1. MeterTypes
  BY MeterStart
<1>2. \A c \in Client : work[c].pc = "idle"
  BY DEF BudgetsInit, NoWorkYet
<1>3. ASSUME NEW s \in Scope, ceiling[s] # 0
      PROVE  budget[s].on /\ budget[s].hard /\ ceiling[s] = budget[s].limit /\ budget[s].limit \in Nat
  BY <1>3, LimitsAreNumbers DEF BudgetsInit, Bounding
<1>4. ASSUME NEW s \in Scope, NEW p \in Period
      PROVE  WithinSlack(s, p) /\ usage[s][p] = 0
  <2>1. Owing(s, p) = {} /\ usage[s][p] = 0
    BY <1>2, <1>4 DEF Owing, Owes, Metering, BudgetsInit
  <2>2. Cardinality({}) = 0 /\ Cardinality(Client) \in Nat
    BY FS_EmptySet, Debtors
  <2>3. MaxCost * 0 = 0 /\ MaxCost * Cardinality(Client) \in Nat
    BY <2>2, Times, MeterAssumption
  <2>4. ceiling[s] \in Nat
    BY <1>1 DEF MeterTypes, BudgetsTypeOK
  <2> QED
    BY <2>1, <2>2, <2>3, <2>4 DEF WithinSlack
<1> QED
  BY <1>1, <1>2, <1>3, <1>4 DEF OvershootInv

LEMMA OvershootStep == OvershootInv /\ [BudgetsNext]_budgetsVars => OvershootInv'
<1> SUFFICES ASSUME OvershootInv, [BudgetsNext]_budgetsVars PROVE OvershootInv'
  OBVIOUS
<1>1. MeterTypes /\ MeterTypes'
  BY MeterStep DEF OvershootInv
<1>2. /\ budget \in [Scope -> Budget] /\ usage \in [Scope -> [Period -> Nat]] /\ period \in Period
      /\ work \in [Client -> Works] /\ work \in [Client -> WorkType] /\ ceiling \in [Scope -> Nat]
      /\ work' \in [Client -> Works] /\ period' \in Period /\ ceiling' \in [Scope -> Nat]
      /\ usage' \in [Scope -> [Period -> Nat]]
  BY <1>1 DEF MeterTypes, BudgetsTypeOK
<1>3. Period \subseteq Nat
  BY DEF Period
<1>4. ASSUME NEW c \in Client, work[c].pc \in {"get", "look"} \cup Metering
      PROVE  Covered(c) \in Scope /\ work[c].month \in Period /\ work[c].cost \in Cost \cup {0}
  BY <1>2, <1>4, Routes DEF Works, WorkType, Covered
\* A step that changes the work of one client only.
<1>5. ASSUME NEW c \in Client, NEW v, work' = [work EXCEPT ![c] = v],
             UNCHANGED <<budget, usage, period, ceiling>>,
             v.pc = "look" /\ ceiling[Head(v.left)] # 0 =>
               v.rule.hard /\ v.rule.limit <= ceiling[Head(v.left)],
             v.pc \in {"before", "add"} => v.month <= period,
             \A s \in Scope, p \in Period : Owes(v, period, s, p) =>
               Owes(work[c], period, s, p) \/ (ceiling[s] # 0 => usage[s][p] < ceiling[s])
      PROVE  OvershootInv'
  <2>1. work'[c] = v /\ \A d \in Client \ {c} : work'[d] = work[d]
    BY <1>2, <1>5
  <2>2. \A d \in Client : work'[d].pc = "look" /\ ceiling[Covered(d)'] # 0 =>
          work'[d].rule.hard /\ work'[d].rule.limit <= ceiling[Covered(d)']
    BY <1>5, <2>1 DEF OvershootInv, Covered
  <2>3. \A d \in Client : work'[d].pc \in {"before", "add"} => work'[d].month <= period
    BY <1>5, <2>1 DEF OvershootInv
  <2>4. ASSUME NEW s \in Scope, NEW p \in Period PROVE WithinSlack(s, p)'
    <3>1. CASE Owes(v, period, s, p) => Owes(work[c], period, s, p)
      <4>1. \A d \in Client : Owes(work'[d], period', s, p) => Owes(work[d], period, s, p)
        BY <1>5, <2>1, <3>1
      <4> QED
        BY <1>1, <1>2, <1>5, <4>1, SlackStays DEF OvershootInv
    <3>2. CASE ceiling[s] # 0 => usage[s][p] < ceiling[s]
      BY <1>1, <1>5, <3>2, SlackBelow
    <3> QED
      BY <1>5, <3>1, <3>2
  <2> QED
    BY <1>1, <1>5, <2>2, <2>3, <2>4 DEF OvershootInv
<1>6. ASSUME NEW c \in Client, NEW a \in Seat \cup {"none"}, Complete(c, a) PROVE OvershootInv'
  <2> DEFINE v == [NoWorkYet EXCEPT !.pc = "get", !.agent = a, !.left = ScopesOf(a)]
  <2>1. v.pc = "get" /\ work' = [work EXCEPT ![c] = v] /\ work'[c] = v
    BY <1>2, <1>6 DEF Complete, NoWorkYet
  <2>2. \A s \in Scope, p \in Period : ~Owes(v, period, s, p)
    BY <1>1, <1>6, <2>1, Debts
  <2> HIDE DEF v
  <2> QED
    BY <1>5, <1>6, <2>1, <2>2 DEF Complete
<1>7. ASSUME NEW c \in Client, Ended(c), UNCHANGED <<budget, usage, period, ceiling>>
      PROVE  OvershootInv'
  <2>1. NoWorkYet.pc = "idle" /\ work'[c] = NoWorkYet
    BY <1>2, <1>7 DEF Ended, NoWorkYet
  <2>2. \A s \in Scope, p \in Period : ~Owes(NoWorkYet, period, s, p)
    BY <1>1, <1>7, <2>1, Debts
  <2> QED
    BY <1>5, <1>7, <2>1, <2>2 DEF Ended
<1>8. ASSUME NEW c \in Client, NEW b, work[c].pc \in {"get", "look"}, Admitted(c, b),
             UNCHANGED <<budget, usage, period, ceiling>>,
             ceiling[Covered(c)] # 0 => usage[Covered(c)][period] < ceiling[Covered(c)]
      PROVE  OvershootInv'
  <2> DEFINE v == [work[c] EXCEPT !.rule = NoBudget, !.left = Tail(work[c].left),
                                  !.pc = IF Len(work[c].left) = 1 THEN "model" ELSE "get"]
  <2>1. work' = [work EXCEPT ![c] = v] /\ work'[c] = v /\ v.pc \in {"model", "get"}
    BY <1>2, <1>8 DEF Admitted, WorkType
  <2>2. \A s \in Scope, p \in Period : Owes(v, period, s, p) =>
          Owes(work[c], period, s, p) \/ (s = Covered(c) /\ p >= period)
    BY <1>1, <1>8, <2>1, Debts
  <2>3. \A p \in Period : p >= period /\ ceiling[Covered(c)] # 0 =>
          usage[Covered(c)][p] < ceiling[Covered(c)]
    <3>1. Covered(c) \in Scope
      BY <1>4, <1>8
    <3>2. ASSUME NEW p \in Period, p > period, ceiling[Covered(c)] # 0
          PROVE  usage[Covered(c)][p] < ceiling[Covered(c)]
      BY <1>2, <3>1, <3>2 DEF OvershootInv
    <3> QED
      BY <1>2, <1>3, <1>8, <3>2
  <2> HIDE DEF v
  <2> QED
    BY <1>5, <1>8, <2>1, <2>2, <2>3
<1>9. ASSUME NEW c \in Client, GetBudget(c) PROVE OvershootInv'
  <2> DEFINE b == budget[Covered(c)]
  <2>1. work[c].pc = "get" /\ Covered(c) \in Scope
    BY <1>4, <1>9 DEF GetBudget, Does
  <2>2. CASE b.on
    <3> DEFINE v == [work[c] EXCEPT !.pc = "look", !.rule = b]
    <3>1. work' = [work EXCEPT ![c] = v] /\ v.pc = "look" /\ v.left = work[c].left /\ v.rule = b
          /\ v.agent = work[c].agent
      <4>1. work' = [work EXCEPT ![c] = v]
        BY <1>9, <2>2 DEF GetBudget
      <4>2. v.pc = "look" /\ v.left = work[c].left /\ v.rule = b /\ v.agent = work[c].agent
        BY <1>2 DEF WorkType
      <4> QED
        BY <4>1, <4>2
    <3>2. ceiling[Head(v.left)] # 0 => v.rule.hard /\ v.rule.limit <= ceiling[Head(v.left)]
      BY <2>1, <3>1 DEF OvershootInv, Covered
    <3>3. \A s \in Scope, p \in Period : Owes(v, period, s, p) => Owes(work[c], period, s, p)
      BY <2>1, <3>1 DEF Owes, Metering
    <3> HIDE DEF v
    <3> QED
      BY <1>5, <1>9, <3>1, <3>2, <3>3 DEF GetBudget
  <2>3. CASE ~b.on
    <3>1. Admitted(c, b) /\ ceiling[Covered(c)] = 0
      BY <1>9, <2>1, <2>3 DEF GetBudget, OvershootInv
    <3> QED
      BY <1>8, <1>9, <2>1, <3>1 DEF GetBudget
  <2> QED
    BY <2>2, <2>3
<1>10. ASSUME NEW c \in Client, LookAtUsage(c) PROVE OvershootInv'
  <2> DEFINE s == Covered(c)  r == work[c].rule
  <2>1. work[c].pc = "look" /\ s \in Scope
    BY <1>4, <1>10 DEF LookAtUsage, Does
  <2>2. CASE Blocks(r, usage[s][period])
    BY <1>7, <1>10, <2>2 DEF LookAtUsage
  <2>3. CASE ~Blocks(r, usage[s][period])
    <3>1. Admitted(c, r)
      BY <1>10, <2>3 DEF LookAtUsage
    <3>2. r.limit \in Nat /\ usage[s][period] \in Nat /\ ceiling[s] \in Nat
      BY <1>2, <2>1, LimitsAreNumbers DEF WorkType
    <3>3. ASSUME ceiling[s] # 0 PROVE usage[s][period] < ceiling[s]
      <4>1. r.hard /\ r.limit <= ceiling[s]
        BY <2>1, <3>3 DEF OvershootInv
      <4>2. ~(usage[s][period] >= r.limit)
        BY <2>3, <4>1 DEF Blocks, Standing
      <4> QED
        BY <3>2, <4>1, <4>2
    <3> QED
      BY <1>8, <1>10, <2>1, <3>1, <3>3 DEF LookAtUsage
  <2> QED
    BY <2>2, <2>3
<1>11. ASSUME NEW c \in Client, NEW cost \in Cost, Answered(c, cost) PROVE OvershootInv'
  <2> DEFINE v == [work[c] EXCEPT !.pc = "meter", !.cost = cost, !.left = ScopesOf(work[c].agent)]
  <2>1. work' = [work EXCEPT ![c] = v] /\ work'[c] = v /\ v.pc = "meter"
    BY <1>2, <1>11 DEF Answered, WorkType
  <2>2. \A s \in Scope, p \in Period : Owes(v, period, s, p) => Owes(work[c], period, s, p)
    BY <1>1, <1>11, <2>1, Debts
  <2> HIDE DEF v
  <2> QED
    BY <1>5, <1>11, <2>1, <2>2 DEF Answered
<1>12. ASSUME NEW c \in Client, MeterScope(c) PROVE OvershootInv'
  <2> DEFINE b == budget[Covered(c)]
             v == [work[c] EXCEPT !.pc = IF b.on THEN "before" ELSE "add", !.rule = b, !.month = period]
  <2>1. work' = [work EXCEPT ![c] = v] /\ work'[c] = v /\ v.pc \in {"before", "add"} /\ v.month = period
    BY <1>2, <1>12 DEF MeterScope, WorkType
  <2>2. \A s \in Scope, p \in Period : Owes(v, period, s, p) => Owes(work[c], period, s, p)
    BY <1>1, <1>12, <2>1, Debts
  <2>3. period <= period
    BY <1>2, <1>3
  <2> HIDE DEF v
  <2> QED
    BY <1>5, <1>12, <2>1, <2>2, <2>3 DEF MeterScope
<1>13. ASSUME NEW c \in Client, ReadBefore(c) PROVE OvershootInv'
  <2> DEFINE v == [work[c] EXCEPT !.pc = "add",
                     !.before = Standing(work[c].rule.limit, usage[Covered(c)][work[c].month])]
  <2>1. work' = [work EXCEPT ![c] = v] /\ work'[c] = v /\ v.pc = "add" /\ v.month = work[c].month
        /\ work[c].pc = "before"
    BY <1>2, <1>13 DEF ReadBefore, Does, WorkType
  <2>2. \A s \in Scope, p \in Period : Owes(v, period, s, p) => Owes(work[c], period, s, p)
    BY <1>1, <1>13, <2>1, Debts
  <2>3. v.month <= period
    BY <2>1 DEF OvershootInv
  <2> HIDE DEF v
  <2> QED
    BY <1>5, <1>13, <2>1, <2>2, <2>3 DEF ReadBefore
<1>14. ASSUME NEW c \in Client PROVE Metered(c).pc \in {"idle", "meter"}
  BY <1>2 DEF Metered, NoWorkYet, WorkType
<1>15. ASSUME NEW c \in Client, ClaimAlert(c) \/ AlertClaimFails(c) PROVE OvershootInv'
  <2>1. work' = [work EXCEPT ![c] = Metered(c)] /\ work'[c] = Metered(c)
        /\ UNCHANGED <<budget, usage, period, ceiling>>
    BY <1>2, <1>15 DEF ClaimAlert, AlertClaimFails
  <2>2. \A s \in Scope, p \in Period : Owes(Metered(c), period, s, p) => Owes(work[c], period, s, p)
    BY <1>1, <1>15, <2>1, Debts
  <2> QED
    BY <1>5, <1>14, <2>1, <2>2
<1>16. ASSUME NEW c \in Client, AddUsage(c) PROVE OvershootInv'
  <2>0. PICK s0 \in Scope, m0 \in Period : s0 = Covered(c) /\ m0 = work[c].month
    BY <1>4, <1>16 DEF AddUsage, Does, Metering
  <2>1. /\ work[c].pc = "add" /\ m0 <= period
        /\ work[c].cost \in Cost /\ UNCHANGED <<budget, period, ceiling>>
    BY <1>2, <1>16, <2>0 DEF AddUsage, Does, OvershootInv, Works, Metering
  <2>2. /\ usage' = [usage EXCEPT ![s0][m0] = usage[s0][m0] + work[c].cost]
        /\ \A d \in Client \ {c} : work'[d] = work[d]
        /\ work'[c].pc \in {"idle", "meter", "claim"}
    BY <1>2, <1>14, <1>16, <2>0 DEF AddUsage, WorkType
  <2>3. /\ usage'[s0][m0] = usage[s0][m0] + work[c].cost
        /\ \A s \in Scope, p \in Period : s # s0 \/ p # m0 => usage'[s][p] = usage[s][p]
    BY <1>2, <2>1, <2>2
  <2>4. ASSUME NEW s \in Scope, NEW p \in Period
        PROVE  \A d \in Client : Owes(work'[d], period', s, p) => Owes(work[d], period, s, p)
    BY <1>1, <1>16, <2>1, <2>2, Debts
  <2>5. ASSUME NEW s \in Scope, NEW p \in Period, s # s0 \/ p # m0 PROVE WithinSlack(s, p)'
    BY <1>1, <1>2, <2>1, <2>3, <2>4, <2>5, SlackStays DEF OvershootInv
  <2>6. WithinSlack(s0, m0)'
    <3> DEFINE O == Owing(s0, m0)
               P == {d \in Client : Owes(work'[d], period', s0, m0)}
    <3>1. c \in O /\ P \subseteq O \ {c} /\ O \subseteq Client
      BY <1>1, <1>16, <2>0, <2>1, <2>4, Debts DEF Owing
    <3>2. Cardinality(P) < Cardinality(O) /\ Cardinality(P) \in Nat /\ Cardinality(O) \in Nat
          /\ Cardinality(Client) \in Nat
      BY <3>1, Debtors
    <3>3. Owing(s0, m0)' = P
      BY DEF Owing
    <3> HIDE DEF O, P
    <3>4. MaxCost * Cardinality(P) + MaxCost <= MaxCost * Cardinality(O)
          /\ MaxCost * Cardinality(P) \in Nat /\ MaxCost * Cardinality(O) \in Nat
          /\ MaxCost * Cardinality(Client) \in Nat
      BY <3>2, Times
    <3>5. work[c].cost <= MaxCost /\ work[c].cost \in Nat /\ MaxCost \in Nat
      BY <2>1, MeterAssumption DEF Cost
    <3>6. usage[s0][m0] \in Nat /\ ceiling[s0] \in Nat
      BY <1>2, <2>1
    <3>7. ASSUME ceiling[s0] # 0
          PROVE  usage'[s0][m0] + MaxCost * Cardinality(P) < ceiling[s0] + MaxCost * Cardinality(Client)
      <4>1. usage[s0][m0] + MaxCost * Cardinality(O) < ceiling[s0] + MaxCost * Cardinality(Client)
        BY <2>1, <3>7 DEF OvershootInv, WithinSlack, O
      <4> QED
        BY <2>3, <3>4, <3>5, <3>6, <4>1
    <3> QED
      BY <2>1, <3>3, <3>7 DEF WithinSlack
  <2>7. \A s \in Scope, p \in Period : p > period' => usage'[s][p] = 0
    BY <1>2, <1>3, <2>1, <2>3 DEF OvershootInv
  <2>8. \A d \in Client : /\ work'[d].pc = "look" => work'[d] = work[d]
                          /\ work'[d].pc \in {"before", "add"} => work'[d] = work[d]
    BY <2>2
  <2> QED
    <3>1. \A s \in Scope, p \in Period : WithinSlack(s, p)'
      BY <2>5, <2>6
    <3>2. \A d \in Client : work'[d].pc = "look" /\ ceiling'[Covered(d)'] # 0 =>
            work'[d].rule.hard /\ work'[d].rule.limit <= ceiling'[Covered(d)']
      BY <2>1, <2>8 DEF OvershootInv, Covered
    <3>3. \A d \in Client : work'[d].pc \in {"before", "add"} => work'[d].month <= period'
      BY <2>1, <2>8 DEF OvershootInv
    <3> QED
      BY <1>1, <2>1, <2>7, <3>1, <3>2, <3>3 DEF OvershootInv
<1>17. ASSUME NEW s0 \in Scope, NEW b \in Budget, SaveBudget(s0, b) PROVE OvershootInv'
  <2>1. UNCHANGED <<usage, period, work>>
    BY <1>17 DEF SaveBudget
  <2>2. b.limit \in Nat
    BY LimitsAreNumbers
  <2>3. ASSUME NEW s \in Scope, ceiling'[s] # 0
        PROVE  /\ ceiling[s] # 0 /\ ceiling[s] <= ceiling'[s]
               /\ budget'[s].on /\ budget'[s].hard /\ budget'[s].limit <= ceiling'[s]
    <3>1. CASE s # s0
      BY <1>2, <1>17, <2>3, <3>1 DEF SaveBudget, OvershootInv
    <3>2. CASE s = s0
      <4>1. /\ budget'[s] = b
            /\ ceiling'[s] = IF ceiling[s] = 0 \/ Bounding(b) = 0 THEN 0
                             ELSE IF ceiling[s] > b.limit THEN ceiling[s] ELSE b.limit
        BY <1>2, <1>17, <3>2 DEF SaveBudget
      <4>2. ceiling[s] # 0 /\ b.on /\ b.hard
        BY <2>3, <4>1 DEF Bounding
      <4> QED
        BY <1>2, <2>2, <4>1, <4>2, <2>3
    <3> QED
      BY <3>1, <3>2
  <2>4. ASSUME NEW s \in Scope, NEW p \in Period PROVE WithinSlack(s, p)'
    BY <1>1, <2>1, <2>3, SlackStays DEF OvershootInv
  <2>5. ASSUME NEW c \in Client, work[c].pc = "look", ceiling'[Covered(c)] # 0
        PROVE  work[c].rule.hard /\ work[c].rule.limit <= ceiling'[Covered(c)]
    <3>1. Covered(c) \in Scope /\ work[c].rule.limit \in Nat
      BY <1>2, <1>4, <2>5, LimitsAreNumbers DEF WorkType
    <3>2. ceiling[Covered(c)] # 0 /\ ceiling[Covered(c)] <= ceiling'[Covered(c)]
      BY <2>3, <2>5, <3>1
    <3>3. work[c].rule.hard /\ work[c].rule.limit <= ceiling[Covered(c)]
      BY <2>5, <3>2 DEF OvershootInv
    <3> QED
      BY <1>2, <3>1, <3>2, <3>3
  <2> QED
    BY <1>1, <2>1, <2>3, <2>4, <2>5 DEF OvershootInv, Covered
<1>18. CASE NewPeriod
  <2>1. UNCHANGED <<budget, usage, work, ceiling>> /\ period' = period + 1
    BY <1>18 DEF NewPeriod
  <2>2. ASSUME NEW s \in Scope, NEW p \in Period, NEW d \in Client, Owes(work[d], period + 1, s, p)
        PROVE  Owes(work[d], period, s, p)
    <3>1. p >= period + 1 => p >= period
      BY <1>2, <1>3
    <3> QED
      BY <2>2, <3>1 DEF Owes
  <2>3. ASSUME NEW s \in Scope, NEW p \in Period PROVE WithinSlack(s, p)'
    BY <1>1, <1>2, <2>1, <2>2, SlackStays DEF OvershootInv
  <2>4. \A s \in Scope, p \in Period : p > period + 1 => usage[s][p] = 0
    BY <1>2, <1>3 DEF OvershootInv
  <2>5. \A c \in Client : work[c].pc \in {"before", "add"} => work[c].month <= period + 1
    <3>1. ASSUME NEW c \in Client, work[c].pc \in {"before", "add"} PROVE work[c].month <= period + 1
      <4>1. work[c].month <= period /\ work[c].month \in Nat /\ period \in Nat
        BY <1>2, <1>3, <3>1 DEF OvershootInv, WorkType
      <4> QED
        BY <4>1
    <3> QED
      BY <3>1
  <2> QED
    BY <1>1, <2>1, <2>3, <2>4, <2>5 DEF OvershootInv, Covered
<1>19. CASE UNCHANGED budgetsVars
  <2>1. UNCHANGED <<budget, usage, period, work, ceiling>>
    BY <1>19 DEF budgetsVars
  <2>2. ASSUME NEW s \in Scope, NEW p \in Period PROVE WithinSlack(s, p)'
    BY <1>1, <1>2, <2>1, SlackStays DEF OvershootInv
  <2> QED
    BY <1>1, <2>1, <2>2 DEF OvershootInv, Covered
<1>20. ASSUME NEW c \in Client, GivesUp(c) \/ Unmetered(c) PROVE OvershootInv'
  BY <1>7, <1>20 DEF GivesUp, Unmetered
<1> QED
  BY <1>6, <1>9, <1>10, <1>11, <1>12, <1>13, <1>15, <1>16, <1>17, <1>18, <1>19, <1>20 DEF BudgetsNext

\* "Check first" is a read of a counter that is charged after the call: for any
\* clients, budgets, edits, periods and lost writes, a hard limit is overrun by
\* less than what one call of every client costs.
THEOREM OvershootIsBounded == BudgetsSpec => []OvershootBounded
<1>1. OvershootInv => OvershootBounded
  <2> SUFFICES ASSUME OvershootInv, NEW s \in Scope, NEW p \in Period, ceiling[s] # 0
               PROVE  usage[s][p] < ceiling[s] + Cardinality(Client) * MaxCost
    BY DEF OvershootBounded
  <2> DEFINE O == Owing(s, p)
  <2>1. O \in SUBSET Client
    BY DEF Owing
  <2>2. usage[s][p] + MaxCost * Cardinality(O) < ceiling[s] + MaxCost * Cardinality(Client)
    BY DEF OvershootInv, WithinSlack
  <2>3. usage[s][p] \in Nat /\ ceiling[s] \in Nat
    BY DEF OvershootInv, MeterTypes, BudgetsTypeOK
  <2>4. Cardinality(O) \in Nat /\ Cardinality(Client) \in Nat
    BY <2>1, Debtors
  <2> HIDE DEF O
  <2>5. MaxCost * Cardinality(O) \in Nat /\ MaxCost * Cardinality(Client) \in Nat
        /\ Cardinality(Client) * MaxCost = MaxCost * Cardinality(Client)
    BY <2>4, Times, MeterAssumption
  <2> QED
    BY <2>2, <2>3, <2>5
<1> QED
  BY <1>1, OvershootStart, OvershootStep, PTL DEF BudgetsSpec
\* How bad a standing is.  A counter that grew does not stand better.
Rank(st) == IF st = "ok" THEN 0 ELSE IF st = "warning" THEN 1 ELSE 2

LEMMA StandingGrows ==
  ASSUME NEW l \in Nat, NEW u \in Nat, NEW v \in Nat, u <= v
  PROVE  Rank(Standing(l, u)) <= Rank(Standing(l, v))
BY DEF Rank, Standing

LEMMA Ranks ==
  /\ \A st \in State : Rank(st) \in 0 .. 2
  /\ \A st, su \in State : Rank(st) = Rank(su) => st = su
BY DEF Rank, State

\* The inductive invariant: a call claims a worse standing than it found, and
\* what the alert column has not reached was not announced but by failed claims.
Told(s, p, st) == IF 1 <= Rank(st) /\ Rank(st) <= Rank(alerted[s][p]) THEN 1 ELSE 0
AnnounceInv ==
  /\ MeterTypes
  /\ \A c \in Client : work[c].pc = "add" /\ work[c].rule.on =>
       Rank(work[c].before) <=
         Rank(Standing(work[c].rule.limit, usage[Covered(c)][work[c].month]))
  /\ \A c \in Client : work[c].pc = "claim" => Rank(work[c].before) < Rank(work[c].after)
  /\ \A s \in Scope, p \in Period, st \in State : alerts[s][p][st] <= lapses + Told(s, p, st)

LEMMA AnnounceStart == BudgetsInit => AnnounceInv
<1> SUFFICES ASSUME BudgetsInit PROVE AnnounceInv
  OBVIOUS
<1>1. \A c \in Client : work[c].pc = "idle"
  BY DEF BudgetsInit, NoWorkYet
<1>2. \A s \in Scope, p \in Period, st \in State : alerts[s][p][st] <= lapses + Told(s, p, st)
  BY DEF BudgetsInit, Told
<1> QED
  BY <1>1, <1>2, MeterStart DEF AnnounceInv

LEMMA AnnounceStep == AnnounceInv /\ [BudgetsNext]_budgetsVars => AnnounceInv'
<1> SUFFICES ASSUME AnnounceInv, [BudgetsNext]_budgetsVars PROVE AnnounceInv'
  OBVIOUS
<1>1. MeterTypes /\ MeterTypes'
  BY MeterStep DEF AnnounceInv
<1>2. /\ usage \in [Scope -> [Period -> Nat]] /\ lapses \in Nat
      /\ alerted \in [Scope -> [Period -> State]] /\ alerts \in [Scope -> [Period -> [State -> Nat]]]
      /\ work \in [Client -> Works] /\ work \in [Client -> WorkType]
      /\ alerts' \in [Scope -> [Period -> [State -> Nat]]] /\ alerted' \in [Scope -> [Period -> State]]
  BY <1>1, MeterAssumption DEF MeterTypes, BudgetsTypeOK
<1>3. ASSUME NEW c \in Client, work[c].pc \in {"get", "look"} \cup Metering
      PROVE  Covered(c) \in Scope /\ work[c].month \in Period
  BY <1>2, <1>3, Routes DEF Works, WorkType, Covered
<1>4. ASSUME UNCHANGED <<alerts, alerted, lapses>>
      PROVE  \A s \in Scope, p \in Period, st \in State : alerts'[s][p][st] <= lapses' + Told(s, p, st)'
  BY <1>4 DEF AnnounceInv, Told
\* A step that changes the work of one client only, and claims nothing.
<1>5. ASSUME NEW c \in Client, NEW v, work' = [work EXCEPT ![c] = v],
             UNCHANGED <<usage, alerts, alerted, lapses>>,
             v.pc = "add" /\ v.rule.on =>
               Rank(v.before) <= Rank(Standing(v.rule.limit, usage[Head(v.left)][v.month])),
             v.pc # "claim"
      PROVE  AnnounceInv'
  <2>1. work'[c] = v /\ \A d \in Client \ {c} : work'[d] = work[d]
    BY <1>2, <1>5
  <2>2. \A d \in Client : work'[d].pc = "add" /\ work'[d].rule.on =>
          Rank(work'[d].before) <=
            Rank(Standing(work'[d].rule.limit, usage[Covered(d)'][work'[d].month]))
    BY <1>5, <2>1 DEF AnnounceInv, Covered
  <2>3. \A d \in Client : work'[d].pc = "claim" => Rank(work'[d].before) < Rank(work'[d].after)
    BY <1>5, <2>1 DEF AnnounceInv
  <2> QED
    BY <1>1, <1>4, <1>5, <2>2, <2>3 DEF AnnounceInv
<1>6. ASSUME NEW c \in Client, Ended(c), UNCHANGED <<usage, alerts, alerted, lapses>>
      PROVE  AnnounceInv'
  <2>1. NoWorkYet.pc = "idle"
    BY DEF NoWorkYet
  <2> QED
    BY <1>5, <1>6, <2>1 DEF Ended
<1>7. ASSUME NEW c \in Client, NEW a \in Seat \cup {"none"}, Complete(c, a) PROVE AnnounceInv'
  <2> DEFINE v == [NoWorkYet EXCEPT !.pc = "get", !.agent = a, !.left = ScopesOf(a)]
  <2>1. v.pc = "get" /\ work' = [work EXCEPT ![c] = v]
    BY <1>7 DEF Complete, NoWorkYet
  <2> HIDE DEF v
  <2> QED
    BY <1>5, <1>7, <2>1 DEF Complete
<1>8. ASSUME NEW c \in Client, NEW b, Admitted(c, b), UNCHANGED <<usage, alerts, alerted, lapses>>
      PROVE  AnnounceInv'
  <2> DEFINE v == [work[c] EXCEPT !.rule = NoBudget, !.left = Tail(work[c].left),
                                  !.pc = IF Len(work[c].left) = 1 THEN "model" ELSE "get"]
  <2>1. work' = [work EXCEPT ![c] = v] /\ v.pc \in {"model", "get"}
    BY <1>2, <1>8 DEF Admitted, WorkType
  <2> HIDE DEF v
  <2> QED
    BY <1>5, <1>8, <2>1
<1>9. ASSUME NEW c \in Client, GetBudget(c) PROVE AnnounceInv'
  <2> DEFINE b == budget[Covered(c)]
  <2>1. CASE b.on
    <3> DEFINE v == [work[c] EXCEPT !.pc = "look", !.rule = b]
    <3>1. work' = [work EXCEPT ![c] = v]
      BY <1>9, <2>1 DEF GetBudget
    <3>2. v.pc = "look"
      BY <1>2 DEF WorkType
    <3> HIDE DEF v
    <3> QED
      BY <1>5, <1>9, <3>1, <3>2 DEF GetBudget
  <2>2. CASE ~b.on
    BY <1>8, <1>9, <2>2 DEF GetBudget
  <2> QED
    BY <2>1, <2>2
<1>10. ASSUME NEW c \in Client, LookAtUsage(c) PROVE AnnounceInv'
  BY <1>6, <1>8, <1>10 DEF LookAtUsage
<1>11. ASSUME NEW c \in Client, NEW cost \in Cost, Answered(c, cost) PROVE AnnounceInv'
  <2> DEFINE v == [work[c] EXCEPT !.pc = "meter", !.cost = cost, !.left = ScopesOf(work[c].agent)]
  <2>1. work' = [work EXCEPT ![c] = v]
    BY <1>11 DEF Answered
  <2>2. v.pc = "meter"
    BY <1>2 DEF WorkType
  <2> HIDE DEF v
  <2> QED
    BY <1>5, <1>11, <2>1, <2>2 DEF Answered
<1>12. ASSUME NEW c \in Client, MeterScope(c) PROVE AnnounceInv'
  <2> DEFINE b == budget[Covered(c)]
             v == [work[c] EXCEPT !.pc = IF b.on THEN "before" ELSE "add", !.rule = b, !.month = period]
  <2>1. work' = [work EXCEPT ![c] = v]
    BY <1>12 DEF MeterScope
  <2>2. v.pc = (IF b.on THEN "before" ELSE "add") /\ v.rule = b
    BY <1>2 DEF WorkType
  <2> HIDE DEF v
  <2> QED
    BY <1>5, <1>12, <2>1, <2>2 DEF MeterScope
<1>13. ASSUME NEW c \in Client, ReadBefore(c) PROVE AnnounceInv'
  <2> DEFINE st == Standing(work[c].rule.limit, usage[Covered(c)][work[c].month])
             v == [work[c] EXCEPT !.pc = "add", !.before = st]
  <2>1. work' = [work EXCEPT ![c] = v] /\ work[c].pc = "before" /\ UNCHANGED <<usage, alerts, alerted, lapses>>
    BY <1>13 DEF ReadBefore, Does
  <2>2. v.pc = "add" /\ v.rule = work[c].rule /\ v.left = work[c].left /\ v.month = work[c].month
        /\ v.before = st
    BY <1>2 DEF WorkType
  <2>3. Rank(v.before) <= Rank(Standing(v.rule.limit, usage[Head(v.left)][v.month]))
    <3>1. v.before = Standing(v.rule.limit, usage[Head(v.left)][v.month])
      BY <2>2 DEF Covered
    <3>2. Rank(v.before) \in 0 .. 2
      <4>1. st \in State
        BY DEF Standing, State
      <4> QED
        BY <2>2, <4>1, Ranks
    <3> QED
      BY <3>1, <3>2
  <2> HIDE DEF v
  <2> QED
    BY <1>5, <2>1, <2>2, <2>3
<1>14. ASSUME NEW c \in Client PROVE Metered(c).pc \in {"idle", "meter"}
  BY <1>2 DEF Metered, NoWorkYet, WorkType
<1>15. ASSUME NEW c \in Client, AddUsage(c) PROVE AnnounceInv'
  <2>0. PICK s0 \in Scope, m0 \in Period : s0 = Covered(c) /\ m0 = work[c].month
    BY <1>3, <1>15 DEF AddUsage, Does, Metering
  <2> DEFINE used == usage[s0][m0] + work[c].cost
             after == Standing(work[c].rule.limit, used)
  <2>1. /\ work[c].pc = "add" /\ UNCHANGED <<alerts, alerted, lapses>>
        /\ usage' = [usage EXCEPT ![s0][m0] = used]
        /\ work' = [work EXCEPT ![c] = IF Crosses(c, after) THEN [work[c] EXCEPT !.pc = "claim", !.after = after]
                                       ELSE Metered(c)]
    BY <1>15, <2>0 DEF AddUsage, Does
  <2>2. usage[s0][m0] \in Nat /\ used \in Nat /\ usage[s0][m0] <= used /\ work[c].rule.limit \in Nat
    <3>1. work[c].cost \in Cost \cup {0} /\ work[c].rule \in Budget
      BY <1>2 DEF WorkType
    <3>2. work[c].cost \in Nat /\ work[c].rule.limit \in Nat
      BY <3>1, LimitsAreNumbers, MeterAssumption DEF Cost
    <3> QED
      BY <1>2, <3>2
  <2>3. \A s \in Scope, p \in Period : usage[s][p] \in Nat /\ usage'[s][p] \in Nat /\ usage[s][p] <= usage'[s][p]
    BY <1>2, <2>1, <2>2
  <2>4. ASSUME Crosses(c, after) PROVE Rank(work[c].before) < Rank(after)
    <3>1. Rank(work[c].before) <= Rank(Standing(work[c].rule.limit, usage[s0][m0]))
      BY <2>0, <2>1, <2>4 DEF AnnounceInv, Crosses
    <3>2. Rank(Standing(work[c].rule.limit, usage[s0][m0])) <= Rank(after)
      BY <2>2, StandingGrows
    <3>3. work[c].before \in State /\ after \in State /\ after # work[c].before
      BY <1>2, <2>4 DEF WorkType, Crosses, Standing, State
    <3>4. Standing(work[c].rule.limit, usage[s0][m0]) \in State
      BY DEF Standing, State
    <3> QED
      BY <3>1, <3>2, <3>3, <3>4, Ranks
  <2>5. \A d \in Client \ {c} : work'[d] = work[d]
    BY <2>1
  <2>6. work'[c] = IF Crosses(c, after) THEN [work[c] EXCEPT !.pc = "claim", !.after = after] ELSE Metered(c)
    BY <1>2, <2>1
  <2>7. work'[c].pc # "add" /\ (work'[c].pc = "claim" => Rank(work'[c].before) < Rank(work'[c].after))
    <3>1. CASE Crosses(c, after)
      BY <1>2, <2>4, <2>6, <3>1 DEF WorkType
    <3>2. CASE ~Crosses(c, after)
      BY <1>14, <2>6, <3>2
    <3> QED
      BY <3>1, <3>2
  <2>8. ASSUME NEW d \in Client, work'[d].pc = "add", work'[d].rule.on
        PROVE  Rank(work'[d].before) <=
                 Rank(Standing(work'[d].rule.limit, usage'[Covered(d)'][work'[d].month]))
    <3>1. d # c /\ work'[d] = work[d]
      BY <2>5, <2>7, <2>8
    <3>2. PICK s \in Scope, m \in Period : s = Covered(d) /\ m = work[d].month
      BY <1>3, <2>8, <3>1 DEF Metering
    <3>3. Covered(d)' = s /\ work'[d].month = m
      BY <3>1, <3>2 DEF Covered
    <3>4. Rank(work[d].before) <= Rank(Standing(work[d].rule.limit, usage[s][m]))
      BY <2>8, <3>1, <3>2 DEF AnnounceInv
    <3>5. work[d].rule.limit \in Nat
      BY <1>2, LimitsAreNumbers DEF WorkType
    <3>6. Rank(Standing(work[d].rule.limit, usage[s][m])) <= Rank(Standing(work[d].rule.limit, usage'[s][m]))
      BY <2>3, <3>5, StandingGrows
    <3>7. /\ Rank(work[d].before) \in 0 .. 2 /\ Rank(Standing(work[d].rule.limit, usage[s][m])) \in 0 .. 2
          /\ Rank(Standing(work[d].rule.limit, usage'[s][m])) \in 0 .. 2
      BY <1>2, Ranks DEF WorkType, Standing, State
    <3> QED
      BY <3>1, <3>3, <3>4, <3>6, <3>7
  <2>9. \A d \in Client : work'[d].pc = "claim" => Rank(work'[d].before) < Rank(work'[d].after)
    BY <2>5, <2>7 DEF AnnounceInv
  <2> QED
    BY <1>1, <1>4, <2>1, <2>8, <2>9 DEF AnnounceInv
\* Whoever leaves a claim behind has nothing to add.
<1>16. ASSUME NEW c \in Client, work' = [work EXCEPT ![c] = Metered(c)], UNCHANGED usage,
              \A s \in Scope, p \in Period, st \in State : alerts'[s][p][st] <= lapses' + Told(s, p, st)'
       PROVE  AnnounceInv'
  <2>1. work'[c].pc \in {"idle", "meter"} /\ \A d \in Client \ {c} : work'[d] = work[d]
    BY <1>2, <1>14, <1>16
  <2>2. \A d \in Client : work'[d].pc = "add" /\ work'[d].rule.on =>
          Rank(work'[d].before) <=
            Rank(Standing(work'[d].rule.limit, usage'[Covered(d)'][work'[d].month]))
    BY <1>16, <2>1 DEF AnnounceInv, Covered
  <2>3. \A d \in Client : work'[d].pc = "claim" => Rank(work'[d].before) < Rank(work'[d].after)
    BY <2>1 DEF AnnounceInv
  <2> QED
    BY <1>1, <1>16, <2>2, <2>3 DEF AnnounceInv
<1>17. ASSUME NEW c \in Client, ClaimAlert(c) PROVE AnnounceInv'
  <2>0. PICK s0 \in Scope, m0 \in Period : s0 = Covered(c) /\ m0 = work[c].month
    BY <1>3, <1>17 DEF ClaimAlert, Does, Metering
  <2>1. /\ work' = [work EXCEPT ![c] = Metered(c)] /\ UNCHANGED <<usage, lapses>>
        /\ Rank(work[c].before) < Rank(work[c].after) /\ work[c].before \in State /\ work[c].after \in State
    BY <1>2, <1>17 DEF ClaimAlert, Does, AnnounceInv, WorkType
  <2>2. CASE ~MayAlert(c)
    BY <1>4, <1>16, <1>17, <2>1, <2>2 DEF ClaimAlert
  <2>3. CASE MayAlert(c)
    <3>1. /\ alerted' = [alerted EXCEPT ![s0][m0] = work[c].after] /\ alerted[s0][m0] = work[c].before
          /\ alerts' = [alerts EXCEPT ![s0][m0][work[c].after] = alerts[s0][m0][work[c].after] + 1]
      BY <1>17, <2>0, <2>3 DEF ClaimAlert, MayAlert, Announced
    <3>2. ASSUME NEW s \in Scope, NEW p \in Period, NEW st \in State
          PROVE  alerts'[s][p][st] <= lapses + Told(s, p, st)'
      <4>1. alerts[s][p][st] <= lapses + Told(s, p, st) /\ alerts[s][p][st] \in Nat
        BY <1>2 DEF AnnounceInv
      <4>2. CASE s # s0 \/ p # m0
        <5>1. alerts'[s][p][st] = alerts[s][p][st] /\ alerted'[s][p] = alerted[s][p]
          BY <1>2, <3>1, <4>2
        <5> QED
          BY <4>1, <5>1 DEF Told
      <4>3. CASE s = s0 /\ p = m0
        <5>1. alerted'[s][p] = work[c].after
          BY <1>2, <3>1, <4>3
        <5>2. Rank(st) \in 0 .. 2 /\ Rank(work[c].after) \in 0 .. 2 /\ Rank(work[c].before) \in 0 .. 2
          BY <2>1, Ranks
        <5>3. CASE st = work[c].after
          <6>1. alerts'[s][p][st] = alerts[s][p][st] + 1
            BY <1>2, <3>1, <4>3, <5>3
          <6>2. Told(s, p, st) = 0 /\ Told(s, p, st)' = 1
            BY <2>1, <3>1, <4>3, <5>1, <5>2, <5>3 DEF Told
          <6> QED
            BY <1>2, <4>1, <6>1, <6>2
        <5>4. CASE st # work[c].after
          <6>1. alerts'[s][p][st] = alerts[s][p][st]
            BY <1>2, <3>1, <4>3, <5>4
          <6>2. Told(s, p, st) <= Told(s, p, st)' /\ Told(s, p, st) \in {0, 1} /\ Told(s, p, st)' \in {0, 1}
            BY <2>1, <3>1, <4>3, <5>1, <5>2 DEF Told
          <6> QED
            BY <1>2, <4>1, <6>1, <6>2
        <5> QED
          BY <5>3, <5>4
      <4> QED
        BY <4>2, <4>3
    <3> QED
      BY <1>16, <2>1, <3>2
  <2> QED
    BY <2>2, <2>3
<1>18. ASSUME NEW c \in Client, AlertClaimFails(c) PROVE AnnounceInv'
  <2>0. PICK s0 \in Scope, m0 \in Period : s0 = Covered(c) /\ m0 = work[c].month
    BY <1>3, <1>18 DEF AlertClaimFails, Does, Metering
  <2>1. /\ work' = [work EXCEPT ![c] = Metered(c)] /\ UNCHANGED <<usage, alerted>> /\ lapses' = lapses + 1
        /\ work[c].after \in State
        /\ alerts' = [alerts EXCEPT ![s0][m0][work[c].after] = alerts[s0][m0][work[c].after] + 1]
    BY <1>2, <1>18, <2>0 DEF AlertClaimFails, Lapse, Announced, WorkType
  <2>2. ASSUME NEW s \in Scope, NEW p \in Period, NEW st \in State
        PROVE  alerts'[s][p][st] <= lapses' + Told(s, p, st)'
    <3>1. alerts[s][p][st] <= lapses + Told(s, p, st) /\ alerts[s][p][st] \in Nat
          /\ alerts'[s][p][st] <= alerts[s][p][st] + 1 /\ Told(s, p, st)' = Told(s, p, st)
          /\ Told(s, p, st) \in {0, 1} /\ alerts'[s][p][st] \in Nat
      BY <1>2, <2>1 DEF AnnounceInv, Told
    <3> QED
      BY <1>2, <2>1, <3>1
  <2> QED
    BY <1>16, <2>1, <2>2
<1>19. ASSUME NEW c \in Client, Unmetered(c) PROVE AnnounceInv'
  <2>1. /\ Ended(c) /\ UNCHANGED <<usage, alerted, alerts>> /\ lapses' = lapses + 1
    BY <1>19 DEF Unmetered, Lapse
  <2>2. work' = [work EXCEPT ![c] = NoWorkYet] /\ NoWorkYet.pc = "idle"
    BY <2>1 DEF Ended, NoWorkYet
  <2>3. work'[c].pc = "idle" /\ \A d \in Client \ {c} : work'[d] = work[d]
    BY <1>2, <2>2
  <2>4. ASSUME NEW s \in Scope, NEW p \in Period, NEW st \in State
        PROVE  alerts'[s][p][st] <= lapses' + Told(s, p, st)'
    <3>1. alerts[s][p][st] <= lapses + Told(s, p, st) /\ alerts[s][p][st] \in Nat
          /\ Told(s, p, st)' = Told(s, p, st) /\ Told(s, p, st) \in {0, 1}
      BY <1>2, <2>1 DEF AnnounceInv, Told
    <3> QED
      BY <1>2, <2>1, <3>1
  <2>5. \A d \in Client : work'[d].pc = "add" /\ work'[d].rule.on =>
          Rank(work'[d].before) <=
            Rank(Standing(work'[d].rule.limit, usage'[Covered(d)'][work'[d].month]))
    BY <2>1, <2>3 DEF AnnounceInv, Covered
  <2>6. \A d \in Client : work'[d].pc = "claim" => Rank(work'[d].before) < Rank(work'[d].after)
    BY <2>3 DEF AnnounceInv
  <2> QED
    BY <1>1, <2>4, <2>5, <2>6 DEF AnnounceInv
<1>20. ASSUME UNCHANGED <<work, usage, alerted, alerts, lapses>> PROVE AnnounceInv'
  BY <1>1, <1>4, <1>20 DEF AnnounceInv, Covered
<1>21. ASSUME NEW c \in Client, GivesUp(c) PROVE AnnounceInv'
  BY <1>6, <1>21 DEF GivesUp
<1>22. ASSUME NEW s \in Scope, NEW b \in Budget, SaveBudget(s, b) PROVE AnnounceInv'
  BY <1>20, <1>22 DEF SaveBudget
<1>23. NewPeriod => AnnounceInv'
  BY <1>20 DEF NewPeriod
<1>24. UNCHANGED budgetsVars => AnnounceInv'
  BY <1>20 DEF budgetsVars
<1> QED
  BY <1>7, <1>9, <1>10, <1>11, <1>12, <1>13, <1>15, <1>17, <1>18, <1>19, <1>21, <1>22, <1>23, <1>24
  DEF BudgetsNext

\* Whichever clients see a line crossed, in whatever order their records
\* interleave, each crossing of a scope and period is announced once, but for
\* claims that could not be written.
THEOREM CrossingsAlertOnce == BudgetsSpec => []AlertedOnce
<1>1. AnnounceInv => AlertedOnce
  <2> SUFFICES ASSUME AnnounceInv, NEW s \in Scope, NEW p \in Period, NEW st \in State
               PROVE  alerts[s][p][st] <= 1 + lapses
    BY DEF AlertedOnce
  <2>1. alerts[s][p][st] <= lapses + Told(s, p, st) /\ Told(s, p, st) \in {0, 1}
    BY DEF AnnounceInv, Told
  <2>2. alerts[s][p][st] \in Nat /\ lapses \in Nat
    BY MeterAssumption DEF AnnounceInv, MeterTypes, BudgetsTypeOK
  <2> QED
    BY <2>1, <2>2
<1> QED
  BY <1>1, AnnounceStart, AnnounceStep, PTL DEF BudgetsSpec

\* The inductive invariant: where nothing disturbed it, the alert column stands
\* with the counter but for the one call that is about to claim.
Recording(c, s) == work[c].pc \in {"add", "claim"} /\ Covered(c) = s
KeepingUp(s) ==
  /\ \A c \in Client : work[c].pc \in {"before", "add", "claim"} /\ Covered(c) = s => work[c].rule = budget[s]
  /\ \A c, d \in Client : Recording(c, s) /\ Recording(d, s) => c = d
  /\ \A p \in Period :
       \/ alerted[s][p] = Standing(budget[s].limit, usage[s][p])
       \/ \E c \in Client : work[c].pc = "claim" /\ Covered(c) = s /\ work[c].month = p
  /\ \A c \in Client : work[c].pc = "add" /\ Covered(c) = s =>
       work[c].before = Standing(budget[s].limit, usage[s][work[c].month])
  /\ \A c \in Client : work[c].pc = "claim" /\ Covered(c) = s =>
       /\ work[c].before = alerted[s][work[c].month]
       /\ work[c].after = Standing(budget[s].limit, usage[s][work[c].month])
KeepUpInv == MeterTypes /\ \A s \in Scope \ disturbed : budget[s].on => KeepingUp(s)

LEMMA KeepUpStart == BudgetsInit => KeepUpInv
<1> SUFFICES ASSUME BudgetsInit PROVE KeepUpInv
  OBVIOUS
<1>1. \A c \in Client : work[c].pc = "idle"
  BY DEF BudgetsInit, NoWorkYet
<1>2. ASSUME NEW s \in Scope, NEW p \in Period, budget[s].on
      PROVE  alerted[s][p] = Standing(budget[s].limit, usage[s][p])
  <2>1. usage[s][p] = 0 /\ alerted[s][p] = "ok" /\ budget[s] \in Budget
    BY DEF BudgetsInit
  <2>2. budget[s].limit \in Nat \ {0}
    BY <1>2, <2>1, LimitsAreNumbers
  <2> QED
    BY <2>1, <2>2 DEF Standing
<1> QED
  BY <1>1, <1>2, MeterStart DEF KeepUpInv, KeepingUp, Recording

LEMMA KeepUpStep == KeepUpInv /\ [BudgetsNext]_budgetsVars => KeepUpInv'
<1> SUFFICES ASSUME KeepUpInv, [BudgetsNext]_budgetsVars PROVE KeepUpInv'
  OBVIOUS
<1>1. MeterTypes /\ MeterTypes'
  BY MeterStep DEF KeepUpInv
<1>2. /\ usage \in [Scope -> [Period -> Nat]] /\ alerted \in [Scope -> [Period -> State]]
      /\ budget \in [Scope -> Budget] /\ period \in Period /\ disturbed \subseteq Scope
      /\ work \in [Client -> Works] /\ work \in [Client -> WorkType]
  BY <1>1 DEF MeterTypes, BudgetsTypeOK
<1>3. ASSUME NEW c \in Client, work[c].pc \in {"get", "look"} \cup Metering
      PROVE  Covered(c) \in Scope /\ work[c].month \in Period
  BY <1>2, <1>3, Routes DEF Works, WorkType, Covered
\* A step of one client that writes nothing and, unless it disturbs the scope,
\* neither records nor ends a claim.
<1>4. ASSUME NEW c \in Client, NEW v, work' = [work EXCEPT ![c] = v],
             UNCHANGED <<budget, usage, alerted>>, disturbed \subseteq disturbed',
             v.pc \notin {"before", "add", "claim"},
             work[c].pc = "claim" => Covered(c) \in disturbed'
      PROVE  KeepUpInv'
  <2>1. work'[c] = v /\ \A d \in Client \ {c} : work'[d] = work[d]
    BY <1>2, <1>4
  <2>2. ASSUME NEW s \in Scope \ disturbed', budget[s].on PROVE KeepingUp(s)'
    <3>1. KeepingUp(s)
      BY <1>4, <2>2 DEF KeepUpInv
    <3>2. \A d \in Client : work'[d].pc \in {"before", "add", "claim"} => d # c /\ work'[d] = work[d]
      BY <1>4, <2>1
    <3>3. \A d \in Client : work[d].pc = "claim" /\ Covered(d) = s => work'[d] = work[d]
      BY <1>4, <2>1, <2>2
    <3> QED
      BY <1>4, <3>1, <3>2, <3>3 DEF KeepingUp, Recording, Covered
  <2> QED
    BY <1>1, <1>4, <2>2 DEF KeepUpInv
<1>5. ASSUME NEW c \in Client, Ended(c), UNCHANGED <<budget, usage, alerted>>, disturbed \subseteq disturbed',
             work[c].pc = "claim" => Covered(c) \in disturbed'
      PROVE  KeepUpInv'
  <2>1. NoWorkYet.pc = "idle"
    BY DEF NoWorkYet
  <2> QED
    BY <1>4, <1>5, <2>1 DEF Ended
<1>6. ASSUME NEW c \in Client, NEW a \in Seat \cup {"none"}, Complete(c, a) PROVE KeepUpInv'
  <2> DEFINE v == [NoWorkYet EXCEPT !.pc = "get", !.agent = a, !.left = ScopesOf(a)]
  <2>1. v.pc = "get" /\ work' = [work EXCEPT ![c] = v]
    BY <1>6 DEF Complete, NoWorkYet
  <2> HIDE DEF v
  <2> QED
    BY <1>4, <1>6, <2>1 DEF Complete, Does
<1>7. ASSUME NEW c \in Client, NEW b, Admitted(c, b), work[c].pc \in {"get", "look"},
             UNCHANGED <<budget, usage, alerted, disturbed>>
      PROVE  KeepUpInv'
  <2> DEFINE v == [work[c] EXCEPT !.rule = NoBudget, !.left = Tail(work[c].left),
                                  !.pc = IF Len(work[c].left) = 1 THEN "model" ELSE "get"]
  <2>1. work' = [work EXCEPT ![c] = v] /\ v.pc \in {"model", "get"}
    BY <1>2, <1>7 DEF Admitted, WorkType
  <2> HIDE DEF v
  <2> QED
    BY <1>4, <1>7, <2>1
<1>8. ASSUME NEW c \in Client, GetBudget(c) PROVE KeepUpInv'
  <2> DEFINE b == budget[Covered(c)]
  <2>0. work[c].pc = "get"
    BY <1>8 DEF GetBudget, Does
  <2>1. CASE b.on
    <3> DEFINE v == [work[c] EXCEPT !.pc = "look", !.rule = b]
    <3>1. work' = [work EXCEPT ![c] = v]
      BY <1>8, <2>1 DEF GetBudget
    <3>2. v.pc = "look"
      BY <1>2 DEF WorkType
    <3> HIDE DEF v
    <3> QED
      BY <1>4, <1>8, <2>0, <3>1, <3>2 DEF GetBudget
  <2>2. CASE ~b.on
    BY <1>7, <1>8, <2>0, <2>2 DEF GetBudget
  <2> QED
    BY <2>1, <2>2
<1>9. ASSUME NEW c \in Client, LookAtUsage(c) PROVE KeepUpInv'
  BY <1>5, <1>7, <1>9 DEF LookAtUsage, Does
<1>10. ASSUME NEW c \in Client, GivesUp(c) PROVE KeepUpInv'
  BY <1>5, <1>10 DEF GivesUp
<1>11. ASSUME NEW c \in Client, NEW cost \in Cost, Answered(c, cost) PROVE KeepUpInv'
  <2> DEFINE v == [work[c] EXCEPT !.pc = "meter", !.cost = cost, !.left = ScopesOf(work[c].agent)]
  <2>1. work' = [work EXCEPT ![c] = v] /\ work[c].pc = "model"
    BY <1>11 DEF Answered, Does
  <2>2. v.pc = "meter"
    BY <1>2 DEF WorkType
  <2> HIDE DEF v
  <2> QED
    BY <1>4, <1>11, <2>1, <2>2 DEF Answered
<1>12. ASSUME NEW c \in Client, MeterScope(c) PROVE KeepUpInv'
  <2> DEFINE b == budget[Covered(c)]
             v == [work[c] EXCEPT !.pc = IF b.on THEN "before" ELSE "add", !.rule = b, !.month = period]
  <2>1. work' = [work EXCEPT ![c] = v] /\ work[c].pc = "meter" /\ UNCHANGED <<budget, usage, alerted, disturbed>>
    BY <1>12 DEF MeterScope, Does
  <2>2. v.pc = (IF b.on THEN "before" ELSE "add") /\ v.rule = b /\ v.left = work[c].left
    BY <1>2 DEF WorkType
  <2>3. work'[c] = v /\ \A d \in Client \ {c} : work'[d] = work[d]
    BY <1>2, <2>1
  <2> HIDE DEF v
  <2>4. ASSUME NEW s \in Scope \ disturbed, budget[s].on PROVE KeepingUp(s)'
    <3>1. KeepingUp(s)
      BY <2>4 DEF KeepUpInv
    <3>2. Covered(c)' = Covered(c) /\ \A d \in Client \ {c} : Covered(d)' = Covered(d)
      BY <2>2, <2>3 DEF Covered
    <3>3. Covered(c) = s => v.pc = "before" /\ v.rule = budget[s]
      BY <2>2, <2>4
    <3>4. \A d \in Client : Recording(d, s)' => d # c /\ Recording(d, s)
      BY <2>3, <3>2, <3>3 DEF Recording
    <3>5. \A d \in Client : work[d].pc = "claim" => work'[d] = work[d] /\ Covered(d)' = Covered(d)
      BY <2>1, <2>3, <3>2
    <3>6. \A p \in Period :
            \/ alerted[s][p] = Standing(budget[s].limit, usage[s][p])
            \/ \E d \in Client : work'[d].pc = "claim" /\ Covered(d)' = s /\ work'[d].month = p
      BY <3>1, <3>5 DEF KeepingUp
    <3>7. \A d \in Client : work'[d].pc \in {"before", "add", "claim"} /\ Covered(d)' = s =>
            work'[d].rule = budget[s]
      BY <2>3, <3>1, <3>2, <3>3 DEF KeepingUp
    <3>8. \A d \in Client : work'[d].pc \in {"add", "claim"} /\ Covered(d)' = s =>
            work'[d] = work[d] /\ Covered(d) = s
      BY <2>3, <3>2, <3>3
    <3> QED
      BY <2>1, <3>1, <3>4, <3>6, <3>7, <3>8 DEF KeepingUp
  <2> QED
    BY <1>1, <2>1, <2>4 DEF KeepUpInv
<1>13. ASSUME NEW c \in Client, ReadBefore(c) PROVE KeepUpInv'
  <2>0. PICK s0 \in Scope, m0 \in Period : s0 = Covered(c) /\ m0 = work[c].month
    BY <1>3, <1>13 DEF ReadBefore, Does, Metering
  <2> DEFINE v == [work[c] EXCEPT !.pc = "add", !.before = Standing(work[c].rule.limit, usage[s0][m0])]
  <2>1. work' = [work EXCEPT ![c] = v] /\ work[c].pc = "before" /\ UNCHANGED <<budget, usage, alerted>>
        /\ disturbed \subseteq disturbed'
    BY <1>13, <2>0 DEF ReadBefore, Does
  <2>2. v.pc = "add" /\ v.rule = work[c].rule /\ v.left = work[c].left /\ v.month = work[c].month
        /\ v.before = Standing(work[c].rule.limit, usage[s0][m0])
    BY <1>2 DEF WorkType
  <2>3. work'[c] = v /\ \A d \in Client \ {c} : work'[d] = work[d]
    BY <1>2, <2>1
  <2> HIDE DEF v
  <2>4. ASSUME NEW s \in Scope \ disturbed', budget[s].on PROVE KeepingUp(s)'
    <3>1. KeepingUp(s)
      BY <2>1, <2>4 DEF KeepUpInv
    <3>2. \A d \in Client : Covered(d)' = Covered(d)
      BY <2>2, <2>3 DEF Covered
    <3>3. \A d \in Client \ {c} : s = s0 => ~Recording(d, s)
      BY <1>13, <2>0, <2>4 DEF ReadBefore, Recording
    <3>4. \A d, e \in Client : Recording(d, s)' /\ Recording(e, s)' => d = e
      <4>1. ASSUME NEW d \in Client, NEW e \in Client, Recording(d, s)', Recording(e, s)', d # e
            PROVE  FALSE
        <5>1. d # c => Recording(d, s)
          BY <2>3, <3>2, <4>1 DEF Recording
        <5>2. e # c => Recording(e, s)
          BY <2>3, <3>2, <4>1 DEF Recording
        <5>3. (d = c \/ e = c) => s = s0
          BY <2>0, <3>2, <4>1 DEF Recording
        <5> QED
          BY <3>1, <3>3, <4>1, <5>1, <5>2, <5>3 DEF KeepingUp
      <4> QED
        BY <4>1
    <3>5. \A d \in Client : work[d].pc = "claim" => work'[d] = work[d]
      BY <2>1, <2>3
    <3>6. \A p \in Period :
            \/ alerted[s][p] = Standing(budget[s].limit, usage[s][p])
            \/ \E d \in Client : work'[d].pc = "claim" /\ Covered(d)' = s /\ work'[d].month = p
      BY <3>1, <3>2, <3>5 DEF KeepingUp
    <3>7. \A d \in Client : work'[d].pc \in {"before", "add", "claim"} /\ Covered(d)' = s =>
            work'[d].rule = budget[s]
      BY <2>1, <2>2, <2>3, <3>1, <3>2 DEF KeepingUp
    <3>8. \A d \in Client : work'[d].pc = "add" /\ Covered(d)' = s =>
            work'[d].before = Standing(budget[s].limit, usage[s][work'[d].month])
      <4>1. Covered(c) = s => work[c].rule = budget[s] /\ s = s0
        BY <2>0, <2>1, <3>1 DEF KeepingUp
      <4> QED
        BY <2>0, <2>2, <2>3, <3>1, <3>2, <4>1 DEF KeepingUp
    <3>9. \A d \in Client : work'[d].pc = "claim" /\ Covered(d)' = s =>
            /\ work'[d].before = alerted[s][work'[d].month]
            /\ work'[d].after = Standing(budget[s].limit, usage[s][work'[d].month])
      BY <2>2, <2>3, <3>1, <3>2 DEF KeepingUp
    <3> QED
      BY <2>1, <3>4, <3>6, <3>7, <3>8, <3>9 DEF KeepingUp
  <2> QED
    BY <1>1, <2>1, <2>4 DEF KeepUpInv
<1>14. ASSUME NEW c \in Client PROVE Metered(c).pc \in {"idle", "meter"}
  BY <1>2 DEF Metered, NoWorkYet, WorkType
<1>15. ASSUME NEW c \in Client, AddUsage(c) PROVE KeepUpInv'
  <2>0. PICK s0 \in Scope, m0 \in Period : s0 = Covered(c) /\ m0 = work[c].month
    BY <1>3, <1>15 DEF AddUsage, Does, Metering
  <2> DEFINE used == usage[s0][m0] + work[c].cost
             after == Standing(work[c].rule.limit, used)
             v == [work[c] EXCEPT !.pc = "claim", !.after = after]
  <2>1. /\ work[c].pc = "add" /\ UNCHANGED <<budget, alerted, disturbed>>
        /\ usage' = [usage EXCEPT ![s0][m0] = used]
        /\ work' = [work EXCEPT ![c] = IF Crosses(c, after) THEN v ELSE Metered(c)]
    BY <1>15, <2>0 DEF AddUsage, Does
  <2>2. work'[c] = (IF Crosses(c, after) THEN v ELSE Metered(c)) /\ \A d \in Client \ {c} : work'[d] = work[d]
    BY <1>2, <2>1
  <2>3. /\ usage'[s0][m0] = used
        /\ \A s \in Scope, p \in Period : s # s0 \/ p # m0 => usage'[s][p] = usage[s][p]
    BY <1>2, <2>0, <2>1
  <2>4. v.pc = "claim" /\ v.rule = work[c].rule /\ v.left = work[c].left /\ v.month = m0
        /\ v.before = work[c].before /\ v.after = after
    BY <1>2, <2>0 DEF WorkType
  <2>5. \A d \in Client \ {c} : Covered(d)' = Covered(d)
    BY <2>2 DEF Covered
  <2>6. Crosses(c, after) => Covered(c)' = s0
    BY <2>0, <2>2, <2>4 DEF Covered
  <2>7. ~Crosses(c, after) => work'[c].pc \in {"idle", "meter"}
    BY <1>14, <2>2
  <2> HIDE DEF v, used
  <2>8. ASSUME NEW s \in Scope \ disturbed, budget[s].on PROVE KeepingUp(s)'
    <3>1. KeepingUp(s)
      BY <2>8 DEF KeepUpInv
    <3>2. CASE s # s0
      <4>1. \A d \in Client : work'[d].pc \in {"before", "add", "claim"} /\ Covered(d)' = s =>
              d # c /\ work'[d] = work[d] /\ Covered(d) = s
        BY <2>2, <2>5, <2>6, <2>7, <3>2
      <4>2. \A d \in Client : work[d].pc = "claim" => work'[d] = work[d] /\ Covered(d)' = Covered(d)
        BY <2>1, <2>2, <2>5
      <4>3. \A p \in Period : usage'[s][p] = usage[s][p]
        BY <2>3, <3>2
      <4>4. \A d \in Client : work[d].pc \in {"add", "claim"} => work[d].month \in Period
        BY <1>3 DEF Metering
      <4>5. \A d, e \in Client : Recording(d, s)' /\ Recording(e, s)' => d = e
        BY <3>1, <4>1 DEF KeepingUp, Recording
      <4>6. \A p \in Period :
              \/ alerted[s][p] = Standing(budget[s].limit, usage'[s][p])
              \/ \E d \in Client : work'[d].pc = "claim" /\ Covered(d)' = s /\ work'[d].month = p
        BY <3>1, <4>2, <4>3 DEF KeepingUp
      <4>7. \A d \in Client : work'[d].pc \in {"before", "add", "claim"} /\ Covered(d)' = s =>
              work'[d].rule = budget[s]
        BY <3>1, <4>1 DEF KeepingUp
      <4>8. \A d \in Client : work'[d].pc = "add" /\ Covered(d)' = s =>
              work'[d].before = Standing(budget[s].limit, usage'[s][work'[d].month])
        BY <3>1, <4>1, <4>3, <4>4 DEF KeepingUp
      <4>9. \A d \in Client : work'[d].pc = "claim" /\ Covered(d)' = s =>
              /\ work'[d].before = alerted[s][work'[d].month]
              /\ work'[d].after = Standing(budget[s].limit, usage'[s][work'[d].month])
        BY <3>1, <4>1, <4>3, <4>4 DEF KeepingUp
      <4> QED
        BY <2>1, <4>5, <4>6, <4>7, <4>8, <4>9 DEF KeepingUp
    <3>3. CASE s = s0
      <4>1. Recording(c, s) /\ \A d \in Client : Recording(d, s) => d = c
        BY <2>0, <2>1, <3>1, <3>3 DEF KeepingUp, Recording
      <4>2. work[c].rule = budget[s] /\ work[c].before = Standing(budget[s].limit, usage[s][m0])
            /\ work[c].rule.on
        BY <2>0, <2>1, <2>8, <3>1, <3>3 DEF KeepingUp
      <4>3. \A p \in Period : alerted[s][p] = Standing(budget[s].limit, usage[s][p])
        BY <2>1, <3>1, <4>1 DEF KeepingUp, Recording
      <4>4. after = Standing(budget[s].limit, usage'[s][m0]) /\ work[c].before = alerted[s][m0]
        BY <2>3, <3>3, <4>2, <4>3
      <4>5. \A d \in Client : Recording(d, s)' => d = c /\ Crosses(c, after) /\ work'[d] = v
        BY <2>2, <2>5, <2>7, <4>1 DEF Recording
      <4>6. \A p \in Period :
              \/ alerted[s][p] = Standing(budget[s].limit, usage'[s][p])
              \/ \E d \in Client : work'[d].pc = "claim" /\ Covered(d)' = s /\ work'[d].month = p
        <5>1. CASE Crosses(c, after)
          <6>1. work'[c].pc = "claim" /\ Covered(c)' = s /\ work'[c].month = m0
            BY <2>2, <2>4, <2>6, <3>3, <5>1
          <6> QED
            BY <2>3, <4>3, <6>1
        <5>2. CASE ~Crosses(c, after)
          <6>1. alerted[s][m0] = Standing(budget[s].limit, usage'[s][m0])
            BY <4>2, <4>4, <5>2 DEF Crosses
          <6> QED
            BY <2>3, <4>3, <6>1
        <5> QED
          BY <5>1, <5>2
      <4>7. \A d \in Client : work'[d].pc \in {"before", "add", "claim"} /\ Covered(d)' = s =>
              work'[d].rule = budget[s]
        BY <2>2, <2>4, <2>5, <2>7, <3>1, <4>2 DEF KeepingUp
      <4>8. \A d \in Client : work'[d].pc = "add" /\ Covered(d)' = s => FALSE
        BY <2>4, <4>5 DEF Recording
      <4>9. \A d \in Client : work'[d].pc = "claim" /\ Covered(d)' = s =>
              /\ work'[d].before = alerted[s][work'[d].month]
              /\ work'[d].after = Standing(budget[s].limit, usage'[s][work'[d].month])
        BY <2>4, <4>4, <4>5 DEF Recording
      <4> QED
        BY <2>1, <4>5, <4>6, <4>7, <4>8, <4>9 DEF KeepingUp
    <3> QED
      BY <3>2, <3>3
  <2> QED
    BY <1>1, <2>1, <2>8 DEF KeepUpInv
<1>16. ASSUME NEW c \in Client, ClaimAlert(c) PROVE KeepUpInv'
  <2>0. PICK s0 \in Scope, m0 \in Period : s0 = Covered(c) /\ m0 = work[c].month
    BY <1>3, <1>16 DEF ClaimAlert, Does, Metering
  <2>1. work[c].pc = "claim" /\ work' = [work EXCEPT ![c] = Metered(c)] /\ UNCHANGED <<budget, usage, disturbed>>
    BY <1>16 DEF ClaimAlert, Does
  <2>2. work'[c].pc \in {"idle", "meter"} /\ \A d \in Client \ {c} : work'[d] = work[d] /\ Covered(d)' = Covered(d)
    BY <1>2, <1>14, <2>1 DEF Covered
  <2>3. \A s \in Scope, p \in Period : s # s0 \/ p # m0 => alerted'[s][p] = alerted[s][p]
    BY <1>2, <1>16, <2>0 DEF ClaimAlert
  <2>4. MayAlert(c) => alerted'[s0][m0] = work[c].after
    BY <1>2, <1>16, <2>0 DEF ClaimAlert
  <2>5. ASSUME NEW s \in Scope \ disturbed, budget[s].on PROVE KeepingUp(s)'
    <3>1. KeepingUp(s)
      BY <2>5 DEF KeepUpInv
    <3>2. \A d \in Client : work'[d].pc \in {"before", "add", "claim"} /\ Covered(d)' = s =>
            d # c /\ work'[d] = work[d] /\ Covered(d) = s
      BY <2>2
    <3>3. \A d \in Client : Recording(d, s)' => Recording(d, s) /\ d # c
      BY <3>2 DEF Recording
    <3>4. CASE s # s0
      <4>1. \A d \in Client : work[d].pc = "claim" /\ Covered(d) = s => work'[d] = work[d] /\ Covered(d)' = s
        BY <2>0, <2>2, <3>4
      <4>2. \A d \in Client : work[d].pc \in {"add", "claim"} => work[d].month \in Period
        BY <1>3 DEF Metering
      <4>3. \A p \in Period : alerted'[s][p] = alerted[s][p]
        BY <2>3, <3>4
      <4>4. \A p \in Period :
              \/ alerted'[s][p] = Standing(budget[s].limit, usage[s][p])
              \/ \E d \in Client : work'[d].pc = "claim" /\ Covered(d)' = s /\ work'[d].month = p
        BY <3>1, <4>1, <4>3 DEF KeepingUp
      <4>5. \A d \in Client : work'[d].pc = "claim" /\ Covered(d)' = s =>
              /\ work'[d].before = alerted'[s][work'[d].month]
              /\ work'[d].after = Standing(budget[s].limit, usage[s][work'[d].month])
        BY <3>1, <3>2, <4>2, <4>3 DEF KeepingUp
      <4>6. \A d, e \in Client : Recording(d, s)' /\ Recording(e, s)' => d = e
        BY <3>1, <3>3 DEF KeepingUp
      <4>7. \A d \in Client : work'[d].pc \in {"before", "add", "claim"} /\ Covered(d)' = s =>
              work'[d].rule = budget[s]
        BY <3>1, <3>2 DEF KeepingUp
      <4>8. \A d \in Client : work'[d].pc = "add" /\ Covered(d)' = s =>
              work'[d].before = Standing(budget[s].limit, usage[s][work'[d].month])
        BY <3>1, <3>2 DEF KeepingUp
      <4> QED
        BY <2>1, <4>4, <4>5, <4>6, <4>7, <4>8 DEF KeepingUp
    <3>5. CASE s = s0
      <4>1. \A d \in Client : Recording(d, s) => d = c
        BY <2>0, <2>1, <3>1, <3>5 DEF KeepingUp, Recording
      <4>2. MayAlert(c) /\ work[c].after = Standing(budget[s].limit, usage[s][m0])
        BY <2>0, <2>1, <3>1, <3>5 DEF KeepingUp, MayAlert
      <4>3. \A p \in Period : alerted'[s][p] = Standing(budget[s].limit, usage[s][p])
        <5>1. \A p \in Period \ {m0} : alerted[s][p] = Standing(budget[s].limit, usage[s][p])
          BY <2>0, <3>1, <4>1 DEF KeepingUp, Recording
        <5> QED
          BY <2>3, <2>4, <3>5, <4>2, <5>1
      <4>4. \A d \in Client : ~Recording(d, s)'
        BY <3>3, <4>1
      <4>5. \A d \in Client : work'[d].pc \in {"before", "add", "claim"} /\ Covered(d)' = s =>
              work'[d].rule = budget[s]
        BY <3>1, <3>2 DEF KeepingUp
      <4> QED
        BY <2>1, <4>3, <4>4, <4>5 DEF KeepingUp, Recording
    <3> QED
      BY <3>4, <3>5
  <2> QED
    BY <1>1, <2>1, <2>5 DEF KeepUpInv
<1>17. ASSUME NEW c \in Client, AlertClaimFails(c) PROVE KeepUpInv'
  BY <1>4, <1>14, <1>17 DEF AlertClaimFails, Lapse
<1>18. ASSUME NEW c \in Client, Unmetered(c) PROVE KeepUpInv'
  BY <1>5, <1>18 DEF Unmetered, Lapse
<1>19. ASSUME NEW s0 \in Scope, NEW b \in Budget, SaveBudget(s0, b) PROVE KeepUpInv'
  <2>1. UNCHANGED <<usage, alerted, work>> /\ disturbed' = disturbed \cup {s0}
        /\ \A s \in Scope \ disturbed' : budget'[s] = budget[s]
    BY <1>2, <1>19 DEF SaveBudget
  <2>2. ASSUME NEW s \in Scope \ disturbed', budget'[s].on PROVE KeepingUp(s)'
    <3>1. KeepingUp(s) /\ budget'[s] = budget[s]
      BY <2>1, <2>2 DEF KeepUpInv
    <3> QED
      BY <2>1, <3>1 DEF KeepingUp, Recording, Covered
  <2> QED
    BY <1>1, <2>2 DEF KeepUpInv
<1>20. ASSUME UNCHANGED <<budget, usage, alerted, work, disturbed>> PROVE KeepUpInv'
  BY <1>1, <1>20 DEF KeepUpInv, KeepingUp, Recording, Covered
<1>21. NewPeriod => KeepUpInv'
  BY <1>20 DEF NewPeriod
<1>22. UNCHANGED budgetsVars => KeepUpInv'
  BY <1>20 DEF budgetsVars
<1> QED
  BY <1>6, <1>8, <1>9, <1>10, <1>11, <1>12, <1>13, <1>15, <1>16, <1>17, <1>18, <1>19, <1>21, <1>22
  DEF BudgetsNext

\* Where records do not overlap, nobody edits the budget and no write is lost,
\* what was announced keeps up with the counter.
THEOREM AlertsFollowUsage == BudgetsSpec => []AlertsKeepUp
<1>1. KeepUpInv => AlertsKeepUp
  BY DEF KeepUpInv, KeepingUp, AlertsKeepUp, Metering
<1> QED
  BY <1>1, KeepUpStart, KeepUpStep, PTL DEF BudgetsSpec

-----------------------------------------------------------------------------
(* The event indexer.                                                      *)
\* What is known of the positions: nothing is heard of before it is there, a
\* log in work was handed over, and a replay works on one at a time.
Positions ==
  /\ heard <= Len(chain) /\ upto <= Len(chain) /\ Len(chain) <= MaxLogs
  /\ mode = "replaying" => heard <= upto
  /\ \A i \in Busy : /\ mode # "down" /\ i <= heard
                     /\ mode = "replaying" => i = heard
                     /\ progress[i] = "read" => chain[i].kind = "created"
  /\ \A j \in DOMAIN audit : audit[j] <= Len(chain)
IndexerTypes == IndexerTypeOK /\ Positions

LEMMA LogFields ==
  ASSUME NEW log \in Log
  PROVE  /\ log.kind \in {"created", "escalated", "resolved"} /\ log.id \in Ticket
         /\ log.kind # "resolved" => log.to \in Approver
BY DEF Log

LEMMA Unlisted == Unknown = [awaiting |-> "nobody", verdict |-> "unknown"]
BY DEF Unknown

LEMMA AppliedTypes ==
  ASSUME pending \in [Ticket -> Entry], NEW log \in Log
  PROVE  Applied(log) \in [Ticket -> Entry]
<1>. DEFINE id == log.id
<1>1. log.id \in Ticket /\ log.kind \in {"created", "escalated", "resolved"}
      /\ (log.kind # "resolved" => log.to \in Approver)
  BY LogFields
<1>2. CASE log.kind = "created"
  <2>1. [awaiting |-> log.to, verdict |-> "ESCALATE"] \in Entry
    BY <1>1, <1>2 DEF Entry
  <2> QED
    BY <1>1, <1>2, <2>1 DEF Applied
<1>3. CASE log.kind # "created" /\ pending[log.id] = Unknown
  BY <1>3 DEF Applied
<1>4. CASE log.kind # "created" /\ pending[log.id] # Unknown
  <2>1. pending[log.id] \in [awaiting : Approver, verdict : {"ESCALATE", "ALLOW", "DENY"}]
    BY <1>1, <1>4 DEF Entry
  <2>2. CASE log.kind = "escalated"
    <3>1. [pending[log.id] EXCEPT !.awaiting = log.to] \in Entry
      BY <1>1, <2>1, <2>2 DEF Entry
    <3>2. Applied(log) = [pending EXCEPT ![log.id] = [pending[log.id] EXCEPT !.awaiting = log.to]]
      BY <1>4, <2>2 DEF Applied
    <3> QED
      BY <1>1, <3>1, <3>2
  <2>3. CASE log.kind = "resolved"
    <3>1. [pending[log.id] EXCEPT !.verdict = IF log.approved THEN "ALLOW" ELSE "DENY"] \in Entry
      BY <1>1, <2>1, <2>3 DEF Entry
    <3>2. Applied(log) = [pending EXCEPT ![log.id] =
            [pending[log.id] EXCEPT !.verdict = IF log.approved THEN "ALLOW" ELSE "DENY"]]
      BY <1>4, <2>3 DEF Applied
    <3> QED
      BY <1>1, <3>1, <3>2
  <2> QED
    BY <1>1, <1>4, <2>2, <2>3
<1> QED
  BY <1>2, <1>3, <1>4

LEMMA Elements ==
  ASSUME NEW S, NEW s \in Seq(S)
  PROVE  DOMAIN s = 1 .. Len(s) /\ \A j \in DOMAIN s : s[j] \in S
OBVIOUS

LEMMA Appended ==
  ASSUME NEW S, NEW s \in Seq(S), NEW e \in S
  PROVE  /\ Append(s, e) \in Seq(S) /\ Len(Append(s, e)) = Len(s) + 1
         /\ \A i \in 1 .. Len(s) : Append(s, e)[i] = s[i]
         /\ Append(s, e)[Len(s) + 1] = e
         /\ DOMAIN Append(s, e) = 1 .. Len(s) + 1 /\ DOMAIN s = 1 .. Len(s)
OBVIOUS

\* What Stores does to each part, and that it is reached from a log in work.
LEMMA StoreParts ==
  ASSUME IndexerTypes, NEW i \in 1 .. MaxLogs, progress[i] # "none"
  PROVE  i \in Busy /\ i \in 1 .. heard /\ i \in 1 .. Len(chain) /\ chain[i] \in Log
BY IndexerAssumption DEF IndexerTypes, IndexerTypeOK, Positions, Busy

LEMMA IndexerTypesStart == IndexerInit => IndexerTypes
<1>. SUFFICES ASSUME IndexerInit PROVE IndexerTypes
  OBVIOUS
<1>. USE IndexerAssumption
<1>1. chain = <<>> /\ audit = <<>> /\ mode = "down" /\ heard = 0 /\ upto = 0
  BY DEF IndexerInit
<1>2. chain \in Seq(Log) /\ audit \in Seq(1 .. MaxLogs) /\ Len(chain) = 0 /\ DOMAIN audit = {}
  BY <1>1
<1>3. pending \in [Ticket -> Entry]
  BY DEF IndexerInit, Entry, Unknown
<1>4. progress \in [1 .. MaxLogs -> Stages] /\ Busy = {}
  BY DEF IndexerInit, Stages, Busy
<1>5. upto \in 0 .. MaxLogs /\ heard \in 0 .. MaxLogs /\ boots \in 0 .. MaxBoots
  BY DEF IndexerInit
<1>9. skip \in BOOLEAN /\ mode \in {"down", "replaying", "watching"}
  BY DEF IndexerInit
<1>6. sink \subseteq 1 .. MaxLogs /\ unsunk \subseteq 1 .. MaxLogs /\ strayed \subseteq Ticket
  BY DEF IndexerInit
<1>7. IndexerTypeOK
  BY <1>2, <1>3, <1>4, <1>5, <1>6, <1>9 DEF IndexerTypeOK
<1>8. Positions
  BY <1>1, <1>2, <1>4 DEF Positions
<1> QED
  BY <1>7, <1>8 DEF IndexerTypes

LEMMA IndexerTypesStep == IndexerTypes /\ [IndexerNext]_indexerVars => IndexerTypes'
<1>. SUFFICES ASSUME IndexerTypes, [IndexerNext]_indexerVars PROVE IndexerTypes'
  OBVIOUS
<1>. USE IndexerAssumption
<1>a. Len(chain) \in Nat /\ DOMAIN chain = 1 .. Len(chain) /\ heard \in Nat /\ upto \in Nat
  BY DEF IndexerTypes, IndexerTypeOK
<1>1. ASSUME NEW log \in Log, Emitted(log) PROVE IndexerTypes'
  <2>1. /\ chain' \in Seq(Log) /\ Len(chain') = Len(chain) + 1
        /\ \A i \in 1 .. Len(chain) : chain'[i] = chain[i]
    BY <1>1, Appended DEF Emitted, IndexerTypes, IndexerTypeOK
  <2>2. IndexerTypeOK'
    BY <1>1, <2>1 DEF Emitted, IndexerTypes, IndexerTypeOK
  <2>3. \A j \in DOMAIN audit : audit[j] \in Nat
    BY DEF IndexerTypes, IndexerTypeOK
  <2>4. \A i \in Busy : i \in 1 .. Len(chain)
    BY <1>a DEF IndexerTypes, IndexerTypeOK, Positions, Busy
  <2>5. Positions'
    BY <1>1, <1>a, <2>1, <2>3, <2>4 DEF Emitted, IndexerTypes, Positions, Busy
  <2> QED
    BY <2>2, <2>5 DEF IndexerTypes
<1>2. ASSUME Boot PROVE IndexerTypes'
  <2>1. Busy = {}
    BY <1>2 DEF Boot, IndexerTypes, Positions
  <2>2. IndexerTypeOK'
    BY <1>2, <1>a DEF Boot, IndexerTypes, IndexerTypeOK, Positions
  <2>3. Positions'
    BY <1>2, <1>a, <2>1 DEF Boot, IndexerTypes, Positions, Busy
  <2> QED
    BY <2>2, <2>3 DEF IndexerTypes
<1>3. ASSUME ReplayNext PROVE IndexerTypes'
  <2>1. heard + 1 \in 1 .. MaxLogs /\ heard' = heard + 1 /\ heard + 1 <= upto
    BY <1>3, <1>a DEF ReplayNext, IndexerTypes, IndexerTypeOK, Positions
  <2>2. progress' = [progress EXCEPT ![heard + 1] = "time"] /\ progress' \in [1 .. MaxLogs -> Stages]
    BY <1>3, <2>1 DEF ReplayNext, IndexerTypes, IndexerTypeOK, Stages
  <2>3. IndexerTypeOK'
    BY <1>3, <1>a, <2>1, <2>2 DEF ReplayNext, IndexerTypes, IndexerTypeOK
  <2>4. \A i \in Busy' : i = heard' /\ progress'[i] = "time"
    BY <1>3, <2>1, <2>2 DEF ReplayNext, Busy, IndexerTypes, IndexerTypeOK
  <2>5. Positions'
    BY <1>3, <1>a, <2>1, <2>4 DEF ReplayNext, IndexerTypes, Positions
  <2> QED
    BY <2>3, <2>5 DEF IndexerTypes
<1>4. ASSUME StartWatching PROVE IndexerTypes'
  <2>1. strayed' \subseteq Ticket
    <3>1. \A i \in upto + 1 .. Len(chain) : chain[i].id \in Ticket
      <4>1. \A i \in 1 .. Len(chain) : chain[i] \in Log
        BY DEF IndexerTypes, IndexerTypeOK
      <4>2. \A i \in upto + 1 .. Len(chain) : i \in 1 .. Len(chain)
        BY <1>a
      <4> QED
        BY <4>1, <4>2, LogFields
    <3>2. strayed' = {chain[i].id : i \in upto + 1 .. Len(chain)} \/ strayed' = strayed
      BY <1>4 DEF StartWatching
    <3>3. strayed \subseteq Ticket
      BY DEF IndexerTypes, IndexerTypeOK
    <3> QED
      BY <3>1, <3>2, <3>3
  <2>2. IndexerTypeOK'
    BY <1>4, <1>a, <2>1 DEF StartWatching, IndexerTypes, IndexerTypeOK, Positions
  <2>3. Positions'
    BY <1>4, <1>a DEF StartWatching, IndexerTypes, Positions, Busy
  <2> QED
    BY <2>2, <2>3 DEF IndexerTypes
<1>5. ASSUME NEW n \in 1 .. MaxLogs, Hear(n) PROVE IndexerTypes'
  <2>1. n \in heard + 1 .. Len(chain) /\ heard' = n /\ mode = "watching"
    BY <1>5 DEF Hear
  <2>2. progress' = [i \in DOMAIN progress |-> IF i \in heard + 1 .. n THEN "time" ELSE progress[i]]
    BY <1>5 DEF Hear
  <2>3. progress' \in [1 .. MaxLogs -> Stages]
    BY <2>2 DEF IndexerTypes, IndexerTypeOK, Stages
  <2>4. strayed' \subseteq Ticket
    <3>1. \A i \in heard + 1 .. n : chain[i].id \in Ticket
      BY <1>a, <2>1, LogFields DEF IndexerTypes, IndexerTypeOK
    <3> QED
      BY <1>5, <3>1 DEF Hear, IndexerTypes, IndexerTypeOK
  <2>5. IndexerTypeOK'
    <3>1. UNCHANGED <<chain, mode, upto, skip, pending, audit, sink, boots, unsunk>>
      BY <1>5 DEF Hear
    <3> QED
      BY <1>a, <2>1, <2>3, <2>4, <3>1 DEF IndexerTypes, IndexerTypeOK
  <2>6. \A i \in Busy' : i <= n /\ (progress'[i] = "read" => i \in Busy /\ progress[i] = "read")
    BY <1>a, <2>1, <2>2 DEF Busy, IndexerTypes, IndexerTypeOK, Positions
  <2>7. Positions'
    <3>1. UNCHANGED <<chain, mode, upto, skip, pending, audit, sink, boots, unsunk>>
      BY <1>5 DEF Hear
    <3>2. \A i \in Busy' : mode' # "down" /\ i <= heard' /\ (mode' = "replaying" => i = heard')
                            /\ (progress'[i] = "read" => chain'[i].kind = "created")
      BY <2>1, <2>6, <3>1 DEF IndexerTypes, Positions
    <3> QED
      BY <1>a, <2>1, <3>1, <3>2 DEF IndexerTypes, Positions
  <2> QED
    BY <2>5, <2>7 DEF IndexerTypes
<1>6. ASSUME NEW i \in 1 .. MaxLogs, Stores(i), progress[i] # "none",
             UNCHANGED <<chain, mode, upto, heard, skip, sink, unsunk, boots, strayed>>
      PROVE  IndexerTypes'
  <2>1. i \in Busy /\ i \in 1 .. heard /\ i \in 1 .. Len(chain) /\ chain[i] \in Log
    BY <1>6, StoreParts
  <2>2. pending' \in [Ticket -> Entry]
    BY <1>6, <2>1, AppliedTypes DEF Stores, IndexerTypes, IndexerTypeOK
  <2>3. progress' = [progress EXCEPT ![i] = "sink"] /\ progress' \in [1 .. MaxLogs -> Stages]
    BY <1>6 DEF Stores, IndexerTypes, IndexerTypeOK, Stages
  <2>4. audit' \in Seq(1 .. MaxLogs) /\ \A j \in DOMAIN audit' : audit'[j] <= Len(chain)
    <3>1. CASE Skipped
      BY <1>6, <3>1 DEF Stores, IndexerTypes, IndexerTypeOK, Positions
    <3>2. CASE ~Skipped
      <4>1. audit' = Append(audit, i) /\ audit \in Seq(1 .. MaxLogs)
        BY <1>6, <3>2 DEF Stores, IndexerTypes, IndexerTypeOK
      <4>2. \A j \in 1 .. Len(audit) : audit[j] <= Len(chain)
        BY <4>1 DEF IndexerTypes, Positions
      <4> QED
        BY <2>1, <4>1, <4>2, Appended
    <3> QED
      BY <3>1, <3>2
  <2>5. IndexerTypeOK'
    BY <1>6, <2>2, <2>3, <2>4 DEF IndexerTypes, IndexerTypeOK
  <2>6. \A k \in Busy' : k \in Busy /\ (progress'[k] = "read" => progress[k] = "read")
    BY <2>1, <2>3 DEF Busy, IndexerTypes, IndexerTypeOK
  <2>7. Positions'
    BY <1>6, <1>a, <2>4, <2>6 DEF IndexerTypes, Positions
  <2> QED
    BY <2>5, <2>7 DEF IndexerTypes
<1>7. ASSUME NEW i \in 1 .. MaxLogs, TakeTime(i) PROVE IndexerTypes'
  <2>1. CASE chain[i].kind = "created"
    <3>1. progress' = [progress EXCEPT ![i] = "read"] /\ progress' \in [1 .. MaxLogs -> Stages]
      BY <1>7, <2>1 DEF TakeTime, IndexerTypes, IndexerTypeOK, Stages
    <3>2. IndexerTypeOK'
      BY <1>7, <2>1, <3>1 DEF TakeTime, IndexerTypes, IndexerTypeOK
    <3>3. \A k \in Busy' : k \in Busy /\ (progress'[k] = "read" => k = i \/ progress[k] = "read")
      BY <1>7, <3>1 DEF TakeTime, Busy, IndexerTypes, IndexerTypeOK
    <3>4. Positions'
      BY <1>7, <1>a, <2>1, <3>3 DEF TakeTime, IndexerTypes, Positions
    <3> QED
      BY <3>2, <3>4 DEF IndexerTypes
  <2>2. CASE chain[i].kind # "created"
    BY <1>6, <1>7, <2>2 DEF TakeTime
  <2> QED
    BY <2>1, <2>2
<1>8. ASSUME NEW i \in 1 .. MaxLogs, Upsert(i) PROVE IndexerTypes'
  BY <1>6, <1>8 DEF Upsert
<1>9. ASSUME NEW i \in 1 .. MaxLogs, WriteSink(i) PROVE IndexerTypes'
  <2>1. progress' = [progress EXCEPT ![i] = "none"] /\ progress' \in [1 .. MaxLogs -> Stages]
    BY <1>9 DEF WriteSink, IndexerTypes, IndexerTypeOK, Stages
  <2>2. IndexerTypeOK'
    BY <1>9, <2>1 DEF WriteSink, Sunk, IndexerTypes, IndexerTypeOK
  <2>3. \A k \in Busy' : k \in Busy /\ progress'[k] = progress[k]
    BY <2>1 DEF Busy, IndexerTypes, IndexerTypeOK
  <2>4. Positions'
    BY <1>9, <1>a, <2>3 DEF WriteSink, IndexerTypes, Positions
  <2> QED
    BY <2>2, <2>4 DEF IndexerTypes
<1>10. ASSUME Stop PROVE IndexerTypes'
  <2>1. IndexerTypeOK' /\ Busy' = {}
    BY <1>10 DEF Stop, IndexerTypes, IndexerTypeOK, Stages, Busy
  <2>2. Positions'
    BY <1>10, <1>a, <2>1 DEF Stop, IndexerTypes, Positions
  <2> QED
    BY <2>1, <2>2 DEF IndexerTypes
<1>11. ASSUME UNCHANGED indexerVars PROVE IndexerTypes'
  BY <1>11 DEF indexerVars, IndexerTypes, IndexerTypeOK, Positions, Busy
<1> QED
  BY <1>1, <1>2, <1>3, <1>4, <1>5, <1>7, <1>8, <1>9, <1>10, <1>11 DEF IndexerNext

\* The indexer's state keeps its type, nothing is in the audit or in work
\* before it is on the chain, and a replay works on one log at a time.
THEOREM IndexerIsTyped == IndexerSpec => []IndexerTypes
<1> QED
  BY IndexerTypesStart, IndexerTypesStep, PTL DEF IndexerSpec

-----------------------------------------------------------------------------
(* What a replay leaves in the sink.                                       *)
Carried ==
  mode = "replaying" =>
    \A i \in 1 .. heard : i \in sink \/ i \in unsunk \/ i \in Busy
CarriedInv == IndexerTypes /\ Carried

LEMMA CarriedStart == IndexerInit => CarriedInv
BY IndexerTypesStart DEF CarriedInv, Carried, IndexerInit

LEMMA CarriedStep == CarriedInv /\ [IndexerNext]_indexerVars => CarriedInv'
<1>. SUFFICES ASSUME CarriedInv, [IndexerNext]_indexerVars PROVE CarriedInv'
  OBVIOUS
<1>1. IndexerTypes /\ IndexerTypes' /\ Carried
  BY IndexerTypesStep DEF CarriedInv
<1>2. heard \in Nat /\ upto \in Nat /\ progress \in [1 .. MaxLogs -> Stages]
  BY <1>1 DEF IndexerTypes, IndexerTypeOK
<1>3. ASSUME UNCHANGED <<mode, heard, sink, unsunk>>, Busy \subseteq Busy' PROVE Carried'
  BY <1>1, <1>3 DEF Carried
<1>4. ASSUME NEW log \in Log, Emitted(log) PROVE Carried'
  BY <1>3, <1>4 DEF Emitted, Busy
<1>5. ASSUME Boot PROVE Carried'
  BY <1>5 DEF Boot, Carried
<1>6. ASSUME ReplayNext PROVE Carried'
  <2>1. heard + 1 \in 1 .. MaxLogs
    BY <1>1, <1>2, <1>6, IndexerAssumption DEF ReplayNext, IndexerTypes, IndexerTypeOK, Positions
  <2>2. heard' = heard + 1 /\ heard + 1 \in Busy' /\ Busy = {} /\ mode = "replaying"
    BY <1>2, <1>6, <2>1 DEF ReplayNext, Busy, Stages
  <2> QED
    BY <1>1, <1>2, <1>6, <2>2 DEF ReplayNext, Carried
<1>7. ASSUME StartWatching PROVE Carried'
  BY <1>7 DEF StartWatching, Carried
<1>8. ASSUME NEW n \in 1 .. MaxLogs, Hear(n) PROVE Carried'
  BY <1>8 DEF Hear, Carried
<1>9. ASSUME NEW i \in 1 .. MaxLogs, TakeTime(i) \/ Upsert(i) PROVE Carried'
  <2>1. Busy \subseteq Busy'
    BY <1>2, <1>9 DEF TakeTime, Upsert, Stores, Busy, Stages
  <2> QED
    BY <1>3, <1>9, <2>1 DEF TakeTime, Upsert
<1>10. ASSUME NEW i \in 1 .. MaxLogs, WriteSink(i) PROVE Carried'
  <2>1. \A k \in Busy : k = i \/ k \in Busy'
    BY <1>2, <1>10 DEF WriteSink, Busy
  <2>2. i \in sink' \/ i \in unsunk'
    BY <1>10 DEF WriteSink, Sunk
  <2>3. \A k \in sink \cup unsunk : k = i \/ k \in sink' \/ k \in unsunk'
    BY <1>10 DEF WriteSink, Sunk
  <2>4. UNCHANGED <<mode, heard>>
    BY <1>10 DEF WriteSink
  <2> QED
    BY <1>1, <2>1, <2>2, <2>3, <2>4 DEF Carried
<1>11. ASSUME Stop PROVE Carried'
  BY <1>11 DEF Stop, Carried
<1>12. ASSUME UNCHANGED indexerVars PROVE Carried'
  BY <1>3, <1>12 DEF indexerVars, Busy
<1>13. Carried'
  BY <1>4, <1>5, <1>6, <1>7, <1>8, <1>9, <1>10, <1>11, <1>12 DEF IndexerNext
<1> QED
  BY <1>1, <1>13 DEF CarriedInv

\* However often the watcher stopped and whatever it missed: once a replay is
\* through, every log it asked for has its row or lost it to a failed write.
THEOREM ReplayFillsTheSink == IndexerSpec => []ReplayCompletesSink
<1>1. CarriedInv => ReplayCompletesSink
  BY DEF CarriedInv, Carried, ReplayCompletesSink
<1> QED
  BY <1>1, CarriedStart, CarriedStep, PTL DEF IndexerSpec

-----------------------------------------------------------------------------
(* The audit.                                                              *)
\* While the audit is written, what is in it was handed over and is past it.
Noted ==
  mode = "watching" \/ (mode = "replaying" /\ ~skip) =>
    \A j \in DOMAIN audit : audit[j] <= heard /\ progress[audit[j]] \in {"none", "sink"}
AuditInv == IndexerTypes /\ AuditedOnce /\ Noted

LEMMA AuditStart == IndexerInit => AuditInv
<1>1. IndexerInit => DOMAIN audit = {}
  BY DEF IndexerInit
<1> QED
  BY <1>1, IndexerTypesStart DEF AuditInv, AuditedOnce, Noted, IndexerInit

LEMMA AuditStep == AuditInv /\ [IndexerNext]_indexerVars => AuditInv'
<1>. SUFFICES ASSUME AuditInv, [IndexerNext]_indexerVars PROVE AuditInv'
  OBVIOUS
<1>1. IndexerTypes /\ IndexerTypes' /\ AuditedOnce /\ Noted
  BY IndexerTypesStep DEF AuditInv
<1>2. /\ heard \in Nat /\ upto \in Nat /\ progress \in [1 .. MaxLogs -> Stages]
      /\ audit \in Seq(1 .. MaxLogs) /\ DOMAIN audit = 1 .. Len(audit)
      /\ \A j \in DOMAIN audit : audit[j] \in 1 .. MaxLogs /\ audit[j] <= Len(chain)
      /\ Len(chain) \in Nat
  <2>1. heard \in Nat /\ upto \in Nat /\ progress \in [1 .. MaxLogs -> Stages] /\ Len(chain) \in Nat
    BY <1>1 DEF IndexerTypes, IndexerTypeOK
  <2>2. audit \in Seq(1 .. MaxLogs)
    BY <1>1 DEF IndexerTypes, IndexerTypeOK
  <2>3. DOMAIN audit = 1 .. Len(audit) /\ \A j \in DOMAIN audit : audit[j] \in 1 .. MaxLogs
    BY <2>2, Elements
  <2>4. \A j \in DOMAIN audit : audit[j] <= Len(chain)
    BY <1>1 DEF IndexerTypes, Positions
  <2> QED
    BY <2>1, <2>2, <2>3, <2>4
<1>3. ASSUME UNCHANGED audit, Noted' PROVE AuditInv'
  BY <1>1, <1>3 DEF AuditInv, AuditedOnce
<1>4. ASSUME NEW log \in Log, Emitted(log) PROVE AuditInv'
  BY <1>1, <1>3, <1>4 DEF Emitted, Noted
<1>5. ASSUME Boot PROVE AuditInv'
  <2>1. ~skip' => DOMAIN audit' = {}
    <3>1. skip' = (audit # <<>>) /\ audit' = audit
      BY <1>5 DEF Boot
    <3>2. CASE audit = <<>>
      BY <3>1, <3>2
    <3>3. CASE audit # <<>>
      BY <3>1, <3>3
    <3> QED
      BY <3>2, <3>3
  <2>2. Noted'
    BY <1>5, <2>1 DEF Boot, Noted
  <2> QED
    BY <1>3, <1>5, <2>2 DEF Boot
<1>6. ASSUME ReplayNext PROVE AuditInv'
  <2>1. heard' = heard + 1 /\ progress' = [progress EXCEPT ![heard + 1] = "time"]
        /\ UNCHANGED <<audit, mode, skip>>
    BY <1>6 DEF ReplayNext
  <2>2. Noted'
    BY <1>1, <1>2, <2>1 DEF Noted
  <2> QED
    BY <1>3, <2>1, <2>2
<1>7. ASSUME StartWatching PROVE AuditInv'
  <2>1. heard' = Len(chain) /\ \A i \in 1 .. MaxLogs : progress[i] = "none"
    BY <1>2, <1>7 DEF StartWatching, Busy
  <2>2. UNCHANGED <<audit, progress>>
    BY <1>7 DEF StartWatching
  <2>3. Noted'
    BY <1>2, <2>1, <2>2 DEF Noted
  <2> QED
    BY <1>3, <2>2, <2>3
<1>8. ASSUME NEW n \in 1 .. MaxLogs, Hear(n) PROVE AuditInv'
  <2>1. mode = "watching" /\ n > heard /\ heard' = n /\ UNCHANGED <<audit, mode>>
    BY <1>2, <1>8 DEF Hear
  <2>2. progress' = [i \in DOMAIN progress |-> IF i \in heard + 1 .. n THEN "time" ELSE progress[i]]
    BY <1>8 DEF Hear
  <2>3. \A j \in DOMAIN audit : progress'[audit[j]] = progress[audit[j]] /\ audit[j] <= n
    BY <1>1, <1>2, <2>1, <2>2 DEF Noted
  <2>4. Noted'
    BY <1>1, <2>1, <2>3 DEF Noted
  <2> QED
    BY <1>3, <2>1, <2>4
<1>9. ASSUME NEW i \in 1 .. MaxLogs, Stores(i), progress[i] \in {"time", "read"},
             UNCHANGED <<chain, mode, upto, heard, skip>>
      PROVE  AuditInv'
  <2>1. i \in 1 .. heard /\ mode # "down"
    BY <1>1, <1>9, StoreParts DEF IndexerTypes, Positions
  <2>2. progress' = [progress EXCEPT ![i] = "sink"]
    BY <1>9 DEF Stores
  <2>3. CASE Skipped
    <3>1. Noted'
      BY <1>9, <2>3 DEF Skipped, Noted
    <3> QED
      BY <1>3, <1>9, <2>3, <3>1 DEF Stores
  <2>4. CASE ~Skipped
    <3>1. mode = "watching" \/ (mode = "replaying" /\ ~skip)
      BY <1>1, <2>1, <2>4 DEF Skipped, IndexerTypes, IndexerTypeOK
    <3>2. \A j \in DOMAIN audit : audit[j] # i /\ audit[j] <= heard /\ progress[audit[j]] \in {"none", "sink"}
      BY <1>1, <1>9, <3>1 DEF Noted
    <3>3. audit' = Append(audit, i)
      BY <1>9, <2>4 DEF Stores
    <3>4. /\ DOMAIN audit' = 1 .. Len(audit) + 1
          /\ \A j \in DOMAIN audit : audit'[j] = audit[j]
          /\ audit'[Len(audit) + 1] = i
      BY <1>2, <3>3, Appended
    <3>5. AuditedOnce'
      BY <1>1, <1>2, <3>2, <3>4 DEF AuditedOnce
    <3>6. \A j \in DOMAIN audit' : audit'[j] <= heard /\ progress'[audit'[j]] \in {"none", "sink"}
      BY <1>2, <2>1, <2>2, <3>2, <3>4
    <3> QED
      BY <1>1, <1>9, <3>5, <3>6 DEF AuditInv, Noted
  <2> QED
    BY <2>3, <2>4
<1>10. ASSUME NEW i \in 1 .. MaxLogs, TakeTime(i) \/ Upsert(i) PROVE AuditInv'
  <2>1. CASE TakeTime(i) /\ chain[i].kind = "created"
    <3>1. progress' = [progress EXCEPT ![i] = "read"] /\ progress[i] = "time"
          /\ UNCHANGED <<audit, mode, skip, heard>>
      BY <2>1 DEF TakeTime
    <3>2. Noted'
      BY <1>1, <1>2, <3>1 DEF Noted
    <3> QED
      BY <1>3, <3>1, <3>2
  <2>2. CASE ~(TakeTime(i) /\ chain[i].kind = "created")
    <3>1. Stores(i) /\ progress[i] \in {"time", "read"} /\ UNCHANGED <<chain, mode, upto, heard, skip>>
      BY <1>10, <2>2 DEF TakeTime, Upsert
    <3> QED
      BY <1>9, <3>1
  <2> QED
    BY <2>1, <2>2
<1>11. ASSUME NEW i \in 1 .. MaxLogs, WriteSink(i) PROVE AuditInv'
  <2>1. progress' = [progress EXCEPT ![i] = "none"] /\ UNCHANGED <<audit, mode, skip, heard>>
    BY <1>11 DEF WriteSink
  <2>2. Noted'
    BY <1>1, <1>2, <2>1 DEF Noted
  <2> QED
    BY <1>3, <2>1, <2>2
<1>12. ASSUME Stop PROVE AuditInv'
  BY <1>3, <1>12 DEF Stop, Noted
<1>13. ASSUME UNCHANGED indexerVars PROVE AuditInv'
  BY <1>1, <1>3, <1>13 DEF indexerVars, Noted
<1> QED
  BY <1>4, <1>5, <1>6, <1>7, <1>8, <1>10, <1>11, <1>12, <1>13 DEF IndexerNext

\* However often the watcher is started and wherever it stopped, no log is in
\* the audit of its store twice.
THEOREM AuditHasNoDoubles == IndexerSpec => []AuditedOnce
<1>1. AuditInv => AuditedOnce
  BY DEF AuditInv
<1> QED
  BY <1>1, AuditStart, AuditStep, PTL DEF IndexerSpec

-----------------------------------------------------------------------------
(* The store and the chain.                                                *)
\* An intent is created once and first, and nothing follows its resolution.
Formed ==
  \A i \in 1 .. Len(chain) :
    IF chain[i].kind = "created" THEN LogsOf(chain[i].id, i - 1) = {}
    ELSE LogsOf(chain[i].id, i - 1) # {} /\ EndsOf(chain[i].id, i - 1) = {}
\* The last of the logs is one of them.
Lasting ==
  \A id \in Ticket, n \in 0 .. Len(chain) : LogsOf(id, n) # {} =>
    /\ Last(MovesOf(id, n)) \in MovesOf(id, n)
    /\ EndsOf(id, n) # {} => Last(EndsOf(id, n)) \in EndsOf(id, n)
ChainInv == IndexerTypes /\ Formed /\ Lasting

LEMMA Latest ==
  ASSUME NEW S, NEW i \in Nat, i \in S, \A j \in S : j \in Nat /\ j <= i
  PROVE  Last(S) = i
<1>1. \A j \in S : (\A k \in S : k <= j) => j = i
  OBVIOUS
<1> QED
  BY <1>1 DEF Last

\* A log changes what is known of its own intent only.
LEMMA Elsewhere ==
  ASSUME NEW id, NEW a \in Nat, NEW b \in Nat, a <= b,
         \A k \in a + 1 .. b : chain[k].id # id
  PROVE  LogsOf(id, a) = LogsOf(id, b) /\ OnChain(id, a) = OnChain(id, b)
<1>1. LogsOf(id, a) = LogsOf(id, b)
  BY DEF LogsOf
<1> QED
  BY <1>1 DEF OnChain, MovesOf, EndsOf

LEMMA Listed ==
  ASSUME NEW id, NEW n, LogsOf(id, n) # {}
  PROVE  /\ OnChain(id, n) # Unknown
         /\ OnChain(id, n).verdict = "ESCALATE" <=> EndsOf(id, n) = {}
<1>1. OnChain(id, n).verdict =
        IF EndsOf(id, n) = {} THEN "ESCALATE"
        ELSE IF chain[Last(EndsOf(id, n))].approved THEN "ALLOW" ELSE "DENY"
  BY DEF OnChain
<1>2. Unknown.verdict = "unknown"
  BY DEF Unknown
<1> QED
  BY <1>1, <1>2

\* The sets of logs of an intent, one log further.
LEMMA Further ==
  ASSUME IndexerTypes, NEW i \in 1 .. Len(chain)
  PROVE  LET id == chain[i].id IN
         /\ id \in Ticket /\ chain[i].kind \in {"created", "escalated", "resolved"}
         /\ LogsOf(id, i) = LogsOf(id, i - 1) \cup {i}
         /\ chain[i].kind # "resolved" =>
              MovesOf(id, i) = MovesOf(id, i - 1) \cup {i} /\ EndsOf(id, i) = EndsOf(id, i - 1)
         /\ chain[i].kind = "resolved" =>
              MovesOf(id, i) = MovesOf(id, i - 1) /\ EndsOf(id, i) = EndsOf(id, i - 1) \cup {i}
         /\ \A j \in LogsOf(id, i) : j \in Nat /\ j <= i
<1>. DEFINE id == chain[i].id
<1>1. Len(chain) \in Nat /\ i \in Nat /\ chain[i] \in Log
  BY DEF IndexerTypes, IndexerTypeOK
<1>2. id \in Ticket /\ chain[i].kind \in {"created", "escalated", "resolved"}
  BY <1>1, LogFields
<1>3. LogsOf(id, i) = LogsOf(id, i - 1) \cup {i} /\ i \notin LogsOf(id, i - 1)
      /\ \A j \in LogsOf(id, i) : j \in Nat /\ j <= i
  BY <1>1 DEF LogsOf
<1>4. chain[i].kind # "resolved" =>
        MovesOf(id, i) = MovesOf(id, i - 1) \cup {i} /\ EndsOf(id, i) = EndsOf(id, i - 1)
  BY <1>3 DEF MovesOf, EndsOf
<1>5. chain[i].kind = "resolved" =>
        MovesOf(id, i) = MovesOf(id, i - 1) /\ EndsOf(id, i) = EndsOf(id, i - 1) \cup {i}
  BY <1>3 DEF MovesOf, EndsOf
<1> QED
  BY <1>2, <1>3, <1>4, <1>5

\* What each kind of log makes of an intent.
LEMMA Follows ==
  ASSUME ChainInv, NEW i \in 1 .. Len(chain),
         chain[i].kind # "created" => pending[chain[i].id] = OnChain(chain[i].id, i - 1)
  PROVE  Applied(chain[i]) = [pending EXCEPT ![chain[i].id] = OnChain(chain[i].id, i)]
<1>. DEFINE id == chain[i].id
<1>1. /\ id \in Ticket /\ chain[i].kind \in {"created", "escalated", "resolved"} /\ i \in Nat
      /\ LogsOf(id, i) = LogsOf(id, i - 1) \cup {i}
      /\ \A j \in LogsOf(id, i) : j \in Nat /\ j <= i
  BY Further DEF ChainInv, IndexerTypes, IndexerTypeOK
<1>2. pending \in [Ticket -> Entry]
  BY DEF ChainInv, IndexerTypes, IndexerTypeOK
<1>3. CASE chain[i].kind = "created"
  <2>1. LogsOf(id, i - 1) = {}
    BY <1>3 DEF ChainInv, Formed
  <2>2. MovesOf(id, i) = {i} /\ EndsOf(id, i) = {}
    BY <1>1, <1>3, <2>1, Further DEF ChainInv, MovesOf, EndsOf
  <2>3. Last(MovesOf(id, i)) = i
    BY <1>1, <2>2, Latest
  <2>4. OnChain(id, i) = [awaiting |-> chain[i].to, verdict |-> "ESCALATE"]
    BY <1>1, <2>2, <2>3 DEF OnChain
  <2> QED
    BY <1>3, <2>4 DEF Applied
<1>4. CASE chain[i].kind # "created"
  <2>1. LogsOf(id, i - 1) # {} /\ EndsOf(id, i - 1) = {}
    BY <1>4 DEF ChainInv, Formed
  <2>2. pending[id] = [awaiting |-> chain[Last(MovesOf(id, i - 1))].to, verdict |-> "ESCALATE"]
    BY <1>4, <2>1 DEF OnChain
  <2>3. pending[id] # Unknown
    BY <1>4, <2>1, Listed
  <2>4. CASE chain[i].kind = "escalated"
    <3>1. MovesOf(id, i) = MovesOf(id, i - 1) \cup {i} /\ EndsOf(id, i) = {}
      BY <2>1, <2>4, Further DEF ChainInv
    <3>2. Last(MovesOf(id, i)) = i
      BY <1>1, <3>1, Latest DEF MovesOf
    <3>3. OnChain(id, i) = [awaiting |-> chain[i].to, verdict |-> "ESCALATE"]
      BY <1>1, <3>1, <3>2 DEF OnChain
    <3>4. Applied(chain[i]) = [pending EXCEPT ![id] = [pending[id] EXCEPT !.awaiting = chain[i].to]]
      BY <2>3, <2>4 DEF Applied
    <3>5. [pending[id] EXCEPT !.awaiting = chain[i].to] = OnChain(id, i)
      BY <2>2, <3>3
    <3> QED
      BY <3>4, <3>5
  <2>5. CASE chain[i].kind = "resolved"
    <3>1. MovesOf(id, i) = MovesOf(id, i - 1) /\ EndsOf(id, i) = {i}
      BY <2>1, <2>5, Further DEF ChainInv
    <3>2. Last(EndsOf(id, i)) = i
      BY <1>1, <3>1, Latest
    <3>3. OnChain(id, i) = [awaiting |-> chain[Last(MovesOf(id, i - 1))].to,
                            verdict |-> IF chain[i].approved THEN "ALLOW" ELSE "DENY"]
      BY <1>1, <3>1, <3>2 DEF OnChain
    <3>4. Applied(chain[i]) = [pending EXCEPT ![id] =
            [pending[id] EXCEPT !.verdict = IF chain[i].approved THEN "ALLOW" ELSE "DENY"]]
      BY <2>3, <2>5 DEF Applied
    <3>5. [pending[id] EXCEPT !.verdict = IF chain[i].approved THEN "ALLOW" ELSE "DENY"] = OnChain(id, i)
      BY <2>2, <3>3
    <3> QED
      BY <3>4, <3>5
  <2> QED
    BY <1>1, <1>4, <2>4, <2>5
<1> QED
  BY <1>3, <1>4

LEMMA ChainStart == IndexerInit => ChainInv
<1>. SUFFICES ASSUME IndexerInit PROVE ChainInv
  OBVIOUS
<1>1. Len(chain) = 0
  BY DEF IndexerInit
<1>2. \A id, n : n \in 0 .. 0 => LogsOf(id, n) = {}
  BY DEF LogsOf
<1>3. Formed /\ Lasting
  BY <1>1, <1>2 DEF Formed, Lasting
<1> QED
  BY <1>3, IndexerTypesStart DEF ChainInv

\* What was known of a shorter chain still is.
LEMMA Kept ==
  ASSUME IndexerTypes, Lasting, NEW log \in Log, Emitted(log), NEW id \in Ticket,
         NEW n \in 0 .. Len(chain)
  PROVE  /\ LogsOf(id, n)' = LogsOf(id, n) /\ MovesOf(id, n)' = MovesOf(id, n)
         /\ EndsOf(id, n)' = EndsOf(id, n) /\ OnChain(id, n)' = OnChain(id, n)
<1>1. \A i \in 1 .. n : chain'[i] = chain[i]
  BY Appended DEF Emitted, IndexerTypes, IndexerTypeOK
<1>2. LogsOf(id, n)' = LogsOf(id, n) /\ LogsOf(id, n) \subseteq 1 .. n
  BY <1>1 DEF LogsOf
<1>3. MovesOf(id, n)' = MovesOf(id, n)
  BY <1>1, <1>2 DEF MovesOf
<1>4. EndsOf(id, n)' = EndsOf(id, n)
  BY <1>2, <1>3 DEF EndsOf
<1>5. CASE LogsOf(id, n) = {}
  BY <1>2, <1>3, <1>4, <1>5 DEF OnChain, Unknown
<1>6. CASE LogsOf(id, n) # {}
  <2>1. Last(MovesOf(id, n)) \in 1 .. n /\ (EndsOf(id, n) # {} => Last(EndsOf(id, n)) \in 1 .. n)
    BY <1>2, <1>6 DEF Lasting, MovesOf, EndsOf
  <2>2. /\ chain'[Last(MovesOf(id, n))] = chain[Last(MovesOf(id, n))]
        /\ EndsOf(id, n) # {} => chain'[Last(EndsOf(id, n))] = chain[Last(EndsOf(id, n))]
    BY <1>1, <2>1
  <2>3. /\ Last(MovesOf(id, n))' = Last(MovesOf(id, n)) /\ Last(EndsOf(id, n))' = Last(EndsOf(id, n))
    BY <1>3, <1>4 DEF Last
  <2>4. CASE EndsOf(id, n) = {}
    BY <1>2, <1>3, <1>4, <1>6, <2>2, <2>3, <2>4 DEF OnChain
  <2>5. CASE EndsOf(id, n) # {}
    BY <1>2, <1>3, <1>4, <1>6, <2>2, <2>3, <2>5 DEF OnChain
  <2> QED
    BY <2>4, <2>5
<1> QED
  BY <1>2, <1>3, <1>4, <1>5, <1>6

LEMMA ChainStep == ChainInv /\ [IndexerNext]_indexerVars => ChainInv'
<1>. SUFFICES ASSUME ChainInv, [IndexerNext]_indexerVars PROVE ChainInv'
  OBVIOUS
<1>1. IndexerTypes /\ IndexerTypes' /\ Formed /\ Lasting
  BY IndexerTypesStep DEF ChainInv
<1>2. ASSUME chain' = chain PROVE ChainInv'
  <2>1. \A id, n : LogsOf(id, n)' = LogsOf(id, n)
    BY <1>2 DEF LogsOf
  <2>2. \A id, n : MovesOf(id, n)' = MovesOf(id, n)
    BY <1>2, <2>1 DEF MovesOf
  <2>3. \A id, n : EndsOf(id, n)' = EndsOf(id, n)
    BY <2>1, <2>2 DEF EndsOf
  <2>4. Formed'
    BY <1>1, <1>2, <2>1, <2>3 DEF Formed
  <2>5. Lasting'
    BY <1>1, <1>2, <2>1, <2>2, <2>3 DEF Lasting, Last
  <2> QED
    BY <1>1, <2>4, <2>5 DEF ChainInv
<1>3. ASSUME NEW log \in Log, Emitted(log) PROVE ChainInv'
  <2>. PICK m : m = Len(chain) + 1
    OBVIOUS
  <2>1. /\ Len(chain') = m /\ chain'[m] = log /\ Len(chain) \in Nat
        /\ \A i \in 1 .. Len(chain) : chain'[i] = chain[i] /\ chain[i].id \in Ticket
    BY <1>1, <1>3, Appended, LogFields DEF Emitted, IndexerTypes, IndexerTypeOK
  <2>2. log.id \in Ticket /\ log.kind \in {"created", "escalated", "resolved"}
    BY LogFields
  <2>3. IF log.kind = "created" THEN LogsOf(log.id, m - 1) = {}
        ELSE LogsOf(log.id, m - 1) # {} /\ EndsOf(log.id, m - 1) = {}
    <3>1. m - 1 = Len(chain)
      BY <2>1
    <3>2. CASE log.kind = "created"
      <4>1. OnChain(log.id, Len(chain)) = Unknown
        BY <1>3, <3>2 DEF Emitted
      <4> QED
        BY <3>1, <3>2, <4>1, Listed
    <3>3. CASE log.kind # "created"
      <4>1. OnChain(log.id, Len(chain)).verdict = "ESCALATE"
        BY <1>3, <3>3 DEF Emitted
      <4>2. LogsOf(log.id, Len(chain)) # {}
        BY <4>1 DEF OnChain, Unknown
      <4> QED
        BY <3>1, <3>3, <4>1, <4>2, Listed
    <3> QED
      BY <3>2, <3>3
  <2>4. Formed'
    <3>1. SUFFICES ASSUME NEW i \in 1 .. m, NEW id, id = chain'[i].id
                   PROVE  IF chain'[i].kind = "created" THEN LogsOf(id, i - 1)' = {}
                          ELSE LogsOf(id, i - 1)' # {} /\ EndsOf(id, i - 1)' = {}
      BY <2>1 DEF Formed
    <3>2. i - 1 \in 0 .. Len(chain) /\ id \in Ticket
      BY <2>1, <2>2, <3>1
    <3>3. LogsOf(id, i - 1)' = LogsOf(id, i - 1) /\ EndsOf(id, i - 1)' = EndsOf(id, i - 1)
      BY <1>1, <1>3, <3>2, Kept
    <3>4. CASE i = m
      BY <2>1, <2>3, <3>1, <3>3, <3>4
    <3>5. CASE i \in 1 .. Len(chain)
      BY <1>1, <2>1, <3>1, <3>3, <3>5 DEF Formed
    <3> QED
      BY <2>1, <3>4, <3>5
  <2>5. Lasting'
    <3>1. SUFFICES ASSUME NEW id \in Ticket, NEW n \in 0 .. m, LogsOf(id, n)' # {}
                   PROVE  /\ Last(MovesOf(id, n))' \in MovesOf(id, n)'
                          /\ EndsOf(id, n)' # {} => Last(EndsOf(id, n))' \in EndsOf(id, n)'
      BY <2>1 DEF Lasting
    <3>2. ASSUME NEW k \in 0 .. Len(chain), LogsOf(id, k)' # {}
          PROVE  /\ Last(MovesOf(id, k))' \in MovesOf(id, k)'
                 /\ EndsOf(id, k)' # {} => Last(EndsOf(id, k))' \in EndsOf(id, k)'
      <4>1. LogsOf(id, k)' = LogsOf(id, k) /\ MovesOf(id, k)' = MovesOf(id, k) /\ EndsOf(id, k)' = EndsOf(id, k)
        BY <1>1, <1>3, Kept
      <4>2. Last(MovesOf(id, k))' = Last(MovesOf(id, k)) /\ Last(EndsOf(id, k))' = Last(EndsOf(id, k))
        BY <4>1 DEF Last
      <4> QED
        BY <1>1, <3>2, <4>1, <4>2 DEF Lasting
    <3>3. CASE n \in 0 .. Len(chain)
      BY <3>1, <3>2, <3>3
    <3>4. CASE n = m /\ log.id # id
      <4>1. LogsOf(id, n)' = LogsOf(id, m - 1)' /\ m - 1 \in 0 .. Len(chain)
        BY <2>1, <3>4 DEF LogsOf
      <4>2. MovesOf(id, n)' = MovesOf(id, m - 1)' /\ EndsOf(id, n)' = EndsOf(id, m - 1)'
        BY <4>1 DEF MovesOf, EndsOf
      <4>3. Last(MovesOf(id, n))' = Last(MovesOf(id, m - 1))' /\ Last(EndsOf(id, n))' = Last(EndsOf(id, m - 1))'
        BY <4>2 DEF Last
      <4> QED
        BY <3>1, <3>2, <4>1, <4>2, <4>3
    <3>5. CASE n = m /\ log.id = id
      <4>1. /\ LogsOf(id, m)' = LogsOf(id, m - 1)' \cup {m} /\ m \in Nat /\ m - 1 \in 0 .. Len(chain)
            /\ \A j \in LogsOf(id, m)' : j \in Nat /\ j <= m
            /\ m \notin LogsOf(id, m - 1)'
        BY <2>1, <3>5 DEF LogsOf
      <4>2. LogsOf(id, m - 1)' = LogsOf(id, m - 1) /\ EndsOf(id, m - 1)' = EndsOf(id, m - 1)
        BY <1>1, <1>3, <4>1, Kept
      <4>3. CASE log.kind # "resolved"
        <5>1. MovesOf(id, m)' = MovesOf(id, m - 1)' \cup {m} /\ EndsOf(id, m)' = EndsOf(id, m - 1)'
          BY <2>1, <4>1, <4>3 DEF MovesOf, EndsOf
        <5>2. EndsOf(id, m - 1)' = {}
          BY <2>3, <3>5, <4>2 DEF EndsOf
        <5>3. \A j \in MovesOf(id, m)' : j \in Nat /\ j <= m
          BY <4>1 DEF MovesOf
        <5>4. Last(MovesOf(id, m))' = m
          BY <4>1, <5>1, <5>3, Latest DEF Last
        <5> QED
          BY <3>5, <5>1, <5>2, <5>4
      <4>4. CASE log.kind = "resolved"
        <5>1. MovesOf(id, m)' = MovesOf(id, m - 1)' /\ EndsOf(id, m)' = EndsOf(id, m - 1)' \cup {m}
          BY <2>1, <4>1, <4>4 DEF MovesOf, EndsOf
        <5>2. LogsOf(id, m - 1)' # {} /\ EndsOf(id, m - 1)' = {}
          BY <2>3, <3>5, <4>2, <4>4
        <5>3. Last(EndsOf(id, m))' = m
          BY <4>1, <5>1, <5>2, Latest DEF Last
        <5>4. Last(MovesOf(id, m))' = Last(MovesOf(id, m - 1))'
          BY <5>1 DEF Last
        <5> QED
          BY <3>2, <3>5, <4>1, <5>1, <5>2, <5>3, <5>4
      <4> QED
        BY <4>3, <4>4
    <3> QED
      BY <2>1, <3>3, <3>4, <3>5
  <2> QED
    BY <1>1, <2>4, <2>5 DEF ChainInv
<1>4. CASE \E log \in Log : Emitted(log)
  BY <1>3, <1>4
<1>5. CASE ~ \E log \in Log : Emitted(log)
  <2>1. chain' = chain
    BY <1>5 DEF IndexerNext, indexerVars, Boot, ReplayNext, StartWatching, Stop, Hear, TakeTime,
                Upsert, WriteSink
  <2> QED
    BY <1>2, <2>1
<1> QED
  BY <1>4, <1>5

\* The logs of an intent that wait to be stored.
Waiting(id) == {i \in Busy : chain[i].id = id /\ progress[i] # "sink"}
Fresh(id, n) == pending[id] = OnChain(id, n)
\* The entry says what came before the one log that waits, or all that was
\* handed over.  During a replay it says so from the intent's first log on, and
\* has no more than that to say of an intent the replay does not come to.
Abreast(id) ==
  /\ \A i \in Waiting(id) : Fresh(id, i - 1) /\ \A k \in i + 1 .. heard : chain[k].id # id
  /\ Waiting(id) = {} => Fresh(id, heard)
Replayed(id) ==
  /\ \A i \in Waiting(id) : LogsOf(id, i - 1) # {} => Fresh(id, i - 1)
  /\ Waiting(id) = {} /\ LogsOf(id, heard) # {} => Fresh(id, heard)
  /\ pending[id] # Unknown => LogsOf(id, upto) # {}
Mirror ==
  /\ \A id \in Ticket : pending[id] # Unknown => LogsOf(id, Len(chain)) # {}
  /\ mode = "watching" => \A id \in Ticket \ strayed : Abreast(id)
  /\ mode = "replaying" => strayed = Ticket /\ \A id \in Ticket : Replayed(id)
MirrorInv == ChainInv /\ Mirror

LEMMA MirrorStart == IndexerInit => MirrorInv
BY ChainStart DEF MirrorInv, Mirror, IndexerInit

\* The least that every step's proof needs.
LEMMA Numbers ==
  ASSUME IndexerTypes
  PROVE  /\ Len(chain) \in Nat /\ heard \in 0 .. Len(chain) /\ upto \in 0 .. Len(chain)
         /\ progress \in [1 .. MaxLogs -> Stages] /\ Len(chain) <= MaxLogs
         /\ \A i \in Busy : i \in 1 .. heard /\ chain[i] \in Log
         /\ pending \in [Ticket -> Entry] /\ strayed \subseteq Ticket
<1>1. /\ Len(chain) \in Nat /\ heard \in 0 .. Len(chain) /\ upto \in 0 .. Len(chain)
      /\ progress \in [1 .. MaxLogs -> Stages] /\ Len(chain) <= MaxLogs /\ chain \in Seq(Log)
      /\ pending \in [Ticket -> Entry] /\ strayed \subseteq Ticket
  BY IndexerAssumption DEF IndexerTypes, IndexerTypeOK, Positions
<1>2. \A i \in Busy : i \in 1 .. heard
  BY <1>1 DEF IndexerTypes, Positions, Busy
<1> QED
  BY <1>1, <1>2

\* A log that waits is stored: its intent has nothing waiting, and says what
\* the logs so far say; the others are as they were.
LEMMA StoreKeepsMirror ==
  ASSUME MirrorInv, NEW i \in 1 .. MaxLogs, Stores(i), progress[i] \in {"time", "read"},
         UNCHANGED <<chain, mode, upto, heard, strayed>>
  PROVE  Mirror'
<1>1. IndexerTypes /\ ChainInv /\ Mirror
  BY DEF MirrorInv, ChainInv
<1>2. /\ Len(chain) \in Nat /\ heard \in 0 .. Len(chain) /\ upto \in 0 .. Len(chain)
      /\ progress \in [1 .. MaxLogs -> Stages] /\ pending \in [Ticket -> Entry] /\ strayed \subseteq Ticket
  BY <1>1, Numbers
<1>3. i \in Busy /\ i \in 1 .. heard /\ i \in 1 .. Len(chain) /\ chain[i].id \in Ticket
  BY <1>1, StoreParts, LogFields
<1>. PICK own : own = chain[i].id
  OBVIOUS
<1>4. i \in Waiting(own) /\ own \in Ticket /\ LogsOf(own, i) # {} /\ i \in LogsOf(own, heard)
  BY <1>2, <1>3 DEF Waiting, LogsOf
<1>5. /\ progress' = [progress EXCEPT ![i] = "sink"] /\ pending' = Applied(chain[i])
      /\ Busy' = Busy
  BY <1>2, <1>3 DEF Stores, Busy, Stages
<1>6. \A id \in Ticket : Waiting(id)' = Waiting(id) \ {i}
  BY <1>2, <1>3, <1>5 DEF Waiting, Busy
<1>7. \A id, n : OnChain(id, n)' = OnChain(id, n) /\ LogsOf(id, n)' = LogsOf(id, n)
  <2>1. \A id, n : LogsOf(id, n)' = LogsOf(id, n)
    BY DEF LogsOf
  <2> QED
    BY <2>1 DEF OnChain, MovesOf, EndsOf
<1>8. ASSUME chain[i].kind # "created" => Fresh(own, i - 1),
             \A k \in i + 1 .. heard : chain[k].id # own
      PROVE  /\ pending' = [pending EXCEPT ![own] = OnChain(own, heard)]
             /\ OnChain(own, heard) # Unknown
  <2>1. pending' = [pending EXCEPT ![own] = OnChain(own, i)]
    BY <1>1, <1>3, <1>5, <1>8, Follows DEF Fresh
  <2>2. OnChain(own, i) = OnChain(own, heard)
    BY <1>2, <1>3, <1>8, Elsewhere
  <2>3. OnChain(own, heard) # Unknown
    BY <1>4, Listed
  <2> QED
    BY <2>1, <2>2, <2>3
<1>9. \A id \in Ticket : id # own => pending'[id] = pending[id]
  BY <1>2, <1>3, <1>5 DEF Applied
<1>10. \A id \in Ticket : id # own => i \notin Waiting(id)
  BY DEF Waiting
<1>11. \A id \in Ticket : pending'[id] # Unknown => LogsOf(id, Len(chain)) # {}
  <2>1. LogsOf(own, Len(chain)) # {}
    BY <1>3 DEF LogsOf
  <2> QED
    BY <1>1, <1>9, <2>1 DEF Mirror
<1>12. CASE mode = "watching"
  <2>1. SUFFICES ASSUME NEW id \in Ticket \ strayed PROVE Abreast(id)'
    BY <1>7, <1>11, <1>12 DEF Mirror, Unknown
  <2>2. Abreast(id)
    BY <1>1, <1>12 DEF Mirror
  <2>3. CASE id # own
    BY <1>6, <1>7, <1>9, <1>10, <2>2, <2>3 DEF Abreast, Fresh
  <2>4. CASE id = own
    <3>1. Fresh(own, i - 1) /\ \A k \in i + 1 .. heard : chain[k].id # own
      BY <1>4, <2>2, <2>4 DEF Abreast
    <3>2. \A j \in Waiting(own) : j = i
      <4>1. SUFFICES ASSUME NEW j \in Waiting(own), j # i PROVE FALSE
        OBVIOUS
      <4>2. j \in 1 .. heard /\ chain[j].id = own
        BY <1>1, Numbers DEF Waiting
      <4>3. \A k \in j + 1 .. heard : chain[k].id # own
        BY <2>2, <2>4 DEF Abreast
      <4> QED
        BY <1>2, <1>3, <3>1, <4>1, <4>2, <4>3
    <3>3. Waiting(own)' = {}
      BY <1>4, <1>6, <3>2
    <3>4. pending'[own] = OnChain(own, heard)
      BY <1>2, <1>4, <1>8, <3>1
    <3> QED
      BY <1>7, <2>4, <3>3, <3>4 DEF Abreast, Fresh
  <2> QED
    BY <2>3, <2>4
<1>13. CASE mode = "replaying"
  <2>1. strayed = Ticket /\ \A id \in Ticket : Replayed(id)
    BY <1>1, <1>13 DEF Mirror
  <2>2. i = heard
    BY <1>1, <1>3, <1>13 DEF IndexerTypes, Positions
  <2>3. chain[i].kind # "created" => Fresh(own, i - 1)
    <3>1. chain[i].kind # "created" => LogsOf(own, i - 1) # {}
      BY <1>1, <1>3 DEF ChainInv, Formed
    <3> QED
      BY <1>4, <2>1, <3>1 DEF Replayed
  <2>4. /\ pending' = [pending EXCEPT ![own] = OnChain(own, heard)]
        /\ OnChain(own, heard) # Unknown
    BY <1>2, <1>8, <2>2, <2>3
  <2>5. SUFFICES ASSUME NEW id \in Ticket PROVE Replayed(id)'
    BY <1>7, <1>11, <1>13, <2>1 DEF Mirror, Unknown
  <2>6. CASE id # own
    BY <1>6, <1>7, <1>9, <1>10, <2>1, <2>6 DEF Replayed, Fresh, Unknown
  <2>7. CASE id = own
    <3>1. \A j \in Waiting(own)' : j = i
      <4>1. \A j \in Waiting(own) : j = heard
        BY <1>1, <1>13 DEF IndexerTypes, Positions, Waiting
      <4> QED
        BY <1>6, <1>4, <2>2, <4>1
    <3>2. Waiting(own)' = {}
      BY <1>4, <1>6, <3>1
    <3>3. Fresh(own, heard)'
      BY <1>2, <1>4, <1>7, <2>4 DEF Fresh
    <3>4. LogsOf(own, upto)' # {}
      <4>1. heard <= upto
        BY <1>1, <1>13 DEF IndexerTypes, Positions
      <4>2. i \in LogsOf(own, upto)
        BY <1>2, <1>3, <4>1 DEF LogsOf
      <4> QED
        BY <1>7, <4>2
    <3> QED
      BY <2>7, <3>2, <3>3, <3>4 DEF Replayed
  <2> QED
    BY <2>6, <2>7
<1>14. CASE mode = "down"
  BY <1>7, <1>11, <1>14 DEF Mirror, Unknown
<1> QED
  BY <1>1, <1>12, <1>13, <1>14 DEF IndexerTypes, IndexerTypeOK

LEMMA MirrorStep == MirrorInv /\ [IndexerNext]_indexerVars => MirrorInv'
<1>. SUFFICES ASSUME MirrorInv, [IndexerNext]_indexerVars PROVE MirrorInv'
  OBVIOUS
<1>1. IndexerTypes /\ ChainInv /\ Mirror /\ ChainInv'
  BY ChainStep DEF MirrorInv, ChainInv
<1>2. /\ Len(chain) \in Nat /\ heard \in 0 .. Len(chain) /\ upto \in 0 .. Len(chain)
      /\ progress \in [1 .. MaxLogs -> Stages] /\ Len(chain) <= MaxLogs
      /\ \A i \in Busy : i \in 1 .. heard /\ chain[i] \in Log
      /\ pending \in [Ticket -> Entry] /\ strayed \subseteq Ticket
  BY <1>1, Numbers
<1>3. SUFFICES Mirror'
  BY <1>1 DEF MirrorInv
<1>4. chain' = chain => \A id, n : OnChain(id, n)' = OnChain(id, n) /\ LogsOf(id, n)' = LogsOf(id, n)
  <2>1. chain' = chain => \A id, n : LogsOf(id, n)' = LogsOf(id, n)
    BY DEF LogsOf
  <2> QED
    BY <2>1 DEF OnChain, MovesOf, EndsOf
<1>5. ASSUME UNCHANGED <<chain, mode, upto, heard, pending, strayed>>,
             \A id \in Ticket : Waiting(id)' = Waiting(id)
      PROVE  Mirror'
  BY <1>1, <1>2, <1>4, <1>5 DEF Mirror, Abreast, Replayed, Fresh, Unknown
<1>6. ASSUME NEW log \in Log, Emitted(log) PROVE Mirror'
  <2>1. /\ Len(chain') = Len(chain) + 1
        /\ \A i \in 1 .. Len(chain) : chain'[i] = chain[i]
        /\ UNCHANGED <<mode, upto, heard, pending, strayed, progress>>
    BY <1>1, <1>6, Appended DEF Emitted, IndexerTypes, IndexerTypeOK
  <2>2. \A id \in Ticket, n \in 0 .. Len(chain) :
          LogsOf(id, n)' = LogsOf(id, n) /\ OnChain(id, n)' = OnChain(id, n)
    BY <1>1, <1>6, Kept DEF ChainInv
  <2>3. \A id \in Ticket : Waiting(id)' = Waiting(id) /\ \A i \in Waiting(id) : i \in 1 .. heard
    BY <1>2, <2>1 DEF Waiting, Busy
  <2>4. \A id \in Ticket : pending'[id] # Unknown => LogsOf(id, Len(chain))' # {}
    <3>1. \A id \in Ticket : LogsOf(id, Len(chain)) \subseteq LogsOf(id, Len(chain))'
      BY <1>2, <2>1 DEF LogsOf
    <3> QED
      BY <1>1, <2>1, <3>1 DEF Mirror
  <2>5. ASSUME NEW id \in Ticket, Abreast(id) PROVE Abreast(id)'
    BY <1>2, <2>1, <2>2, <2>3, <2>5 DEF Abreast, Fresh
  <2>6. ASSUME NEW id \in Ticket, Replayed(id) PROVE Replayed(id)'
    BY <1>2, <2>1, <2>2, <2>3, <2>6 DEF Replayed, Fresh, Unknown
  <2> QED
    BY <1>1, <2>1, <2>4, <2>5, <2>6 DEF Mirror, Unknown
<1>7. ASSUME Boot PROVE Mirror'
  <2>1. Busy' = {} /\ Busy = {}
    BY <1>1, <1>7 DEF Boot, IndexerTypes, Positions, Busy
  <2>2. \A id : LogsOf(id, 0) = {}
    BY DEF LogsOf
  <2>3. \A id \in Ticket : Waiting(id)' = {}
    BY <2>1 DEF Waiting
  <2>4. /\ chain' = chain /\ pending' = pending /\ heard' = 0 /\ upto' = Len(chain)
        /\ mode' = "replaying" /\ strayed' = Ticket
    BY <1>7 DEF Boot
  <2>5. \A id \in Ticket : Replayed(id)'
    BY <1>1, <1>4, <2>2, <2>3, <2>4 DEF Mirror, Replayed, Unknown
  <2> QED
    BY <1>1, <1>4, <2>4, <2>5 DEF Mirror, Unknown
<1>8. ASSUME ReplayNext PROVE Mirror'
  <2>1. /\ heard' = heard + 1 /\ progress' = [progress EXCEPT ![heard + 1] = "time"]
        /\ Busy = {} /\ mode = "replaying" /\ heard < upto
        /\ UNCHANGED <<chain, mode, upto, pending, strayed>>
    BY <1>8 DEF ReplayNext
  <2>2. heard + 1 \in 1 .. MaxLogs
    BY <1>2, <2>1, IndexerAssumption
  <2>3. Busy' = {heard + 1}
    BY <1>2, <2>1, <2>2 DEF Busy
  <2>4. ASSUME NEW id \in Ticket PROVE Replayed(id)'
    <3>1. Replayed(id) /\ Waiting(id) = {}
      BY <1>1, <2>1 DEF Mirror, Waiting
    <3>2. CASE chain[heard + 1].id = id
      <4>1. Waiting(id)' = {heard + 1}
        BY <1>2, <2>1, <2>2, <2>3, <3>2 DEF Waiting
      <4> QED
        BY <1>2, <1>4, <2>1, <3>1, <4>1 DEF Replayed, Fresh, Unknown
    <3>3. CASE chain[heard + 1].id # id
      <4>1. Waiting(id)' = {}
        BY <2>1, <2>3, <3>3 DEF Waiting
      <4>2. LogsOf(id, heard) = LogsOf(id, heard + 1) /\ OnChain(id, heard) = OnChain(id, heard + 1)
        BY <1>2, <3>3, Elsewhere
      <4> QED
        BY <1>2, <1>4, <2>1, <3>1, <4>1, <4>2 DEF Replayed, Fresh, Unknown
    <3> QED
      BY <3>2, <3>3
  <2> QED
    BY <1>1, <1>4, <2>1, <2>4 DEF Mirror, Unknown
<1>9. ASSUME StartWatching PROVE Mirror'
  <2>1. /\ mode = "replaying" /\ mode' = "watching" /\ heard' = Len(chain) /\ Busy = {}
        /\ UNCHANGED <<chain, pending, progress>>
    BY <1>9 DEF StartWatching
  <2>2. \A id \in Ticket : Waiting(id) = {} /\ Waiting(id)' = {}
    BY <2>1 DEF Waiting, Busy
  <2>3. ASSUME NEW id \in Ticket \ strayed' PROVE Abreast(id)'
    <3>1. Replayed(id) /\ strayed = Ticket
      BY <1>1, <2>1 DEF Mirror
    <3>2. heard = upto /\ strayed' = {chain[i].id : i \in upto + 1 .. Len(chain)}
      BY <1>9, <2>3, <3>1 DEF StartWatching
    <3>3. \A k \in upto + 1 .. Len(chain) : chain[k].id # id
      BY <2>3, <3>2
    <3>4. LogsOf(id, upto) = LogsOf(id, Len(chain)) /\ OnChain(id, upto) = OnChain(id, Len(chain))
      BY <1>2, <3>3, Elsewhere
    <3>5. Fresh(id, upto)
      <4>1. CASE LogsOf(id, upto) = {}
        BY <3>1, <4>1 DEF Replayed, Fresh, OnChain
      <4>2. CASE LogsOf(id, upto) # {}
        BY <2>2, <3>1, <3>2, <4>2 DEF Replayed
      <4> QED
        BY <4>1, <4>2
    <3> QED
      BY <1>4, <2>1, <2>2, <3>4, <3>5 DEF Abreast, Fresh
  <2> QED
    BY <1>1, <1>4, <2>1, <2>3 DEF Mirror, Unknown
<1>10. ASSUME NEW n \in 1 .. MaxLogs, Hear(n) PROVE Mirror'
  <2>. DEFINE new == heard + 1 .. n
  <2>1. /\ n \in heard + 1 .. Len(chain) /\ heard' = n /\ mode = "watching"
        /\ progress' = [i \in DOMAIN progress |-> IF i \in new THEN "time" ELSE progress[i]]
        /\ strayed' = strayed \cup
             {chain[i].id : i \in {j \in new : \E k \in 1 .. j - 1 :
                progress'[k] \in {"time", "read"} /\ chain[k].id = chain[j].id}}
        /\ UNCHANGED <<chain, mode, upto, pending>>
    BY <1>10 DEF Hear
  <2>2. \A i \in 1 .. MaxLogs : progress'[i] = IF i \in new THEN "time" ELSE progress[i]
    BY <1>2, <2>1
  <2>3. ASSUME NEW id \in Ticket \ strayed' PROVE Abreast(id)'
    <3>1. Abreast(id)
      BY <1>1, <2>1, <2>3 DEF Mirror
    <3>2. ASSUME NEW j \in new, chain[j].id = id, NEW k \in 1 .. j - 1,
                 progress'[k] \in {"time", "read"}
          PROVE  chain[k].id # id
      BY <2>1, <2>3, <3>2
    <3>3. \A i : i \in Waiting(id)' <=> i \in Waiting(id) \/ (i \in new /\ chain[i].id = id)
      <4>1. new \subseteq 1 .. MaxLogs /\ \A i \in new : i > heard
        BY <1>2, <2>1, IndexerAssumption
      <4>2. DOMAIN progress = 1 .. MaxLogs /\ DOMAIN progress' = 1 .. MaxLogs
        BY <1>2, <2>1
      <4>3. \A i \in new : i \notin Busy
        BY <1>2, <4>1
      <4> QED
        BY <2>1, <2>2, <4>1, <4>2, <4>3 DEF Waiting, Busy
    <3>4. CASE \E j \in new : chain[j].id = id
      <4>1. PICK j \in new : chain[j].id = id
        BY <3>4
      <4>2. \A k \in new : chain[k].id = id => k = j
        <5>1. ASSUME NEW a \in new, NEW b \in new, chain[a].id = id, chain[b].id = id, a < b PROVE FALSE
          <6>1. a \in 1 .. b - 1 /\ a \in 1 .. MaxLogs
            BY <1>2, <2>1, <5>1, IndexerAssumption
          <6>2. progress'[a] = "time"
            BY <2>2, <6>1
          <6> QED
            BY <3>2, <5>1, <6>1, <6>2
        <5>2. \A k \in new : k \in Nat
          BY <1>2, <2>1
        <5>3. \A k \in new : k < j \/ k = j \/ j < k
          BY <4>1, <5>2
        <5> QED
          BY <4>1, <5>1, <5>3
      <4>3. Waiting(id) = {}
        <5>1. SUFFICES ASSUME NEW i \in Waiting(id) PROVE FALSE
          OBVIOUS
        <5>2. i \in 1 .. heard /\ progress[i] \in {"time", "read"} /\ chain[i].id = id /\ i \in 1 .. MaxLogs
          BY <1>2 DEF Waiting, Busy, Stages
        <5> QED
          BY <1>2, <2>1, <2>2, <3>2, <4>1, <5>2
      <4>4. Fresh(id, heard)
        BY <3>1, <4>3 DEF Abreast
      <4>5. j \in Nat /\ heard <= j - 1 /\ j - 1 \in Nat /\ j <= n /\ heard \in Nat /\ n \in Nat
        BY <1>2, <2>1, <4>1
      <4>6. \A k \in heard + 1 .. j - 1 : chain[k].id # id
        BY <4>2, <4>5
      <4>7. Fresh(id, j - 1)
        BY <4>4, <4>5, <4>6, Elsewhere DEF Fresh
      <4>8. \A k \in j + 1 .. n : chain[k].id # id
        BY <4>2, <4>5
      <4>9. Waiting(id)' = {j}
        BY <3>3, <4>1, <4>2, <4>3
      <4> QED
        BY <1>4, <2>1, <4>7, <4>8, <4>9 DEF Abreast, Fresh
    <3>5. CASE \A j \in new : chain[j].id # id
      <4>1. Waiting(id)' = Waiting(id)
        BY <3>3, <3>5
      <4>2. OnChain(id, heard) = OnChain(id, n)
        BY <1>2, <2>1, <3>5, Elsewhere
      <4>3. \A i \in Waiting(id) : i \in 1 .. heard
        BY <1>2 DEF Waiting
      <4>4. \A i \in Waiting(id) : \A k \in i + 1 .. n : chain[k].id # id
        BY <1>2, <2>1, <3>1, <3>5, <4>3 DEF Abreast
      <4> QED
        BY <1>4, <2>1, <3>1, <4>1, <4>2, <4>4 DEF Abreast, Fresh
    <3> QED
      BY <3>4, <3>5
  <2> QED
    BY <1>1, <1>4, <2>1, <2>3 DEF Mirror, Unknown
<1>11. ASSUME NEW i \in 1 .. MaxLogs, TakeTime(i) \/ Upsert(i) PROVE Mirror'
  <2>1. CASE TakeTime(i) /\ chain[i].kind = "created"
    <3>1. progress' = [progress EXCEPT ![i] = "read"] /\ progress[i] = "time"
          /\ UNCHANGED <<chain, mode, upto, heard, pending, strayed>>
      BY <2>1 DEF TakeTime
    <3>2. \A id \in Ticket : Waiting(id)' = Waiting(id)
      BY <1>2, <3>1 DEF Waiting, Busy
    <3> QED
      BY <1>5, <3>1, <3>2
  <2>2. CASE ~(TakeTime(i) /\ chain[i].kind = "created")
    <3>1. Stores(i) /\ progress[i] \in {"time", "read"} /\ UNCHANGED <<chain, mode, upto, heard, strayed>>
      BY <1>11, <2>2 DEF TakeTime, Upsert
    <3> QED
      BY <3>1, StoreKeepsMirror
  <2> QED
    BY <2>1, <2>2
<1>12. ASSUME NEW i \in 1 .. MaxLogs, WriteSink(i) PROVE Mirror'
  <2>1. progress' = [progress EXCEPT ![i] = "none"] /\ progress[i] = "sink"
        /\ UNCHANGED <<chain, mode, upto, heard, pending, strayed>>
    BY <1>12 DEF WriteSink
  <2>2. \A id \in Ticket : Waiting(id)' = Waiting(id)
    BY <1>2, <2>1 DEF Waiting, Busy
  <2> QED
    BY <1>5, <2>1, <2>2
<1>13. ASSUME Stop PROVE Mirror'
  BY <1>1, <1>4, <1>13 DEF Stop, Mirror, Unknown
<1>14. ASSUME UNCHANGED indexerVars PROVE Mirror'
  <2>1. \A id \in Ticket : Waiting(id)' = Waiting(id)
    BY <1>14 DEF indexerVars, Waiting, Busy
  <2> QED
    BY <1>5, <1>14, <2>1 DEF indexerVars
<1> QED
  BY <1>6, <1>7, <1>8, <1>9, <1>10, <1>11, <1>12, <1>13, <1>14 DEF IndexerNext

\* While it watches, what the store says of an intent is what the logs that
\* were handed over say, but for intents whose logs overtook each other or fell
\* between a replay and the subscription.
THEOREM StoreMirrorsChain == IndexerSpec => []MirrorsChain
<1>1. MirrorInv => MirrorsChain
  BY DEF MirrorInv, Mirror, Abreast, MirrorsChain, Waiting, Fresh
<1> QED
  BY <1>1, MirrorStart, MirrorStep, PTL DEF IndexerSpec

-----------------------------------------------------------------------------
(* The job queue.                                                          *)
\* What a step does to the jobs: work on one, or nothing, ...
Worked(what) == /\ jobs' \in Seq(JobAbout(what))
                /\ DOMAIN jobs' = DOMAIN jobs
                /\ \A i \in DOMAIN jobs : jobs'[i].work = jobs[i].work

\* ... or add a job at its end.
Grown(what, k) == /\ jobs' \in Seq(JobAbout(what))
                  /\ DOMAIN jobs' = 1 .. Len(jobs) + 1 /\ DOMAIN jobs = 1 .. Len(jobs)
                  /\ \A i \in DOMAIN jobs : jobs'[i] = jobs[i]
                  /\ jobs'[Len(jobs) + 1].work = k

LEMMA JobChanged ==
  ASSUME NEW what, jobs \in Seq(JobAbout(what)), NEW i \in DOMAIN jobs,
         NEW job \in JobAbout(what), job.work = jobs[i].work, jobs' = [jobs EXCEPT ![i] = job]
  PROVE  Worked(what)
<1>1. DOMAIN jobs = 1 .. Len(jobs)
  OBVIOUS
<1>2. jobs' \in Seq(JobAbout(what)) /\ DOMAIN jobs' = DOMAIN jobs
  BY <1>1, ExceptSeq
<1> QED
  BY <1>1, <1>2 DEF Worked

\* Whatever the queue does with a job it has.
LEMMA HandingIsWork ==
  ASSUME NEW what, jobs \in Seq(JobAbout(what)), NEW i \in DOMAIN jobs,
         \/ jobs' = Taken(i) \/ jobs' = Finished(i) \/ jobs' = Unfinished(i) \/ jobs' = jobs
  PROVE  Worked(what)
<1> DEFINE Change(state, tries) == [jobs[i] EXCEPT !.state = state, !.tries = tries]
<1>1. DOMAIN jobs = 1 .. Len(jobs) /\ jobs[i] \in JobAbout(what)
  BY ElementOfSeq
<1>2. ASSUME NEW state \in {"queued", "active", "completed", "failed"}, NEW tries \in Nat,
             jobs' = [jobs EXCEPT ![i] = Change(state, tries)]
      PROVE  Worked(what)
  <2>1. Change(state, tries) \in JobAbout(what) /\ Change(state, tries).work = jobs[i].work
    BY <1>1 DEF JobAbout
  <2> QED
    BY <1>2, <2>1, JobChanged
<1>3. CASE jobs' = Taken(i)
  <2>1. jobs' = [jobs EXCEPT ![i] = Change("active", jobs[i].tries + 1)]
    BY <1>1, <1>3 DEF Taken
  <2>2. jobs[i].tries + 1 \in Nat
    BY <1>1 DEF JobAbout
  <2> QED
    BY <1>2, <2>1, <2>2
<1>4. CASE jobs' = jobs
  BY <1>1, <1>4 DEF Worked
<1>5. CASE jobs' = Finished(i) /\ jobs' # jobs
  <2>1. jobs' = [jobs EXCEPT ![i] = Change("completed", jobs[i].tries)]
    BY <1>1, <1>5 DEF Finished, JobAbout
  <2>2. jobs[i].tries \in Nat
    BY <1>1 DEF JobAbout
  <2> QED
    BY <1>2, <2>1, <2>2
<1>6. CASE jobs' = Unfinished(i)
  <2> DEFINE state == IF jobs[i].tries < MaxTries THEN "queued" ELSE "failed"
  <2>1. jobs' = [jobs EXCEPT ![i] = Change(state, jobs[i].tries)]
    BY <1>1, <1>6 DEF Unfinished, JobAbout
  <2>2. jobs[i].tries \in Nat /\ state \in {"queued", "failed"}
    BY <1>1 DEF JobAbout
  <2> QED
    BY <1>2, <2>1, <2>2
<1> QED
  BY <1>3, <1>4, <1>5, <1>6

LEMMA SendingGrows ==
  ASSUME NEW what, jobs \in Seq(JobAbout(what)), NEW k \in what, jobs' = Sent(k)
  PROVE  Grown(what, k)
<1> DEFINE job == [work |-> k, state |-> "queued", tries |-> 0]
<1>1. job \in JobAbout(what)
  BY DEF JobAbout
<1>2. jobs' = Append(jobs, job)
  BY DEF Sent
<1>3. /\ jobs' \in Seq(JobAbout(what)) /\ Len(jobs') = Len(jobs) + 1
      /\ \A i \in 1 .. Len(jobs) : jobs'[i] = jobs[i]
      /\ jobs'[Len(jobs) + 1] = job
  BY <1>1, <1>2, AppendProperties
<1> QED
  BY <1>2, <1>3 DEF Grown

-----------------------------------------------------------------------------
(* Webhook deliveries.                                                     *)
IsJobOf(i, k) == i \in DOMAIN jobs /\ jobs[i].work = k

\* Who accepts holds a key that is claimed, and no job exists for it yet; a
\* job that exists, and one that is worked on, is for a claimed key.
ClaimsAreJobs ==
  /\ \A p \in Replica : accepting[p].pc # "idle" => accepting[p].key \in Key
  /\ \A p \in Replica : accepting[p].pc \in {"enqueue", "unqueued"} =>
       delivery[accepting[p].key] # "none"
  /\ \A p \in Replica : accepting[p].pc = "enqueue" =>
       \A i \in DOMAIN jobs : jobs[i].work # accepting[p].key
  /\ \A p, r \in Replica :
       accepting[p].pc = "enqueue" /\ accepting[r].pc = "enqueue"
       /\ accepting[p].key = accepting[r].key => p = r
  /\ \A i \in DOMAIN jobs : delivery[jobs[i].work] # "none"
  /\ \A p \in Replica : delivering[p].pc # "idle" => delivering[p].job \in DOMAIN jobs

HookInv == WebhooksTypeOK /\ ClaimsAreJobs /\ OneJobPerDelivery /\ DuplicatesAreQueued

LEMMA HookStart ==
  ASSUME WebhooksInit
  PROVE  HookInv
<1> USE MaxTriesAssumption, PostsAssumption DEF WebhooksInit
<1>1. WebhooksTypeOK
  BY DEF WebhooksTypeOK, NoPost, NoWork
<1>2. ClaimsAreJobs
  BY DEF ClaimsAreJobs, NoPost, NoWork
<1>3. OneJobPerDelivery /\ DuplicatesAreQueued
  BY DEF OneJobPerDelivery, DuplicatesAreQueued
<1> QED
  BY <1>1, <1>2, <1>3 DEF HookInv

LEMMA JobsAreOfKeys ==
  ASSUME WebhooksTypeOK
  PROVE  /\ Len(jobs) \in Nat /\ DOMAIN jobs = 1 .. Len(jobs)
         /\ \A i \in DOMAIN jobs : jobs[i].work \in Key
<1>1. jobs \in Seq(JobAbout(Key)) /\ Len(jobs) \in Nat /\ DOMAIN jobs = 1 .. Len(jobs)
  BY DEF WebhooksTypeOK
<1>2. \A i \in 1 .. Len(jobs) : jobs[i] \in JobAbout(Key)
  BY <1>1, ElementOfSeq
<1> QED
  BY <1>1, <1>2 DEF JobAbout

\* What a step does to the books when it sends nothing: a claim that comes or
\* goes is accounted for, and whoever is about to queue was already, or claims.
LEMMA QuietStep ==
  ASSUME HookInv, WebhooksTypeOK', Worked(Key), lost \subseteq lost',
         \A p \in Replica : accepting'[p].pc # "idle" => accepting'[p].key \in Key,
         \A p \in Replica : accepting'[p].pc = "enqueue" => accepting'[p] = accepting[p],
         \A p \in Replica : accepting'[p].pc = "unqueued" =>
           /\ accepting'[p].key = accepting[p].key
           /\ accepting[p].pc \in {"enqueue", "unqueued"},
         \A p \in Replica : accepting[p].pc = "enqueue" =>
           accepting'[p] = accepting[p] \/ accepting[p].key \in lost',
         \A k \in Key : delivery[k] # "none" => delivery'[k] # "none",
         \A k \in Key : delivery'[k] # "none" /\ delivery[k] = "none" => k \in lost',
         \A p \in Replica : delivering'[p].pc # "idle" => delivering'[p].job \in DOMAIN jobs
  PROVE  HookInv'
<1> USE DEF HookInv, Worked
<1>0. \A i \in DOMAIN jobs : jobs[i].work \in Key
  BY JobsAreOfKeys
<1>1. ClaimsAreJobs'
  BY <1>0 DEF ClaimsAreJobs
<1>2. OneJobPerDelivery'
  BY DEF OneJobPerDelivery
<1>3. DuplicatesAreQueued'
  <2> SUFFICES ASSUME NEW k \in Key, delivery'[k] # "none", k \notin lost'
               PROVE  \/ \E i \in DOMAIN jobs' : jobs'[i].work = k
                      \/ \E p \in Replica : accepting'[p] = [pc |-> "enqueue", key |-> k]
    BY DEF DuplicatesAreQueued
  <2>1. delivery[k] # "none" /\ k \notin lost
    OBVIOUS
  <2>2. CASE \E i \in DOMAIN jobs : jobs[i].work = k
    BY <2>2
  <2>3. CASE \E p \in Replica : accepting[p] = [pc |-> "enqueue", key |-> k]
    BY <2>3
  <2> QED
    BY <2>1, <2>2, <2>3 DEF DuplicatesAreQueued
<1> QED
  BY <1>1, <1>2, <1>3

\* A step that sends the job of the key it holds.
LEMMA SendingStep ==
  ASSUME HookInv, WebhooksTypeOK', NEW p \in Replica, accepting[p].pc = "enqueue",
         Grown(Key, accepting[p].key),
         UNCHANGED <<delivery, delivering, lost>>,
         NEW new, new.pc # "enqueue", new.pc # "idle" => new.key = accepting[p].key,
         accepting' = [accepting EXCEPT ![p] = new]
  PROVE  HookInv'
<1> USE DEF HookInv, Grown
<1> DEFINE k == accepting[p].key
           n == Len(jobs)
<1>0. /\ k \in Key /\ delivery[k] # "none" /\ n \in Nat
      /\ \A i \in DOMAIN jobs : jobs[i].work \in Key /\ jobs[i].work # k
  <2>1. n \in Nat /\ \A i \in DOMAIN jobs : jobs[i].work \in Key
    BY JobsAreOfKeys
  <2> QED
    BY <2>1 DEF ClaimsAreJobs
<1>1. \A r \in Replica : accepting'[r] = IF r = p THEN new ELSE accepting[r]
  BY DEF WebhooksTypeOK
<1>2. \A i \in DOMAIN jobs' : jobs'[i].work = IF i = n + 1 THEN k ELSE jobs[i].work
  BY <1>0
<1>3. ClaimsAreJobs'
  BY <1>0, <1>1, <1>2 DEF ClaimsAreJobs
<1>4. OneJobPerDelivery'
  BY <1>0, <1>2 DEF OneJobPerDelivery
<1>5. DuplicatesAreQueued'
  <2> SUFFICES ASSUME NEW j \in Key, delivery[j] # "none", j \notin lost
               PROVE  \/ \E i \in DOMAIN jobs' : jobs'[i].work = j
                      \/ \E r \in Replica : accepting'[r] = [pc |-> "enqueue", key |-> j]
    BY DEF DuplicatesAreQueued
  <2>1. CASE j = k
    BY <1>0, <1>2, <2>1
  <2>2. CASE j # k /\ \E i \in DOMAIN jobs : jobs[i].work = j
    BY <1>0, <1>2, <2>2
  <2>3. CASE j # k /\ \E r \in Replica : accepting[r] = [pc |-> "enqueue", key |-> j]
    BY <1>1, <2>3
  <2> QED
    BY <2>1, <2>2, <2>3 DEF DuplicatesAreQueued
<1> QED
  BY <1>3, <1>4, <1>5

\* The claim of a delivery that nobody claimed before.
LEMMA ClaimingStep ==
  ASSUME HookInv, NEW p \in Replica, ClaimDelivery(p), delivery[accepting[p].key] = "none"
  PROVE  HookInv'
<1> USE DEF HookInv
<1> DEFINE k == accepting[p].key
<1>0. /\ k \in Key /\ accepting[p].pc = "claim" /\ jobs' = jobs
      /\ delivery' = [delivery EXCEPT ![k] = "accepted"]
      /\ accepting' = [accepting EXCEPT ![p].pc = "enqueue"]
      /\ UNCHANGED <<posts, delivering, lost, unrecorded, replicaCrashes>>
  BY DEF ClaimsAreJobs, ClaimDelivery, Accepts
<1>1. WebhooksTypeOK'
  BY <1>0 DEF WebhooksTypeOK
<1>2. /\ \A r \in Replica : accepting'[r] = IF r = p THEN [pc |-> "enqueue", key |-> k]
                                            ELSE accepting[r]
      /\ \A j \in Key : delivery'[j] = IF j = k THEN "accepted" ELSE delivery[j]
  BY <1>0 DEF WebhooksTypeOK
<1>3. ClaimsAreJobs'
  BY <1>0, <1>2, JobsAreOfKeys DEF ClaimsAreJobs
<1>4. OneJobPerDelivery'
  BY <1>0 DEF OneJobPerDelivery
<1>5. DuplicatesAreQueued'
  <2> SUFFICES ASSUME NEW j \in Key, delivery'[j] # "none", j \notin lost
               PROVE  \/ \E i \in DOMAIN jobs : jobs[i].work = j
                      \/ \E r \in Replica : accepting'[r] = [pc |-> "enqueue", key |-> j]
    BY <1>0 DEF DuplicatesAreQueued
  <2>1. CASE j = k
    BY <1>2, <2>1
  <2>2. CASE j # k /\ \E r \in Replica : accepting[r] = [pc |-> "enqueue", key |-> j]
    BY <1>0, <1>2, <2>2
  <2> QED
    BY <1>2, <2>1, <2>2 DEF DuplicatesAreQueued
<1> QED
  BY <1>1, <1>3, <1>4, <1>5

\* The steps of a request.
LEMMA AcceptKeeps ==
  ASSUME HookInv, NEW p \in Replica, Accept(p) \/ \E k \in Key : Post(p, k)
  PROVE  HookInv'
<1> USE DEF HookInv
<1>0. /\ accepting \in [Replica -> [pc : {"idle", "claim", "enqueue", "unqueued"},
                                    key : Key \cup {"none"}]]
      /\ delivery \in [Key -> {"none", "accepted", "run_started", "run_failed"}]
      /\ jobs \in Seq(JobAbout(Key)) /\ DOMAIN jobs = 1 .. Len(jobs)
      /\ accepting[p].pc # "idle" => accepting[p].key \in Key
      /\ accepting[p].pc \in {"enqueue", "unqueued"} => delivery[accepting[p].key] # "none"
  BY JobsAreOfKeys DEF WebhooksTypeOK, ClaimsAreJobs
<1>w. jobs' = jobs => Worked(Key)
  BY DEF Worked, WebhooksTypeOK
<1>1. CASE \E k \in Key : Post(p, k)
  <2> PICK k \in Key : Post(p, k)
    BY <1>1
  <2>0. posts' \in [Key -> 0 .. MaxPosts]
    <3>1. posts[k] + 1 \in 0 .. MaxPosts
      BY PostsAssumption DEF WebhooksTypeOK, Post
    <3> QED
      BY <3>1 DEF WebhooksTypeOK, Post
  <2>1. WebhooksTypeOK'
    <3>1. [pc |-> "claim", key |-> k] \in [pc : {"idle", "claim", "enqueue", "unqueued"},
                                          key : Key \cup {"none"}]
      OBVIOUS
    <3>2. accepting' \in [Replica -> [pc : {"idle", "claim", "enqueue", "unqueued"},
                                     key : Key \cup {"none"}]]
      BY <1>0, <3>1 DEF Post
    <3> QED
      BY <2>0, <3>2 DEF WebhooksTypeOK, Post
  <2>2. \A r \in Replica : r # p => accepting'[r] = accepting[r]
    BY <1>0 DEF Post
  <2>3. \/ accepting'[p] = accepting[p]
        \/ accepting[p] = NoPost /\ accepting'[p] = [pc |-> "claim", key |-> k]
    BY <1>0 DEF Post
  <2> QED
    BY <1>0, <1>w, <2>1, <2>2, <2>3, QuietStep DEF Post, ClaimsAreJobs, NoPost
<1>2. CASE ClaimDelivery(p)
  <2>1. CASE delivery[accepting[p].key] = "none"
    BY <1>2, <2>1, ClaimingStep
  <2>2. CASE delivery[accepting[p].key] # "none"
    <3>1. /\ jobs' = jobs /\ accepting' = [accepting EXCEPT ![p] = NoPost]
          /\ UNCHANGED <<delivery, posts, delivering, lost, unrecorded, replicaCrashes>>
      BY <1>2, <2>2 DEF ClaimDelivery, Answers
    <3>2. WebhooksTypeOK'
      BY <3>1 DEF WebhooksTypeOK, NoPost
    <3>3. \A r \in Replica : accepting'[r] = IF r = p THEN NoPost ELSE accepting[r]
      BY <1>0, <3>1
    <3> QED
      BY <1>0, <1>2, <1>w, <3>1, <3>2, <3>3, QuietStep DEF ClaimsAreJobs, NoPost, ClaimDelivery
  <2> QED
    BY <2>1, <2>2
<1>3. CASE ClaimFails(p)
  <2>1. WebhooksTypeOK'
    BY <1>0, <1>3 DEF WebhooksTypeOK, ClaimFails, Answers, NoPost
  <2>2. \A r \in Replica : accepting'[r] = IF r = p THEN NoPost ELSE accepting[r]
    BY <1>0, <1>3 DEF ClaimFails, Answers
  <2>3. \A k \in Key : delivery'[k] # delivery[k] =>
          delivery[k] = "none" /\ delivery'[k] # "none" /\ k \in lost'
    BY <1>0, <1>3 DEF ClaimFails
  <2>4. Worked(Key) /\ lost \subseteq lost' /\ delivering' = delivering
    BY <1>3, <1>w DEF ClaimFails
  <2>5. \A k \in Key : delivery[k] # "none" => delivery'[k] # "none"
    BY <2>3
  <2>6. /\ accepting[p].pc = "claim" /\ NoPost.pc = "idle"
        /\ \A r \in Replica : delivering[r].pc # "idle" => delivering[r].job \in DOMAIN jobs
        /\ \A r \in Replica : accepting[r].pc # "idle" => accepting[r].key \in Key
    BY <1>3 DEF ClaimsAreJobs, NoPost, ClaimFails
  <2> QED
    BY <1>0, <2>1, <2>2, <2>3, <2>4, <2>5, <2>6, QuietStep
<1>4. CASE Enqueue(p)
  <2>1. Grown(Key, accepting[p].key) /\ accepting' = [accepting EXCEPT ![p] = NoPost]
    <3>1. accepting[p].key \in Key /\ jobs' = Sent(accepting[p].key)
      BY <1>0, <1>4 DEF Enqueue
    <3>2. Grown(Key, accepting[p].key)
      BY <1>0, <3>1, SendingGrows
    <3> QED
      BY <1>4, <3>2 DEF Enqueue, Answers
  <2>2. WebhooksTypeOK'
    BY <1>4, <2>1 DEF WebhooksTypeOK, Enqueue, NoPost, Grown
  <2> QED
    BY <1>4, <2>1, <2>2, SendingStep DEF Enqueue, NoPost
<1>5. CASE EnqueueFails(p)
  <2> DEFINE new == [pc |-> "unqueued", key |-> accepting[p].key]
  <2>1. accepting' = [accepting EXCEPT ![p] = new]
    <3>1. [accepting[p] EXCEPT !.pc = "unqueued"] = new
      BY <1>0
    <3> QED
      BY <1>5, <3>1 DEF EnqueueFails, Accepts
  <2>2. CASE jobs' = Sent(accepting[p].key) /\ UNCHANGED lost
    <3>1. Grown(Key, accepting[p].key)
      BY <1>0, <1>5, <2>2, SendingGrows DEF EnqueueFails
    <3>2. WebhooksTypeOK'
      BY <1>0, <1>5, <2>1, <2>2, <3>1 DEF WebhooksTypeOK, EnqueueFails, Grown
    <3> QED
      BY <1>5, <2>1, <2>2, <3>1, <3>2, SendingStep DEF EnqueueFails
  <2>3. CASE lost' = lost \cup {accepting[p].key} /\ jobs' = jobs
    <3>1. WebhooksTypeOK'
      BY <1>0, <1>5, <2>1, <2>3 DEF WebhooksTypeOK, EnqueueFails
    <3>2. \A r \in Replica : accepting'[r] = IF r = p THEN new ELSE accepting[r]
      BY <1>0, <2>1
    <3> QED
      BY <1>0, <1>5, <1>w, <2>3, <3>1, <3>2, QuietStep DEF ClaimsAreJobs, EnqueueFails
  <2> QED
    BY <1>5, <2>2, <2>3 DEF EnqueueFails
<1>6. CASE SettleUnqueued(p)
  <2>1. WebhooksTypeOK'
    BY <1>0, <1>6 DEF WebhooksTypeOK, SettleUnqueued, Outcome, Answers, NoPost
  <2>2. \A r \in Replica : accepting'[r] = IF r = p THEN NoPost ELSE accepting[r]
    BY <1>0, <1>6 DEF SettleUnqueued, Answers
  <2>3. \A k \in Key : /\ delivery[k] # "none" => delivery'[k] # "none"
                       /\ delivery[k] = "none" => delivery'[k] = "none"
    BY <1>0, <1>6 DEF SettleUnqueued, Outcome
  <2> QED
    BY <1>0, <1>6, <1>w, <2>1, <2>2, <2>3, QuietStep DEF ClaimsAreJobs, NoPost, SettleUnqueued
<1> QED
  BY <1>1, <1>2, <1>3, <1>4, <1>5, <1>6 DEF Accept

\* The steps of a worker and of the queue.
LEMMA WorkKeeps ==
  ASSUME HookInv,
         \/ \E p \in Replica : \/ WorkDelivery(p) \/ ResolveFails(p) \/ ReplicaCrash(p)
                               \/ \E i \in DOMAIN jobs : TakeDelivery(p, i)
         \/ \E i \in DOMAIN jobs : HandedOutAgain(i)
  PROVE  HookInv'
<1> USE DEF HookInv
<1>0. /\ delivering \in [Replica -> [pc : {"idle", "resolve", "run", "started", "failed"},
                                     job : Nat]]
      /\ accepting \in [Replica -> [pc : {"idle", "claim", "enqueue", "unqueued"},
                                    key : Key \cup {"none"}]]
      /\ delivery \in [Key -> {"none", "accepted", "run_started", "run_failed"}]
      /\ jobs \in Seq(JobAbout(Key)) /\ DOMAIN jobs = 1 .. Len(jobs)
      /\ \A i \in DOMAIN jobs : jobs[i].work \in Key /\ delivery[jobs[i].work] # "none"
      /\ \A p \in Replica : delivering[p].pc # "idle" => delivering[p].job \in DOMAIN jobs
      /\ \A p \in Replica : accepting[p].pc # "idle" => accepting[p].key \in Key
  BY JobsAreOfKeys DEF WebhooksTypeOK, ClaimsAreJobs
<1>w. jobs' = jobs => Worked(Key)
  BY DEF Worked, WebhooksTypeOK
<1>1. ASSUME Worked(Key), UNCHANGED <<delivery, accepting, lost, unrecorded, posts, replicaCrashes>>,
             NEW p \in Replica,
             NEW new \in [pc : {"idle", "resolve", "run", "started", "failed"}, job : Nat],
             new.pc # "idle" => new.job \in DOMAIN jobs,
             delivering' = [delivering EXCEPT ![p] = new]
      PROVE  HookInv'
  <2>1. WebhooksTypeOK'
    BY <1>1 DEF WebhooksTypeOK, Worked
  <2>2. \A r \in Replica : delivering'[r] = IF r = p THEN new ELSE delivering[r]
    BY <1>0, <1>1
  <2> QED
    BY <1>0, <1>1, <2>1, <2>2, QuietStep DEF ClaimsAreJobs
<1>2. ASSUME NEW p \in Replica, Resolve(p) PROVE HookInv'
  <2>1. PICK pc \in {"run", "failed"} : delivering' = [delivering EXCEPT ![p].pc = pc]
    BY <1>2 DEF Resolve, Delivers
  <2> DEFINE new == [pc |-> pc, job |-> delivering[p].job]
  <2>2. delivering' = [delivering EXCEPT ![p] = new]
    <3>1. [delivering[p] EXCEPT !.pc = pc] = new
      BY <1>0
    <3> QED
      BY <2>1, <3>1
  <2> QED
    BY <1>0, <1>1, <1>2, <1>w, <2>2 DEF Resolve
<1>3. ASSUME NEW p \in Replica, RunFlow(p) PROVE HookInv'
  <2>1. PICK pc \in {"started", "failed"} : delivering' = [delivering EXCEPT ![p].pc = pc]
    BY <1>3 DEF RunFlow, Delivers
  <2> DEFINE new == [pc |-> pc, job |-> delivering[p].job]
  <2>2. delivering' = [delivering EXCEPT ![p] = new]
    <3>1. [delivering[p] EXCEPT !.pc = pc] = new
      BY <1>0
    <3> QED
      BY <2>1, <3>1
  <2> QED
    BY <1>0, <1>1, <1>3, <1>w, <2>2 DEF RunFlow
<1>4. ASSUME NEW p \in Replica, SettleDelivery(p) PROVE HookInv'
  <2>1. Worked(Key)
    BY <1>0, <1>4, HandingIsWork DEF SettleDelivery
  <2>2. WebhooksTypeOK'
    <3>1. KeyOf(p) \in Key
      BY <1>0, <1>4 DEF SettleDelivery, KeyOf
    <3>2. delivery' \in [Key -> {"none", "accepted", "run_started", "run_failed"}]
          /\ unrecorded' \subseteq Key
      BY <1>0, <1>4, <3>1 DEF WebhooksTypeOK, SettleDelivery, Outcome
    <3>3. delivering' \in [Replica -> [pc : {"idle", "resolve", "run", "started", "failed"},
                                       job : Nat]]
      BY <1>0, <1>4 DEF SettleDelivery, NoWork
    <3> QED
      BY <1>4, <2>1, <3>2, <3>3 DEF WebhooksTypeOK, SettleDelivery, Worked
  <2>3. \A k \in Key : /\ delivery[k] # "none" => delivery'[k] # "none"
                       /\ delivery[k] = "none" => delivery'[k] = "none"
    BY <1>0, <1>4 DEF SettleDelivery, Outcome, KeyOf
  <2>4. \A r \in Replica : delivering'[r] = IF r = p THEN NoWork ELSE delivering[r]
    BY <1>0, <1>4 DEF SettleDelivery
  <2> QED
    BY <1>0, <1>4, <2>1, <2>2, <2>3, <2>4, QuietStep DEF ClaimsAreJobs, NoWork, SettleDelivery
<1>5. ASSUME NEW p \in Replica, ResolveFails(p) PROVE HookInv'
  <2>1. Worked(Key)
    BY <1>0, <1>5, HandingIsWork DEF ResolveFails
  <2> QED
    BY <1>0, <1>1, <1>5, <2>1 DEF ResolveFails, NoWork
<1>6. ASSUME NEW p \in Replica, NEW i \in DOMAIN jobs, TakeDelivery(p, i) PROVE HookInv'
  <2>1. Worked(Key)
    BY <1>0, <1>6, HandingIsWork DEF TakeDelivery
  <2> QED
    <3>1. [pc |-> "resolve", job |-> i]
            \in [pc : {"idle", "resolve", "run", "started", "failed"}, job : Nat]
      BY <1>0
    <3> QED
      BY <1>0, <1>1, <1>6, <2>1, <3>1 DEF TakeDelivery
<1>7. ASSUME NEW p \in Replica, ReplicaCrash(p) PROVE HookInv'
  <2>1. WebhooksTypeOK'
    BY <1>0, <1>7, PostsAssumption DEF WebhooksTypeOK, ReplicaCrash, NoPost, NoWork
  <2>2. /\ \A r \in Replica : accepting'[r] = IF r = p THEN NoPost ELSE accepting[r]
        /\ \A r \in Replica : delivering'[r] = IF r = p THEN NoWork ELSE delivering[r]
    BY <1>0, <1>7 DEF ReplicaCrash
  <2> QED
    BY <1>0, <1>7, <1>w, <2>1, <2>2, QuietStep DEF ClaimsAreJobs, ReplicaCrash, NoPost, NoWork
<1>8. ASSUME NEW i \in DOMAIN jobs, HandedOutAgain(i) PROVE HookInv'
  <2>1. Worked(Key)
    BY <1>0, <1>8, HandingIsWork DEF HandedOutAgain, Expire
  <2>2. WebhooksTypeOK'
    BY <1>8, <2>1 DEF WebhooksTypeOK, HandedOutAgain, Worked
  <2> QED
    BY <1>0, <1>8, <2>1, <2>2, QuietStep DEF ClaimsAreJobs, HandedOutAgain
<1> QED
  BY <1>2, <1>3, <1>4, <1>5, <1>6, <1>7, <1>8 DEF WorkDelivery

\* The books of the deliveries agree with the queue in every reachable state:
\* a delivery posted again, to another replica, after an error or a crash,
\* never becomes a second job (webhooks.ts accept).
THEOREM DeliveriesAreQueuedOnce == WebhooksSpec => []OneJobPerDelivery
<1>1. HookInv /\ [WebhooksNext]_webhooksVars => HookInv'
  <2>1. ASSUME HookInv, UNCHANGED webhooksVars PROVE HookInv'
    BY <2>1 DEF webhooksVars, HookInv, WebhooksTypeOK, ClaimsAreJobs, OneJobPerDelivery, DuplicatesAreQueued
  <2> QED
    BY <2>1, AcceptKeeps, WorkKeeps DEF WebhooksNext
<1>2. HookInv => OneJobPerDelivery
  BY DEF HookInv
<1> QED
  BY <1>1, <1>2, HookStart, PTL DEF WebhooksSpec

\* A delivery answered as a duplicate is queued or about to be, unless its
\* claim was lost (webhooks.ts accept).
THEOREM DuplicatesAreNotDropped == WebhooksSpec => []DuplicatesAreQueued
<1>1. HookInv /\ [WebhooksNext]_webhooksVars => HookInv'
  <2>1. ASSUME HookInv, UNCHANGED webhooksVars PROVE HookInv'
    BY <2>1 DEF webhooksVars, HookInv, WebhooksTypeOK, ClaimsAreJobs, OneJobPerDelivery, DuplicatesAreQueued
  <2> QED
    BY <2>1, AcceptKeeps, WorkKeeps DEF WebhooksNext
<1>2. HookInv => DuplicatesAreQueued
  BY DEF HookInv
<1> QED
  BY <1>1, <1>2, HookStart, PTL DEF WebhooksSpec

-----------------------------------------------------------------------------
(* Heartbeats.                                                             *)
\* A sweep has the job it was taken with.
JobsTaken == \A p \in Replica :
  beat[p]["sweep"].pc # "idle" => beat[p]["sweep"].job \in DOMAIN jobs

\* What has been worked is in the ledger, which holds each window once.
LedgerKept ==
  /\ \A w \in Window : worked[w] = 0 \/ (worked[w] = 1 /\ Ticked(w))
  /\ \A i, j \in DOMAIN ticks : ticks[i].window = ticks[j].window => i = j

\* Ran or running.
Begun(b) == b.pc \in {"items", "settle"}

\* Who works on a window has its tick, and works on it alone.
TicksHeld ==
  /\ \A p \in Replica, s \in Turn : Begun(beat[p][s]) =>
       \E i \in DOMAIN ticks : /\ ticks[i].window = beat[p][s].window
                               /\ beat[p][s].pc = "items" => ticks[i].running
  /\ \A p, q \in Replica, s, t \in Turn :
       /\ Begun(beat[p][s]) /\ Begun(beat[q][t]) /\ beat[p][s].window = beat[q][t].window
       => p = q /\ s = t

\* A tick that is no reason to wait.
GivenUp(tick, t) == ~tick.running \/ t - tick.since >= Stale

\* Who is about to claim saw the newest tick over or given up, unless one was
\* claimed since.
LooksHold == \A p \in Replica, s \in Turn :
  /\ beat[p][s].pc \in {"busy", "claim"} => beat[p][s].window \in Window
  /\ beat[p][s].pc = "claim" =>
       /\ beat[p][s].seen <= Len(ticks)
       /\ ticks # <<>> /\ beat[p][s].seen = Len(ticks) => GivenUp(ticks[Len(ticks)], clock)

\* A checklist that still runs under a tick that is not the newest was given up.
OlderAreStale == ~raced =>
  \A p \in Replica, s \in Turn, i \in DOMAIN ticks :
    beat[p][s].pc = "items" /\ ticks[i].window = beat[p][s].window /\ i # Len(ticks)
      => clock - ticks[i].since >= Stale

BeatsInv ==
  BeatsTypeOK /\ JobsTaken /\ LedgerKept /\ TicksHeld /\ LooksHold /\ OlderAreStale

\* What a step that claims no tick may do to a sweep or a pressed run: end it,
\* or take it one stage on.
GoesOn(q, t) ==
  \/ beat'[q][t] = beat[q][t]
  \/ beat'[q][t].pc \in {"idle", "fire", "due"}
  \/ beat'[q][t].pc = "busy" /\ beat'[q][t].window \in Window
  \/ /\ beat'[q][t].pc = "claim" /\ beat'[q][t].window \in Window
     /\ beat'[q][t].seen = Len(ticks)
     /\ ticks # <<>> => GivenUp(ticks[Len(ticks)], clock)
  \/ /\ beat[q][t].pc = "items" /\ beat'[q][t].pc = "settle"
     /\ beat'[q][t].window = beat[q][t].window

\* A tick keeps its window and its start, and ends with whoever works on it.
TicksStay ==
  /\ DOMAIN ticks' = DOMAIN ticks /\ Len(ticks') = Len(ticks)
  /\ \A i \in DOMAIN ticks :
       /\ ticks'[i].window = ticks[i].window /\ ticks'[i].since = ticks[i].since
       /\ ticks'[i].running => ticks[i].running
       /\ ticks[i].running /\ ~ticks'[i].running =>
            \A q \in Replica, t \in Turn :
              beat'[q][t].pc = "items" => beat'[q][t].window # ticks[i].window

LEMMA ClaimlessSteps ==
  ASSUME BeatsInv, clock' \in Minute, clock' >= clock, worked' = worked, raced' = raced, TicksStay,
         \A q \in Replica, t \in Turn : GoesOn(q, t)
  PROVE  LedgerKept' /\ TicksHeld' /\ LooksHold' /\ OlderAreStale'
<1>1. /\ clock \in Int /\ clock' \in Int /\ Stale \in Int
      /\ \A i \in DOMAIN ticks : ticks[i].since \in Int
  <2>1. clock \in Int /\ clock' \in Int /\ Stale \in Int
    BY TimeAssumption DEF BeatsInv, BeatsTypeOK, Minute
  <2>2. ASSUME NEW i \in DOMAIN ticks PROVE ticks[i].since \in Int
    <3> DEFINE TickRow == [window : Window, running : BOOLEAN, since : Minute]
    <3>1. ticks \in Seq(TickRow)
      BY DEF BeatsInv, BeatsTypeOK
    <3> HIDE DEF TickRow
    <3>2. ticks[i] \in TickRow
      BY <3>1, LenProperties, ElementOfSeq
    <3> QED
      BY <3>2 DEF TickRow, Minute
  <2> QED
    BY <2>1, <2>2
<1>2. Len(ticks) \in Nat /\ DOMAIN ticks = 1 .. Len(ticks) /\ (ticks # <<>> => Len(ticks) \in DOMAIN ticks)
  BY LenProperties, EmptySeq DEF BeatsInv, BeatsTypeOK
<1>3. ticks' # <<>> => ticks # <<>>
  BY <1>2 DEF TicksStay
<1>4. LedgerKept'
  BY DEF BeatsInv, LedgerKept, TicksStay, Ticked
<1>5. \A q \in Replica, t \in Turn : Begun(beat'[q][t]) =>
        /\ Begun(beat[q][t])
        /\ beat'[q][t].window = beat[q][t].window
        /\ beat'[q][t].pc = "items" => beat[q][t].pc = "items"
  BY DEF GoesOn, Begun
<1>6. TicksHeld'
  <2>1. ASSUME NEW q \in Replica, NEW t \in Turn, Begun(beat'[q][t])
        PROVE  \E i \in DOMAIN ticks' : /\ ticks'[i].window = beat'[q][t].window
                                        /\ beat'[q][t].pc = "items" => ticks'[i].running
    <3>1. PICK i \in DOMAIN ticks : /\ ticks[i].window = beat[q][t].window
                                    /\ beat[q][t].pc = "items" => ticks[i].running
      BY <1>5, <2>1 DEF BeatsInv, TicksHeld, Begun
    <3>2. i \in DOMAIN ticks' /\ ticks'[i].window = beat'[q][t].window
      BY <1>5, <2>1, <3>1 DEF TicksStay
    <3>3. ASSUME beat'[q][t].pc = "items" PROVE ticks'[i].running
      <4>1. ticks[i].running
        BY <1>5, <2>1, <3>1, <3>3
      <4> QED
        BY <3>2, <3>3, <4>1 DEF TicksStay
    <3> QED
      BY <3>2, <3>3
  <2>2. ASSUME NEW p \in Replica, NEW q \in Replica, NEW s \in Turn, NEW t \in Turn,
               Begun(beat'[p][s]), Begun(beat'[q][t]), beat'[p][s].window = beat'[q][t].window
        PROVE  p = q /\ s = t
    BY <1>5, <2>2 DEF BeatsInv, TicksHeld, Begun
  <2> QED
    BY <2>1, <2>2 DEF TicksHeld
<1>7. \A i \in DOMAIN ticks : GivenUp(ticks[i], clock) => GivenUp(ticks'[i], clock')
  <2> SUFFICES ASSUME NEW i \in DOMAIN ticks, ticks[i].running => clock - ticks[i].since >= Stale,
                      ticks'[i].running
               PROVE  clock' - ticks'[i].since >= Stale
    BY DEF GivenUp
  <2>1. ticks[i].running /\ ticks'[i].since = ticks[i].since
    BY DEF TicksStay
  <2> QED
    BY <1>1, <2>1
<1>8. LooksHold'
  <2> SUFFICES ASSUME NEW q \in Replica, NEW t \in Turn
               PROVE  /\ beat'[q][t].pc \in {"busy", "claim"} => beat'[q][t].window \in Window
                      /\ beat'[q][t].pc = "claim" =>
                           /\ beat'[q][t].seen <= Len(ticks')
                           /\ ticks' # <<>> /\ beat'[q][t].seen = Len(ticks')
                                => GivenUp(ticks'[Len(ticks')], clock')
    BY DEF LooksHold
  <2>1. GoesOn(q, t) /\ Len(ticks') = Len(ticks)
    BY DEF TicksStay
  <2>2. ticks # <<>> /\ GivenUp(ticks[Len(ticks)], clock) => GivenUp(ticks'[Len(ticks')], clock')
    BY <1>2, <1>7, <2>1
  <2>3. CASE beat'[q][t] = beat[q][t]
    BY <1>3, <2>1, <2>2, <2>3 DEF BeatsInv, LooksHold
  <2>4. CASE beat'[q][t] # beat[q][t]
    BY <1>2, <1>3, <2>1, <2>2, <2>4 DEF GoesOn
  <2> QED
    BY <2>3, <2>4
<1>9. OlderAreStale'
  <2> SUFFICES ASSUME ~raced, NEW q \in Replica, NEW t \in Turn, NEW i \in DOMAIN ticks,
                      beat'[q][t].pc = "items", ticks'[i].window = beat'[q][t].window,
                      i # Len(ticks')
               PROVE  clock' - ticks'[i].since >= Stale
    BY DEF OlderAreStale, TicksStay
  <2>1. beat[q][t].pc = "items" /\ ticks[i].window = beat[q][t].window /\ i # Len(ticks)
    BY <1>5 DEF TicksStay, Begun
  <2>2. clock - ticks[i].since >= Stale /\ ticks'[i].since = ticks[i].since
    BY <2>1 DEF BeatsInv, OlderAreStale, TicksStay
  <2> QED
    BY <1>1, <2>2
<1> QED
  BY <1>4, <1>6, <1>8, <1>9

Beat == [pc : {"idle", "fire", "due", "busy", "claim", "items", "settle"},
         window : Window \cup {0}, job : Nat, seen : Nat]

LEMMA WindowsAreTyped ==
  /\ Minute \subseteq Window /\ Window \subseteq Nat \ {0} /\ NoBeat \in Beat
  /\ \A n \in 1 .. MaxPresses : Pressed(n) \in Window
<1>1. MaxMinute \in Nat /\ MaxPresses \in Nat
  BY TimeAssumption
<1>2. Minute \subseteq Window /\ Window \subseteq Nat \ {0}
  BY <1>1 DEF Minute, Window
<1>3. \A n \in 1 .. MaxPresses : Pressed(n) \in Window
  BY <1>1 DEF Pressed, Window
<1> QED
  BY <1>2, <1>3 DEF NoBeat, Beat

\* One sweep or pressed run is now at b.
Moved(p, s, b) ==
  /\ beat' \in [Replica -> [Turn -> Beat]]
  /\ beat'[p][s] = b
  /\ \A q \in Replica, t \in Turn : q # p \/ t # s => beat'[q][t] = beat[q][t]

LEMMA OneMoves ==
  ASSUME BeatsTypeOK, NEW p \in Replica, NEW s \in Turn, NEW b \in Beat,
         beat' = [beat EXCEPT ![p][s] = b]
  PROVE  Moved(p, s, b)
<1>1. beat \in [Replica -> [Turn -> Beat]]
  BY DEF BeatsTypeOK, Beat
<1> QED
  BY <1>1 DEF Moved

LEMMA StageMoves ==
  ASSUME BeatsTypeOK, NEW p \in Replica, NEW s \in Turn,
         NEW pc \in {"idle", "fire", "due", "busy", "claim", "items", "settle"}, Beats(p, s, pc)
  PROVE  Moved(p, s, [beat[p][s] EXCEPT !.pc = pc])
<1>1. beat \in [Replica -> [Turn -> Beat]]
  BY DEF BeatsTypeOK, Beat
<1>2. beat[p][s] \in Beat
  BY <1>1
<1>3. [beat[p][s] EXCEPT !.pc = pc] \in Beat
  BY <1>2 DEF Beat
<1>4. beat'[p][s] = [beat[p][s] EXCEPT !.pc = pc]
  BY <1>1 DEF Beats
<1>5. \A q \in Replica, t \in Turn : q # p \/ t # s => beat'[q][t] = beat[q][t]
  BY <1>1 DEF Beats
<1>6. DOMAIN beat' = Replica /\ \A q \in Replica : beat'[q] = [t \in Turn |-> beat'[q][t]]
  BY <1>1 DEF Beats
<1>7. beat' = [q \in Replica |-> beat'[q]]
  BY <1>1 DEF Beats
<1>8. \A q \in Replica, t \in Turn : beat'[q][t] \in Beat
  BY <1>1, <1>3, <1>4, <1>5
<1> QED
  BY <1>3, <1>4, <1>5, <1>6, <1>7, <1>8 DEF Moved

\* What becomes of the jobs.
JobsKept == /\ jobs' \in Seq(JobAbout({MinuteSweep})) /\ DOMAIN jobs \subseteq DOMAIN jobs'

LEMMA JobSteps ==
  ASSUME BeatsTypeOK
  PROVE  /\ jobs' = jobs => JobsKept
         /\ jobs' = Sent(MinuteSweep) => JobsKept
         /\ \A i \in DOMAIN jobs :
              jobs' = Taken(i) \/ jobs' = Finished(i) \/ jobs' = Unfinished(i) => JobsKept
<1>1. jobs \in Seq(JobAbout({MinuteSweep}))
  BY DEF BeatsTypeOK
<1>2. jobs' = jobs => JobsKept
  BY <1>1 DEF JobsKept
<1>3. ASSUME jobs' = Sent(MinuteSweep) PROVE JobsKept
  BY <1>1, <1>3, SendingGrows DEF Grown, JobsKept
<1>4. ASSUME NEW i \in DOMAIN jobs,
             jobs' = Taken(i) \/ jobs' = Finished(i) \/ jobs' = Unfinished(i)
      PROVE  JobsKept
  BY <1>1, <1>4, HandingIsWork DEF Worked, JobsKept
<1> QED
  BY <1>2, <1>3, <1>4

\* The end of a sweep or of a pressed run.
LEMMA OverEnds ==
  ASSUME BeatsInv, NEW p \in Replica, NEW s \in Turn, beat[p][s].pc # "idle", Over(p, s)
  PROVE  JobsKept /\ Moved(p, s, NoBeat)
<1>1. s = "sweep" => beat[p][s].job \in DOMAIN jobs
  BY DEF BeatsInv, JobsTaken
<1>2. JobsKept
  BY <1>1, JobSteps DEF Over, BeatsInv
<1>3. Moved(p, s, NoBeat)
  BY OneMoves, WindowsAreTyped DEF Over, BeatsInv
<1> QED
  BY <1>2, <1>3

\* A step that claims no tick, all told.
LEMMA ClaimlessStep ==
  ASSUME BeatsInv, NEW p \in Replica, NEW s \in Turn, NEW b, Moved(p, s, b),
         JobsKept, clock' = clock, worked' = worked, raced' = raced, fires' \in [Minute -> Nat],
         fired' \in [Replica -> Minute \cup {0}], inFlight' \subseteq Replica,
         presses' \in 0 .. MaxPresses, beatsCrashes' = beatsCrashes,
         ticks' \in Seq([window : Window, running : BOOLEAN, since : Minute]), TicksStay,
         s = "sweep" /\ b.pc # "idle" => b.job \in DOMAIN jobs,
         GoesOn(p, s)
  PROVE  BeatsInv'
<1>1. /\ beat' \in [Replica -> [Turn -> Beat]] /\ beat'[p][s] = b
      /\ \A q \in Replica, t \in Turn : q # p \/ t # s => beat'[q][t] = beat[q][t]
  BY DEF Moved
<1>2. BeatsTypeOK'
  BY <1>1 DEF BeatsInv, BeatsTypeOK, JobsKept, Beat
<1>3. JobsTaken'
  <2> SUFFICES ASSUME NEW q \in Replica, beat'[q]["sweep"].pc # "idle"
               PROVE  beat'[q]["sweep"].job \in DOMAIN jobs'
    BY DEF JobsTaken
  <2>1. CASE q = p /\ s = "sweep"
    BY <1>1, <2>1 DEF JobsKept
  <2>2. CASE ~(q = p /\ s = "sweep")
    <3>1. beat'[q]["sweep"] = beat[q]["sweep"]
      BY <1>1, <2>2 DEF Turn
    <3> QED
      BY <3>1 DEF BeatsInv, JobsTaken, JobsKept
  <2> QED
    BY <2>1, <2>2
<1>4. \A q \in Replica, t \in Turn : GoesOn(q, t)
  BY <1>1 DEF GoesOn
<1>5. clock' \in Minute /\ clock' >= clock
  BY DEF BeatsInv, BeatsTypeOK, Minute
<1>6. LedgerKept' /\ TicksHeld' /\ LooksHold' /\ OlderAreStale'
  BY <1>4, <1>5, ClaimlessSteps
<1> QED
  BY <1>2, <1>3, <1>6 DEF BeatsInv

LEMMA TicksUnchanged ==
  ASSUME BeatsInv, ticks' = ticks
  PROVE  TicksStay /\ ticks' \in Seq([window : Window, running : BOOLEAN, since : Minute])
  BY DEF TicksStay, BeatsInv, BeatsTypeOK

LEMMA BeatsStart == BeatsInit => BeatsInv
<1> SUFFICES ASSUME BeatsInit PROVE BeatsInv
  OBVIOUS
<1>1. /\ beat \in [Replica -> [Turn -> Beat]]
      /\ \A p \in Replica, s \in Turn : beat[p][s].pc = "idle"
  BY WindowsAreTyped DEF BeatsInit, NoBeat
<1>2. /\ 1 \in Minute /\ 0 \in 0 .. MaxPresses /\ 0 \in 0 .. MaxBeatsCrashes
      /\ <<>> \in Seq([window : Window, running : BOOLEAN, since : Minute])
      /\ <<>> \in Seq(JobAbout({MinuteSweep})) /\ DOMAIN <<>> = {}
  BY EmptySeq, TimeAssumption DEF Minute
<1>3. BeatsTypeOK
  BY <1>1, <1>2 DEF BeatsInit, BeatsTypeOK, Beat
<1>4. JobsTaken
  BY <1>1 DEF JobsTaken, Turn
<1>5. LedgerKept
  BY <1>2 DEF BeatsInit, LedgerKept
<1>6. TicksHeld
  BY <1>1 DEF TicksHeld, Begun
<1>7. LooksHold /\ OlderAreStale
  BY <1>1 DEF LooksHold, OlderAreStale
<1> QED
  BY <1>3, <1>4, <1>5, <1>6, <1>7 DEF BeatsInv

LEMMA TakeSweepKeeps ==
  ASSUME BeatsInv, NEW p \in Replica, NEW i \in DOMAIN jobs, TakeSweep(p, i)
  PROVE  BeatsInv'
<1> DEFINE b == [NoBeat EXCEPT !.pc = "fire", !.job = i]
<1>1. "sweep" \in Turn /\ i \in Nat
  BY LenProperties DEF Turn, BeatsInv, BeatsTypeOK
<1>2. b \in Beat /\ b.pc = "fire" /\ b.job = i
  BY <1>1 DEF NoBeat, Beat
<1> HIDE DEF b
<1>3. Moved(p, "sweep", b)
  <2>1. beat' = [beat EXCEPT ![p]["sweep"] = b]
    BY DEF TakeSweep, b
  <2> QED
    BY <1>1, <1>2, <2>1, OneMoves DEF BeatsInv
<1>4. JobsKept
  BY JobSteps DEF TakeSweep, BeatsInv
<1>5. GoesOn(p, "sweep")
  BY <1>2, <1>3 DEF GoesOn, Moved
<1>6. /\ fires' \in [Minute -> Nat] /\ fired' \in [Replica -> Minute \cup {0}]
      /\ inFlight' \subseteq Replica /\ presses' \in 0 .. MaxPresses
      /\ beatsCrashes' = beatsCrashes /\ clock' = clock /\ worked' = worked /\ raced' = raced
      /\ ticks' = ticks
  BY DEF TakeSweep, BeatsInv, BeatsTypeOK
<1> QED
  BY <1>1, <1>2, <1>3, <1>4, <1>5, <1>6, TicksUnchanged, ClaimlessStep

\* A stage further, the job being the same.
LEMMA StageKeeps ==
  ASSUME BeatsInv, NEW p \in Replica, NEW s \in Turn,
         NEW pc \in {"due", "settle"}, Beats(p, s, pc),
         beat[p][s].pc # "idle", pc = "settle" => beat[p][s].pc = "items",
         jobs' = jobs, clock' = clock, worked' = worked, raced' = raced, ticks' = ticks,
         fires' \in [Minute -> Nat], fired' \in [Replica -> Minute \cup {0}],
         inFlight' \subseteq Replica, presses' = presses, beatsCrashes' = beatsCrashes
  PROVE  BeatsInv'
<1> DEFINE b == [beat[p][s] EXCEPT !.pc = pc]
<1>1. beat[p][s] \in Beat
  BY DEF BeatsInv, BeatsTypeOK, Beat
<1>2. b.pc = pc /\ b.job = beat[p][s].job /\ b.window = beat[p][s].window
  BY <1>1 DEF Beat
<1>3. Moved(p, s, b)
  BY StageMoves DEF BeatsInv
<1> HIDE DEF b
<1>4. JobsKept /\ presses' \in 0 .. MaxPresses
  BY JobSteps DEF BeatsInv, BeatsTypeOK
<1>5. GoesOn(p, s)
  BY <1>2, <1>3 DEF GoesOn, Moved
<1>6. s = "sweep" => b.job \in DOMAIN jobs
  BY <1>2 DEF BeatsInv, JobsTaken
<1> QED
  BY <1>3, <1>4, <1>5, <1>6, TicksUnchanged, ClaimlessStep

LEMMA FireKeeps ==
  ASSUME BeatsInv, NEW p \in Replica, Fire(p)
  PROVE  BeatsInv'
<1>1. "sweep" \in Turn
  BY DEF Turn
<1>2. fires' \in [Minute -> Nat] /\ fired' \in [Replica -> Minute \cup {0}]
  <2>1. clock \in Minute /\ fires \in [Minute -> Nat] /\ fired \in [Replica -> Minute \cup {0}]
    BY DEF BeatsInv, BeatsTypeOK
  <2>2. CASE UNCHANGED <<fired, fires>>
    BY <2>1, <2>2
  <2>3. CASE ~UNCHANGED <<fired, fires>>
    BY <2>1, <2>3 DEF Fire
  <2> QED
    BY <2>2, <2>3
<1>3. inFlight' \subseteq Replica
  BY DEF Fire, BeatsInv, BeatsTypeOK
<1>4. /\ Beats(p, "sweep", "due") /\ beat[p]["sweep"].pc = "fire"
      /\ jobs' = jobs /\ clock' = clock /\ worked' = worked /\ raced' = raced /\ ticks' = ticks
      /\ presses' = presses /\ beatsCrashes' = beatsCrashes
  BY DEF Fire
<1> QED
  BY <1>1, <1>2, <1>3, <1>4, StageKeeps

LEMMA ItemsKeeps ==
  ASSUME BeatsInv, NEW p \in Replica, NEW s \in Turn, Items(p, s)
  PROVE  BeatsInv'
<1>1. /\ fires' \in [Minute -> Nat] /\ fired' \in [Replica -> Minute \cup {0}]
      /\ inFlight' \subseteq Replica
  BY DEF Items, BeatsInv, BeatsTypeOK
<1>2. /\ Beats(p, s, "settle") /\ beat[p][s].pc = "items"
      /\ jobs' = jobs /\ clock' = clock /\ worked' = worked /\ raced' = raced /\ ticks' = ticks
      /\ presses' = presses /\ beatsCrashes' = beatsCrashes
  BY DEF Items
<1> QED
  BY <1>1, <1>2, StageKeeps

\* The end of one, with the tick settled or not.
LEMMA EndKeeps ==
  ASSUME BeatsInv, NEW p \in Replica, NEW s \in Turn, Over(p, s), beat[p][s].pc # "idle",
         ticks' \in Seq([window : Window, running : BOOLEAN, since : Minute]), TicksStay,
         UNCHANGED <<clock, fired, fires, inFlight, presses, worked, raced, beatsCrashes>>
  PROVE  BeatsInv'
<1>1. JobsKept /\ Moved(p, s, NoBeat)
  BY OverEnds
<1>2. /\ fires' \in [Minute -> Nat] /\ fired' \in [Replica -> Minute \cup {0}]
      /\ inFlight' \subseteq Replica /\ presses' \in 0 .. MaxPresses
  BY DEF BeatsInv, BeatsTypeOK
<1>3. NoBeat.pc = "idle"
  BY DEF NoBeat
<1>4. GoesOn(p, s)
  BY <1>1, <1>3 DEF GoesOn, Moved
<1> QED
  BY <1>1, <1>2, <1>3, <1>4, ClaimlessStep

LEMMA DueKeeps ==
  ASSUME BeatsInv, NEW p \in Replica, Due(p)
  PROVE  BeatsInv'
<1>1. "sweep" \in Turn /\ clock \in Minute /\ clock \in Window
  BY WindowsAreTyped DEF Turn, BeatsInv, BeatsTypeOK
<1>2. CASE Over(p, "sweep")
  <2>1. beat[p]["sweep"].pc # "idle"
    BY DEF Due
  <2>2. ticks' = ticks /\ UNCHANGED <<clock, fired, fires, inFlight, presses, worked, raced, beatsCrashes>>
    BY DEF Due
  <2> QED
    BY <1>1, <1>2, <2>1, <2>2, TicksUnchanged, EndKeeps
<1>3. CASE ~Over(p, "sweep")
  <2> DEFINE b == [beat[p]["sweep"] EXCEPT !.pc = "busy", !.window = clock]
  <2>1. beat[p]["sweep"] \in Beat
    BY <1>1 DEF BeatsInv, BeatsTypeOK, Beat
  <2>2. b \in Beat /\ b.pc = "busy" /\ b.window = clock /\ b.job = beat[p]["sweep"].job
    BY <1>1, <2>1 DEF Beat
  <2>3. beat' = [beat EXCEPT ![p]["sweep"] = b] /\ jobs' = jobs
    BY <1>1, <1>3, <2>1 DEF Due, BeatsInv, BeatsTypeOK
  <2> HIDE DEF b
  <2>4. Moved(p, "sweep", b)
    BY <1>1, <2>2, <2>3, OneMoves DEF BeatsInv
  <2>5. JobsKept
    BY <2>3, JobSteps DEF BeatsInv
  <2>6. GoesOn(p, "sweep")
    BY <1>1, <2>2, <2>4 DEF GoesOn, Moved
  <2>7. b.job \in DOMAIN jobs
    BY <2>2 DEF Due, BeatsInv, JobsTaken
  <2>8. /\ fires' \in [Minute -> Nat] /\ fired' \in [Replica -> Minute \cup {0}]
        /\ inFlight' \subseteq Replica /\ presses' \in 0 .. MaxPresses
        /\ beatsCrashes' = beatsCrashes /\ clock' = clock /\ worked' = worked /\ raced' = raced
        /\ ticks' = ticks
    BY DEF Due, BeatsInv, BeatsTypeOK
  <2> QED
    BY <1>1, <2>4, <2>5, <2>6, <2>7, <2>8, TicksUnchanged, ClaimlessStep
<1> QED
  BY <1>2, <1>3

LEMMA PressKeeps ==
  ASSUME BeatsInv, NEW p \in Replica, Press(p)
  PROVE  BeatsInv'
<1> DEFINE b == [NoBeat EXCEPT !.pc = "busy", !.window = Pressed(presses + 1)]
<1>1. /\ "press" \in Turn /\ "press" # "sweep" /\ presses + 1 \in 1 .. MaxPresses
      /\ presses' \in 0 .. MaxPresses
  BY TimeAssumption DEF Turn, Press, BeatsInv, BeatsTypeOK
<1>2. Pressed(presses + 1) \in Window
  BY <1>1, WindowsAreTyped
<1>3. b \in Beat /\ b.pc = "busy" /\ b.window \in Window
  BY <1>2 DEF NoBeat, Beat
<1>4. beat' = [beat EXCEPT ![p]["press"] = b]
  BY DEF Press
<1> HIDE DEF b
<1>5. Moved(p, "press", b)
  BY <1>1, <1>3, <1>4, OneMoves DEF BeatsInv
<1>6. JobsKept
  BY JobSteps DEF Press, BeatsInv
<1>7. GoesOn(p, "press")
  BY <1>3, <1>5 DEF GoesOn, Moved
<1>8. /\ fires' \in [Minute -> Nat] /\ fired' \in [Replica -> Minute \cup {0}]
      /\ inFlight' \subseteq Replica
      /\ beatsCrashes' = beatsCrashes /\ clock' = clock /\ worked' = worked /\ raced' = raced
      /\ ticks' = ticks
  BY DEF Press, BeatsInv, BeatsTypeOK
<1> QED
  BY <1>1, <1>5, <1>6, <1>7, <1>8, TicksUnchanged, ClaimlessStep

LEMMA CheckKeeps ==
  ASSUME BeatsInv, NEW p \in Replica, NEW s \in Turn, Check(p, s)
  PROVE  BeatsInv'
<1>1. ticks' = ticks /\ UNCHANGED <<clock, fired, fires, inFlight, presses, worked, raced, beatsCrashes>>
  BY DEF Check
<1>2. CASE Over(p, s)
  <2>1. beat[p][s].pc # "idle"
    BY DEF Check
  <2> QED
    BY <1>1, <1>2, <2>1, TicksUnchanged, EndKeeps
<1>3. CASE ~Over(p, s)
  <2> DEFINE b == [beat[p][s] EXCEPT !.pc = "claim", !.seen = Len(ticks)]
  <2>1. beat[p][s] \in Beat /\ Len(ticks) \in Nat
    BY LenProperties DEF BeatsInv, BeatsTypeOK, Beat
  <2>2. /\ b \in Beat /\ b.pc = "claim" /\ b.window = beat[p][s].window
        /\ b.seen = Len(ticks) /\ b.job = beat[p][s].job
    BY <2>1 DEF Beat
  <2>3. beat' = [beat EXCEPT ![p][s] = b] /\ jobs' = jobs /\ ~Occupied(p)
    BY <1>3, <2>1 DEF Check, BeatsInv, BeatsTypeOK
  <2> HIDE DEF b
  <2>4. Moved(p, s, b)
    BY <2>2, <2>3, OneMoves DEF BeatsInv
  <2>5. JobsKept
    BY <2>3, JobSteps DEF BeatsInv
  <2>6. ticks # <<>> => GivenUp(ticks[Len(ticks)], clock)
    <3> SUFFICES ASSUME ticks # <<>> PROVE GivenUp(ticks[Len(ticks)], clock)
      OBVIOUS
    <3>1. Len(ticks) \in 1 .. Len(ticks)
      BY EmptySeq, LenProperties DEF BeatsInv, BeatsTypeOK
    <3>2. ticks[Len(ticks)] \in [window : Window, running : BOOLEAN, since : Minute]
      BY <3>1, ElementOfSeq DEF BeatsInv, BeatsTypeOK
    <3>3. ticks[Len(ticks)].since \in Int /\ clock \in Int /\ Stale \in Int
      BY <3>2, TimeAssumption DEF BeatsInv, BeatsTypeOK, Minute
    <3>4. ~(ticks[Len(ticks)].running /\ clock - ticks[Len(ticks)].since < Stale)
      BY <2>3 DEF Occupied
    <3> QED
      BY <3>3, <3>4 DEF GivenUp
  <2>7. b.window \in Window
    BY <2>2 DEF Check, BeatsInv, LooksHold
  <2>8. GoesOn(p, s)
    BY <2>2, <2>4, <2>6, <2>7 DEF GoesOn, Moved
  <2>9. s = "sweep" => b.job \in DOMAIN jobs
    BY <2>2 DEF Check, BeatsInv, JobsTaken
  <2>10. /\ fires' \in [Minute -> Nat] /\ fired' \in [Replica -> Minute \cup {0}]
         /\ inFlight' \subseteq Replica /\ presses' \in 0 .. MaxPresses
         /\ beatsCrashes' = beatsCrashes /\ clock' = clock /\ worked' = worked /\ raced' = raced
    BY <1>1 DEF BeatsInv, BeatsTypeOK
  <2> QED
    BY <1>1, <2>4, <2>5, <2>8, <2>9, <2>10, TicksUnchanged, ClaimlessStep
<1> QED
  BY <1>2, <1>3

LEMMA SettleTickKeeps ==
  ASSUME BeatsInv, NEW p \in Replica, NEW s \in Turn, SettleTick(p, s)
  PROVE  BeatsInv'
<1> DEFINE Ticks == [window : Window, running : BOOLEAN, since : Minute]
           ended(i) == IF ticks[i].window = beat[p][s].window
                       THEN [ticks[i] EXCEPT !.running = FALSE] ELSE ticks[i]
<1>1. /\ Over(p, s) /\ beat[p][s].pc = "settle"
      /\ UNCHANGED <<clock, fired, fires, inFlight, presses, worked, raced, beatsCrashes>>
  BY DEF SettleTick
<1>2. CASE ticks' = ticks
  BY <1>1, <1>2, TicksUnchanged, EndKeeps
<1>3. CASE ticks' = [i \in DOMAIN ticks |-> ended(i)]
  <2>1. ticks \in Seq(Ticks) /\ Len(ticks) \in Nat /\ DOMAIN ticks = 1 .. Len(ticks)
    BY LenProperties DEF BeatsInv, BeatsTypeOK
  <2>2. ASSUME NEW i \in DOMAIN ticks
        PROVE  /\ ended(i) \in Ticks
               /\ ended(i).window = ticks[i].window /\ ended(i).since = ticks[i].since
               /\ ticks[i].window # beat[p][s].window => ended(i) = ticks[i]
               /\ ended(i).running => ticks[i].running
    <3>1. ticks[i] \in Ticks
      BY <2>1, <2>2, ElementOfSeq
    <3>2. CASE ticks[i].window = beat[p][s].window
      <4>1. ended(i) = [ticks[i] EXCEPT !.running = FALSE]
        BY <3>2
      <4>2. FALSE \in BOOLEAN /\ [ticks[i] EXCEPT !.running = FALSE].running = FALSE
        BY <3>1
      <4> QED
        BY <3>1, <3>2, <4>1, <4>2
    <3>3. CASE ticks[i].window # beat[p][s].window
      BY <3>1, <3>3
    <3> QED
      BY <3>2, <3>3
  <2> HIDE DEF ended
  <2>3. ticks' \in Seq(Ticks) /\ Len(ticks') = Len(ticks) /\ DOMAIN ticks' = DOMAIN ticks
    <3>1. ticks' \in [1 .. Len(ticks) -> Ticks]
      BY <1>3, <2>1, <2>2
    <3> QED
      BY <2>1, <3>1, IsASeq, LenProperties
  <2>4. Moved(p, s, NoBeat) /\ NoBeat.pc = "idle"
    BY <1>1, OverEnds DEF NoBeat
  <2>5. \A q \in Replica, t \in Turn :
          beat'[q][t].pc = "items" => beat'[q][t].window # beat[p][s].window
    <3> SUFFICES ASSUME NEW q \in Replica, NEW t \in Turn, beat'[q][t].pc = "items",
                        beat'[q][t].window = beat[p][s].window
                 PROVE  FALSE
      OBVIOUS
    <3>1. q # p \/ t # s
      BY <2>4 DEF Moved
    <3>2. beat[q][t] = beat'[q][t]
      BY <2>4, <3>1 DEF Moved
    <3> QED
      BY <1>1, <3>1, <3>2 DEF BeatsInv, TicksHeld, Begun
  <2>6. TicksStay
    <3> SUFFICES ASSUME NEW i \in DOMAIN ticks
                 PROVE  /\ ticks'[i].window = ticks[i].window /\ ticks'[i].since = ticks[i].since
                        /\ ticks'[i].running => ticks[i].running
                        /\ ticks[i].running /\ ~ticks'[i].running =>
                             \A q \in Replica, t \in Turn :
                               beat'[q][t].pc = "items" => beat'[q][t].window # ticks[i].window
      BY <2>3 DEF TicksStay
    <3>1. ticks'[i] = ended(i)
      BY <1>3
    <3>2. CASE ticks[i].window = beat[p][s].window
      BY <2>2, <2>5, <3>1, <3>2
    <3>3. CASE ticks[i].window # beat[p][s].window
      BY <2>2, <3>1, <3>3
    <3> QED
      BY <3>2, <3>3
  <2> QED
    BY <1>1, <2>3, <2>6, EndKeeps
<1> QED
  BY <1>2, <1>3 DEF SettleTick

LEMMA BeatsCrashKeeps ==
  ASSUME BeatsInv, NEW p \in Replica, BeatsCrash(p)
  PROVE  BeatsInv'
<1>1. /\ beat' \in [Replica -> [Turn -> Beat]]
      /\ \A q \in Replica \ {p}, t \in Turn : beat'[q][t] = beat[q][t]
      /\ \A t \in Turn : beat'[p][t].pc = "idle"
  <2>1. beat \in [Replica -> [Turn -> Beat]]
    BY DEF BeatsInv, BeatsTypeOK, Beat
  <2>2. beat' = [beat EXCEPT ![p] = [t \in Turn |-> NoBeat]]
    BY DEF BeatsCrash
  <2> QED
    BY <2>1, <2>2, WindowsAreTyped DEF NoBeat
<1>2. beatsCrashes' \in 0 .. MaxBeatsCrashes
  BY TimeAssumption DEF BeatsCrash, BeatsInv, BeatsTypeOK
<1>3. fired' \in [Replica -> Minute \cup {0}] /\ inFlight' \subseteq Replica
  BY DEF BeatsCrash, BeatsInv, BeatsTypeOK
<1>4. UNCHANGED <<jobs, clock, fires, ticks, presses, worked, raced>>
  BY DEF BeatsCrash
<1>5. BeatsTypeOK'
  BY <1>1, <1>2, <1>3, <1>4 DEF BeatsInv, BeatsTypeOK, Beat
<1>6. JobsTaken'
  BY <1>1, <1>4 DEF BeatsInv, JobsTaken, Turn
<1>7. \A q \in Replica, t \in Turn : GoesOn(q, t)
  BY <1>1 DEF GoesOn
<1>8. clock' \in Minute /\ clock' >= clock
  BY <1>4 DEF BeatsInv, BeatsTypeOK, Minute
<1>9. LedgerKept' /\ TicksHeld' /\ LooksHold' /\ OlderAreStale'
  BY <1>4, <1>7, <1>8, TicksUnchanged, ClaimlessSteps
<1> QED
  BY <1>5, <1>6, <1>9 DEF BeatsInv

\* A step that leaves the sweeps and the ledger alone.
LEMMA OutsideKeeps ==
  ASSUME BeatsInv, JobsKept, clock' \in Minute, clock' >= clock,
         UNCHANGED <<fired, fires, ticks, inFlight, beat, presses, worked, raced, beatsCrashes>>
  PROVE  BeatsInv'
<1>1. BeatsTypeOK'
  BY DEF BeatsInv, BeatsTypeOK, JobsKept
<1>2. JobsTaken'
  BY DEF BeatsInv, JobsTaken, JobsKept
<1>3. \A q \in Replica, t \in Turn : GoesOn(q, t)
  BY DEF GoesOn
<1>4. LedgerKept' /\ TicksHeld' /\ LooksHold' /\ OlderAreStale'
  BY <1>3, TicksUnchanged, ClaimlessSteps
<1> QED
  BY <1>1, <1>2, <1>4 DEF BeatsInv

LEMMA ClaimTickKeeps ==
  ASSUME BeatsInv, NEW p \in Replica, NEW s \in Turn, ClaimTick(p, s)
  PROVE  BeatsInv'
<1> DEFINE w == beat[p][s].window
           n == Len(ticks) + 1
<1>1. beat[p][s].pc = "claim" /\ w \in Window
  BY DEF ClaimTick, BeatsInv, LooksHold
<1>2. CASE Ticked(w)
  <2>1. /\ Over(p, s) /\ ticks' = ticks
        /\ UNCHANGED <<clock, fired, fires, inFlight, presses, worked, raced, beatsCrashes>>
    BY <1>2 DEF ClaimTick
  <2> QED
    BY <1>1, <2>1, TicksUnchanged, EndKeeps
<1>3. CASE ~Ticked(w)
  <2> DEFINE Ticks == [window : Window, running : BOOLEAN, since : Minute]
             tick == [window |-> w, running |-> TRUE, since |-> clock]
             b == [beat[p][s] EXCEPT !.pc = "items", !.seen = 0]
  <2>1. tick \in Ticks /\ tick.window = w /\ tick.running
    <3>1. TRUE \in BOOLEAN /\ clock \in Minute
      BY DEF BeatsInv, BeatsTypeOK
    <3> QED
      BY <1>1, <3>1
  <2>2. /\ ticks' = Append(ticks, tick) /\ inFlight' = inFlight \cup {p}
        /\ worked' = [worked EXCEPT ![w] = @ + 1]
        /\ raced' = (raced \/ Len(ticks) # beat[p][s].seen)
        /\ UNCHANGED <<jobs, clock, fired, fires, presses, beatsCrashes>>
    BY <1>3 DEF ClaimTick
  <2>3. beat[p][s] \in Beat
    BY DEF BeatsInv, BeatsTypeOK, Beat
  <2>4. b \in Beat /\ b.pc = "items" /\ b.window = w /\ b.job = beat[p][s].job
    BY <2>3 DEF Beat
  <2>5. beat' = [beat EXCEPT ![p][s] = b]
    BY <1>3, <2>3 DEF ClaimTick, BeatsInv, BeatsTypeOK
  <2> HIDE DEF b, tick
  <2>6. Moved(p, s, b)
    BY <2>4, <2>5, OneMoves DEF BeatsInv
  <2>7. /\ Len(ticks) \in Nat /\ DOMAIN ticks = 1 .. Len(ticks)
        /\ ticks' \in Seq(Ticks) /\ DOMAIN ticks' = 1 .. n /\ Len(ticks') = n
        /\ \A i \in DOMAIN ticks : ticks'[i] = ticks[i]
        /\ ticks'[n] = tick
    <3>1. ticks \in Seq(Ticks)
      BY DEF BeatsInv, BeatsTypeOK
    <3>2. Len(ticks) \in Nat /\ DOMAIN ticks = 1 .. Len(ticks)
      BY <3>1, LenProperties
    <3>3. /\ ticks' \in Seq(Ticks) /\ Len(ticks') = n
          /\ \A i \in 1 .. Len(ticks) : ticks'[i] = ticks[i]
          /\ ticks'[n] = tick
      BY <2>1, <2>2, <3>1, AppendProperties
    <3>4. DOMAIN ticks' = 1 .. n
      BY <3>3, LenProperties
    <3> QED
      BY <3>2, <3>3, <3>4
  <2>8. \A i \in DOMAIN ticks : i # n /\ i \in DOMAIN ticks'
    BY <2>7
  <2>9. n \in DOMAIN ticks' /\ \A i \in DOMAIN ticks' : i # n => i \in DOMAIN ticks
    BY <2>7
  <2> HIDE DEF n
  <2>10. worked[w] = 0 /\ worked' \in [Window -> Nat] /\ worked'[w] = 1
         /\ \A v \in Window \ {w} : worked'[v] = worked[v]
    BY <1>1, <1>3, <2>2 DEF BeatsInv, BeatsTypeOK, LedgerKept
  <2>11. BeatsTypeOK'
    <3>1. raced' \in BOOLEAN
      BY <2>2
    <3> QED
      BY <2>2, <2>6, <2>7, <2>10, <3>1 DEF BeatsInv, BeatsTypeOK, Moved, Beat
  <2>12. JobsTaken'
    <3> SUFFICES ASSUME NEW q \in Replica, beat'[q]["sweep"].pc # "idle"
                 PROVE  beat'[q]["sweep"].job \in DOMAIN jobs
      BY <2>2 DEF JobsTaken
    <3>1. beat[q]["sweep"].pc # "idle" /\ beat'[q]["sweep"].job = beat[q]["sweep"].job
      <4>1. CASE q = p /\ s = "sweep"
        BY <1>1, <2>4, <2>6, <4>1 DEF Moved
      <4>2. CASE ~(q = p /\ s = "sweep")
        BY <2>6, <4>2 DEF Moved, Turn
      <4> QED
        BY <4>1, <4>2
    <3> QED
      BY <3>1 DEF BeatsInv, JobsTaken
  <2>13. LedgerKept'
    <3>1. ASSUME NEW v \in Window
          PROVE  worked'[v] = 0 \/ (worked'[v] = 1 /\ \E i \in DOMAIN ticks' : ticks'[i].window = v)
      <4>1. CASE v = w
        BY <2>1, <2>7, <2>9, <2>10, <4>1
      <4>2. CASE v # w
        BY <2>7, <2>8, <2>10, <4>2 DEF BeatsInv, LedgerKept, Ticked
      <4> QED
        BY <4>1, <4>2
    <3>2. \A i \in DOMAIN ticks : ticks'[i].window # w
      BY <1>3, <2>7 DEF Ticked
    <3>3. ASSUME NEW i \in DOMAIN ticks', NEW j \in DOMAIN ticks', ticks'[i].window = ticks'[j].window
          PROVE  i = j
      <4>1. CASE i # n /\ j # n
        BY <2>7, <2>9, <3>3, <4>1 DEF BeatsInv, LedgerKept
      <4>2. CASE i = n \/ j = n
        BY <2>1, <2>7, <2>9, <3>2, <3>3, <4>2
      <4> QED
        BY <4>1, <4>2
    <3> QED
      BY <3>1, <3>3 DEF LedgerKept, Ticked
  \* Whoever else is at work has an older tick, of another window.
  <2>14. ASSUME NEW q \in Replica, NEW t \in Turn, Begun(beat'[q][t]), q # p \/ t # s
         PROVE  /\ beat'[q][t] = beat[q][t] /\ Begun(beat[q][t])
                /\ beat[q][t].window # w
    <3>1. beat'[q][t] = beat[q][t]
      BY <2>6, <2>14 DEF Moved
    <3>2. PICK i \in DOMAIN ticks : ticks[i].window = beat[q][t].window
      BY <2>14, <3>1 DEF BeatsInv, TicksHeld
    <3> QED
      BY <1>3, <2>14, <3>1, <3>2 DEF Ticked
  <2>15. beat'[p][s] = b
    BY <2>6 DEF Moved
  <2>16. TicksHeld'
    <3>1. ASSUME NEW q \in Replica, NEW t \in Turn, Begun(beat'[q][t])
          PROVE  \E i \in DOMAIN ticks' : /\ ticks'[i].window = beat'[q][t].window
                                          /\ beat'[q][t].pc = "items" => ticks'[i].running
      <4>1. CASE q = p /\ t = s
        BY <2>1, <2>4, <2>7, <2>9, <2>15, <4>1
      <4>2. CASE q # p \/ t # s
        <5>1. PICK i \in DOMAIN ticks : /\ ticks[i].window = beat[q][t].window
                                        /\ beat[q][t].pc = "items" => ticks[i].running
          BY <2>14, <3>1, <4>2 DEF BeatsInv, TicksHeld
        <5>2. i \in DOMAIN ticks' /\ ticks'[i] = ticks[i] /\ beat'[q][t] = beat[q][t]
          BY <2>7, <2>8, <2>14, <3>1, <4>2
        <5> QED
          BY <5>1, <5>2
      <4> QED
        BY <4>1, <4>2
    <3>2. ASSUME NEW q \in Replica, NEW t \in Turn, NEW r \in Replica, NEW u \in Turn,
                 Begun(beat'[q][t]), Begun(beat'[r][u]), beat'[q][t].window = beat'[r][u].window
          PROVE  q = r /\ t = u
      <4>1. CASE (q # p \/ t # s) /\ (r # p \/ u # s)
        BY <2>14, <3>2, <4>1 DEF BeatsInv, TicksHeld
      <4>2. CASE q = p /\ t = s
        BY <2>4, <2>14, <2>15, <3>2, <4>2
      <4>3. CASE r = p /\ u = s
        BY <2>4, <2>14, <2>15, <3>2, <4>3
      <4> QED
        BY <4>1, <4>2, <4>3
    <3> QED
      BY <3>1, <3>2 DEF TicksHeld
  <2>17. LooksHold'
    <3> SUFFICES ASSUME NEW q \in Replica, NEW t \in Turn
                 PROVE  /\ beat'[q][t].pc \in {"busy", "claim"} => beat'[q][t].window \in Window
                        /\ beat'[q][t].pc = "claim" =>
                             /\ beat'[q][t].seen <= Len(ticks')
                             /\ ticks' # <<>> /\ beat'[q][t].seen = Len(ticks')
                                  => GivenUp(ticks'[Len(ticks')], clock')
      BY DEF LooksHold
    <3>1. CASE q = p /\ t = s
      BY <2>4, <2>15, <3>1
    <3>2. CASE q # p \/ t # s
      <4>1. beat'[q][t] = beat[q][t]
        BY <2>6, <3>2 DEF Moved
      <4>2. beat[q][t].seen \in Nat
        BY DEF BeatsInv, BeatsTypeOK
      <4>3. beat[q][t].pc = "claim" => beat[q][t].seen <= Len(ticks)
        BY DEF BeatsInv, LooksHold
      <4>4. beat[q][t].pc = "claim" => beat[q][t].seen <= Len(ticks') /\ beat[q][t].seen # Len(ticks')
        BY <2>7, <4>2, <4>3 DEF n
      <4> QED
        BY <4>1, <4>4 DEF BeatsInv, LooksHold
    <3> QED
      BY <3>1, <3>2
  <2>18. OlderAreStale'
    <3> SUFFICES ASSUME ~raced', NEW q \in Replica, NEW t \in Turn, NEW i \in DOMAIN ticks',
                        beat'[q][t].pc = "items", ticks'[i].window = beat'[q][t].window,
                        i # Len(ticks')
                 PROVE  clock' - ticks'[i].since >= Stale
      BY DEF OlderAreStale
    <3>1. ~raced /\ beat[p][s].seen = Len(ticks)
      BY <2>2
    <3>2. i \in DOMAIN ticks /\ ticks'[i] = ticks[i] /\ ticks[i].window # w
      BY <1>3, <2>7, <2>9 DEF Ticked
    <3>3. q # p \/ t # s
      BY <2>4, <2>15, <3>2
    <3>4. beat'[q][t] = beat[q][t]
      BY <2>6, <3>3 DEF Moved
    <3>5. CASE i # Len(ticks)
      BY <2>2, <3>1, <3>2, <3>4, <3>5 DEF BeatsInv, OlderAreStale
    <3>6. CASE i = Len(ticks)
      <4>1. GivenUp(ticks[i], clock)
        <5>1. ticks # <<>>
          BY <3>2, EmptySeq
        <5> QED
          BY <1>1, <3>1, <3>6, <5>1 DEF BeatsInv, LooksHold
      <4>2. PICK j \in DOMAIN ticks : /\ ticks[j].window = beat[q][t].window
                                      /\ beat[q][t].pc = "items" => ticks[j].running
        BY <3>4 DEF BeatsInv, TicksHeld, Begun
      <4>3. j = i
        BY <3>2, <3>4, <4>2 DEF BeatsInv, LedgerKept
      <4>4. ticks[i].running
        BY <3>4, <4>2, <4>3
      <4> QED
        BY <2>2, <3>2, <4>1, <4>4 DEF GivenUp
    <3> QED
      BY <3>5, <3>6
  <2> QED
    BY <2>11, <2>12, <2>13, <2>16, <2>17, <2>18 DEF BeatsInv
<1> QED
  BY <1>2, <1>3

LEMMA BeatsStep ==
  ASSUME BeatsInv, [BeatsNext]_beatsVars
  PROVE  BeatsInv'
<1>2. CASE NextMinute
  <2>1. clock' \in Minute /\ clock' >= clock
    BY <1>2, TimeAssumption DEF NextMinute, BeatsInv, BeatsTypeOK, Minute
  <2>2. JobsKept
    BY <1>2, JobSteps DEF NextMinute, BeatsInv
  <2> QED
    BY <1>2, <2>1, <2>2, OutsideKeeps DEF NextMinute
<1>3. clock \in Minute /\ clock >= clock
  BY DEF BeatsInv, BeatsTypeOK, Minute
<1>4. ASSUME NEW i \in DOMAIN jobs, SweepAgain(i) PROVE BeatsInv'
  <2>1. JobsKept
    BY <1>4, JobSteps DEF SweepAgain, Expire, BeatsInv
  <2> QED
    BY <1>3, <1>4, <2>1, OutsideKeeps DEF SweepAgain
<1>5. CASE UNCHANGED beatsVars
  <2>1. JobsKept
    BY <1>5, JobSteps DEF beatsVars, BeatsInv
  <2> QED
    BY <1>3, <1>5, <2>1, OutsideKeeps DEF beatsVars
<1>6. ASSUME NEW p \in Replica, NEW i \in DOMAIN jobs, TakeSweep(p, i) PROVE BeatsInv'
  BY <1>6, TakeSweepKeeps
<1>7. ASSUME NEW p \in Replica, Fire(p) \/ Due(p) \/ Press(p) \/ BeatsCrash(p) PROVE BeatsInv'
  BY <1>7, FireKeeps, DueKeeps, PressKeeps, BeatsCrashKeeps
<1>8. ASSUME NEW p \in Replica, NEW s \in Turn,
             Check(p, s) \/ ClaimTick(p, s) \/ Items(p, s) \/ SettleTick(p, s)
      PROVE  BeatsInv'
  BY <1>8, CheckKeeps, ClaimTickKeeps, ItemsKeeps, SettleTickKeeps
<1> QED
  BY <1>2, <1>4, <1>5, <1>6, <1>7, <1>8 DEF BeatsNext

\* The checklist of a window is worked through at most once, however often the
\* sweep of that minute is handed out, by however many replicas, whenever they
\* die (heartbeat.ts sweep, claimCrewHeartbeatTick).
THEOREM WindowsAreWorkedOnce == BeatsSpec => []WindowOnce
<1>1. BeatsInv => WindowOnce
  BY DEF BeatsInv, BeatsTypeOK, LedgerKept, WindowOnce
<1> QED
  BY <1>1, BeatsStart, BeatsStep, PTL DEF BeatsSpec

\* What a cron flow fired is in the memory of each replica: of the fires of the
\* minute on the clock, those that no replica remembers were forgotten in a
\* crash; of a minute to come there are none.
FiredIn(m) == {p \in Replica : fired[p] = m}
FiresInv ==
  /\ \A m \in Minute : m > clock => fires[m] = 0
  /\ fires[clock] <= Cardinality(FiredIn(clock)) + beatsCrashes
  /\ CronFiresAreFew

LEMMA ReplicasCount ==
  ASSUME NEW S, S \subseteq Replica
  PROVE  /\ IsFiniteSet(S) /\ Cardinality(S) \in Nat
         /\ Cardinality(Replica) \in Nat /\ Cardinality(S) <= Cardinality(Replica)
  BY ReplicasAssumption, FS_Subset, FS_CardinalityType

\* No flow is fired, and no replica forgets.
LEMMA NoFireKeeps ==
  ASSUME BeatsTypeOK, FiresInv, clock' = clock, UNCHANGED <<fired, fires, beatsCrashes>>
  PROVE  FiresInv'
  BY DEF FiresInv, FiredIn, CronFiresAreFew

LEMMA FireCounts ==
  ASSUME BeatsTypeOK, FiresInv, NEW p \in Replica, Fire(p)
  PROVE  FiresInv'
<1>1. CASE UNCHANGED <<fired, fires>>
  BY <1>1, NoFireKeeps DEF Fire
<1>2. CASE /\ fired[p] # clock
           /\ fired' = [fired EXCEPT ![p] = clock]
           /\ fires' = [fires EXCEPT ![clock] = @ + 1]
  <2> DEFINE before == FiredIn(clock)
             after == before \cup {p}
  <2>1. FiredIn(clock)' = after /\ p \notin before /\ after \subseteq Replica
    BY <1>2 DEF Fire, FiredIn, BeatsTypeOK
  <2>2. /\ Cardinality(after) = Cardinality(before) + 1
        /\ Cardinality(before) \in Nat
        /\ Cardinality(after) <= Cardinality(Replica) /\ Cardinality(Replica) \in Nat
    BY <2>1, ReplicasCount, FS_AddElement DEF FiredIn
  <2>3. clock \in Minute /\ clock \in Nat /\ beatsCrashes \in Nat /\ fires \in [Minute -> Nat]
    BY TimeAssumption DEF BeatsTypeOK, Minute
  <2>4. fires[clock] <= Cardinality(before) + beatsCrashes
    BY DEF FiresInv
  <2> HIDE DEF before, after
  <2>5. fires'[clock] <= Cardinality(after) + beatsCrashes
    BY <1>2, <2>2, <2>3, <2>4
  <2>6. \A m \in Minute : m > clock => fires'[m] = 0
    BY <1>2, <2>3 DEF FiresInv
  <2>7. \A m \in Minute : fires'[m] <= Cardinality(Replica) + beatsCrashes
    <3> SUFFICES ASSUME NEW m \in Minute PROVE fires'[m] <= Cardinality(Replica) + beatsCrashes
      OBVIOUS
    <3>1. CASE m = clock
      <4>1. fires'[clock] \in Int
        BY <1>2, <2>3
      <4> QED
        BY <2>2, <2>3, <2>5, <3>1, <4>1
    <3>2. CASE m # clock
      BY <1>2, <2>3, <3>2 DEF FiresInv, CronFiresAreFew
    <3> QED
      BY <3>1, <3>2
  <2>8. clock' = clock /\ beatsCrashes' = beatsCrashes
    BY DEF Fire
  <2> QED
    BY <2>1, <2>5, <2>6, <2>7, <2>8 DEF FiresInv, CronFiresAreFew
<1> QED
  BY <1>1, <1>2 DEF Fire

LEMMA CrashCounts ==
  ASSUME BeatsTypeOK, FiresInv, NEW p \in Replica, BeatsCrash(p)
  PROVE  FiresInv'
<1> DEFINE before == FiredIn(clock)
           after == FiredIn(clock)'
<1>1. after \subseteq Replica /\ before \subseteq after \cup {p}
  BY DEF BeatsCrash, FiredIn, BeatsTypeOK
<1>2. /\ IsFiniteSet(after) /\ Cardinality(after) \in Nat
      /\ Cardinality(before) \in Nat /\ Cardinality(Replica) \in Nat
  BY <1>1, ReplicasCount DEF FiredIn
<1>3. Cardinality(before) <= Cardinality(after) + 1
  <2>1. /\ IsFiniteSet(after \cup {p})
        /\ Cardinality(after \cup {p}) \in {Cardinality(after), Cardinality(after) + 1}
    BY <1>2, FS_AddElement
  <2>2. Cardinality(before) <= Cardinality(after \cup {p})
    BY <1>1, <2>1, FS_Subset
  <2> QED
    BY <1>2, <2>1, <2>2
<1>4. clock \in Minute /\ beatsCrashes \in Nat /\ fires \in [Minute -> Nat]
  BY TimeAssumption DEF BeatsTypeOK
<1>5. clock' = clock /\ fires' = fires /\ beatsCrashes' = beatsCrashes + 1
  BY DEF BeatsCrash
<1>6. fires[clock] <= Cardinality(before) + beatsCrashes
  BY DEF FiresInv
<1>7. \A m \in Minute : fires[m] <= Cardinality(Replica) + beatsCrashes
  BY DEF FiresInv, CronFiresAreFew
<1>8. \A m \in Minute : m > clock => fires[m] = 0
  BY DEF FiresInv
<1>9. FiredIn(clock)' = after
  OBVIOUS
<1> HIDE DEF before, after
<1>10. fires[clock] <= Cardinality(after) + (beatsCrashes + 1)
  BY <1>2, <1>3, <1>4, <1>6
<1>11. \A m \in Minute : fires[m] <= Cardinality(Replica) + (beatsCrashes + 1)
  BY <1>2, <1>4, <1>7
<1> QED
  BY <1>5, <1>8, <1>9, <1>10, <1>11 DEF FiresInv, CronFiresAreFew

LEMMA MinuteCounts ==
  ASSUME BeatsTypeOK, FiresInv, NextMinute
  PROVE  FiresInv'
<1>1. clock \in Minute /\ clock' \in Minute /\ clock \in Nat /\ clock' = clock + 1
  BY TimeAssumption DEF BeatsTypeOK, NextMinute, Minute
<1>2. fires' = fires /\ beatsCrashes' = beatsCrashes
  BY DEF NextMinute
<1>3. fires[clock'] = 0 /\ beatsCrashes \in Nat
  BY <1>1 DEF FiresInv, BeatsTypeOK
<1>4. Cardinality(FiredIn(clock)') \in Nat
  BY ReplicasCount DEF FiredIn
<1>5. \A m \in Minute : m > clock' => fires[m] = 0
  BY <1>1 DEF FiresInv, Minute
<1>6. fires[clock'] <= Cardinality(FiredIn(clock)') + beatsCrashes
  BY <1>3, <1>4
<1> QED
  BY <1>2, <1>5, <1>6 DEF FiresInv, CronFiresAreFew

\* However often the sweep of a minute is handed out, a cron flow fires once at
\* most in each replica, and once more for every crash in which a replica
\* forgot that it had (flows.ts runCronDue, cronFiredAt).
THEOREM CronFlowsFireFew == BeatsSpec => []CronFiresAreFew
<1>1. BeatsInv => BeatsTypeOK
  BY DEF BeatsInv
<1>2. BeatsInit => FiresInv
  <2> SUFFICES ASSUME BeatsInit PROVE FiresInv
    OBVIOUS
  <2>1. clock \in Minute /\ beatsCrashes = 0 /\ \A m \in Minute : fires[m] = 0
    BY TimeAssumption DEF BeatsInit, Minute
  <2>2. Cardinality(FiredIn(clock)) \in Nat /\ Cardinality(Replica) \in Nat
    BY ReplicasCount DEF FiredIn
  <2> QED
    BY <2>1, <2>2 DEF FiresInv, CronFiresAreFew
<1>3. BeatsTypeOK /\ FiresInv /\ [BeatsNext]_beatsVars => FiresInv'
  <2> SUFFICES ASSUME BeatsTypeOK, FiresInv, [BeatsNext]_beatsVars PROVE FiresInv'
    OBVIOUS
  <2>1. CASE NextMinute
    BY <2>1, MinuteCounts
  <2>2. ASSUME NEW p \in Replica, Fire(p) PROVE FiresInv'
    BY <2>2, FireCounts
  <2>3. ASSUME NEW p \in Replica, BeatsCrash(p) PROVE FiresInv'
    BY <2>3, CrashCounts
  <2>4. ASSUME NEW p \in Replica, NEW i \in DOMAIN jobs, TakeSweep(p, i) PROVE FiresInv'
    BY <2>4, NoFireKeeps DEF TakeSweep
  <2>5. ASSUME NEW p \in Replica, Due(p) \/ Press(p) PROVE FiresInv'
    BY <2>5, NoFireKeeps DEF Due, Press
  <2>6. ASSUME NEW p \in Replica, NEW s \in Turn,
               Check(p, s) \/ ClaimTick(p, s) \/ Items(p, s) \/ SettleTick(p, s)
        PROVE  FiresInv'
    BY <2>6, NoFireKeeps DEF Check, ClaimTick, Items, SettleTick
  <2>7. ASSUME NEW i \in DOMAIN jobs, SweepAgain(i) PROVE FiresInv'
    BY <2>7, NoFireKeeps DEF SweepAgain
  <2>8. CASE UNCHANGED beatsVars
    BY <2>8, NoFireKeeps DEF beatsVars
  <2> QED
    BY <2>1, <2>2, <2>3, <2>4, <2>5, <2>6, <2>7, <2>8 DEF BeatsNext
<1>4. FiresInv => CronFiresAreFew
  BY DEF FiresInv
<1> QED
  BY <1>1, <1>2, <1>3, <1>4, BeatsStart, BeatsStep, PTL DEF BeatsSpec

\* Two checklists of a crew run at the same time only if one was given up as
\* stale, or if a tick was claimed between a look at the ledger and the claim
\* that followed it (heartbeat.ts busy, sweep, runNow).
THEOREM OverlapsHaveACause == BeatsSpec => []OverlapIsExplained
<1>1. BeatsInv => OverlapIsExplained
  <2> SUFFICES ASSUME BeatsInv, ~raced, NEW p \in Replica, NEW s \in Turn,
                      NEW q \in Replica, NEW t \in Turn, q # p \/ t # s,
                      beat[p][s].pc = "items", beat[q][t].pc = "items"
               PROVE  IsStale(p, s) \/ IsStale(q, t)
    BY DEF OverlapIsExplained, Running
  <2>1. PICK i \in DOMAIN ticks : ticks[i].window = beat[p][s].window
    BY DEF BeatsInv, TicksHeld, Begun
  <2>2. PICK j \in DOMAIN ticks : ticks[j].window = beat[q][t].window
    BY DEF BeatsInv, TicksHeld, Begun
  <2>3. i # j
    BY <2>1, <2>2 DEF BeatsInv, TicksHeld, Begun
  <2> QED
    BY <2>1, <2>2, <2>3 DEF BeatsInv, OlderAreStale, IsStale
<1> QED
  BY <1>1, BeatsStart, BeatsStep, PTL DEF BeatsSpec

-----------------------------------------------------------------------------
(* Connector asks.                                                         *)
\* Calls that are out or about to go.
SpentYeses == callsOut + Cardinality(Leaving)

\* A yes that nobody spent is in memory, in the last write or in a row that has
\* it only while a yes is left for it; a stale one that was read back counts.
AsksInv ==
  /\ AsksTypeOK /\ IsFiniteSet(saves)
  /\ SpentYeses <= yeses + revived
  /\ ask = "approved" => SpentYeses + 1 <= yeses + revived
  /\ askRow.number = saved /\ askRow.status = "approved" => SpentYeses + 1 <= yeses + revived
  /\ \A w \in saves : w.number = saved /\ w.status = "approved" => SpentYeses + 1 <= yeses + revived

LEMMA LeavingIsFinite ==
  ASSUME IsFiniteSet(saves)
  PROVE  IsFiniteSet(Leaving) /\ Cardinality(Leaving) \in Nat
<1>1. Leaving \subseteq saves
  BY DEF Leaving
<1> QED
  BY <1>1, FS_Subset, FS_CardinalityType

\* What a write adds.
LEMMA SendSpends ==
  ASSUME AsksInv, NEW status \in AskState, NEW calling \in BOOLEAN, Send(status, calling),
         yeses' \in 0 .. MaxAnswers
  PROVE  /\ AsksTypeOK' /\ IsFiniteSet(saves')
         /\ SpentYeses \in Nat
         /\ SpentYeses' = IF calling THEN SpentYeses + 1 ELSE SpentYeses
         /\ \A w \in saves' : w.number = saved' => w.status = status
         /\ askRow' = askRow /\ askRow'.number # saved'
<1> DEFINE new == [number |-> saved + 1, status |-> status, calling |-> calling]
<1>1. /\ saves' = saves \cup {new} /\ saved' = saved + 1 /\ ask' = status
      /\ UNCHANGED <<askRow, gateUp, callsOut, revived>> /\ saved < MaxSaves
  BY DEF Send
<1>2. AsksTypeOK /\ saved \in Nat /\ IsFiniteSet(saves) /\ callsOut \in Nat
  BY DEF AsksInv, AsksTypeOK
<1>3. \A w \in saves : w.number <= saved
  BY <1>2 DEF AsksTypeOK
<1>4. new \notin saves
  BY <1>2, <1>3
<1>5. IsFiniteSet(saves')
  BY <1>1, <1>2, FS_AddElement
<1>6. AsksTypeOK'
  <2>1. saved' \in 0 .. MaxSaves /\ askRow' \in [number : 0 .. saved', status : AskState]
    BY <1>1, <1>2, AsksAssumption DEF AsksTypeOK
  <2>2. saves' \subseteq [number : 1 .. saved', status : AskState, calling : BOOLEAN]
    BY <1>1, <1>2 DEF AsksTypeOK
  <2> QED
    BY <1>1, <1>2, <2>1, <2>2 DEF AsksTypeOK
<1>7. IsFiniteSet(Leaving) /\ Cardinality(Leaving) \in Nat
  BY <1>2, LeavingIsFinite
<1>8. CASE calling
  <2>1. Leaving' = Leaving \cup {new} /\ new \notin Leaving
    BY <1>1, <1>4, <1>8 DEF Leaving
  <2>2. Cardinality(Leaving') = Cardinality(Leaving) + 1
    BY <1>7, <2>1, FS_AddElement
  <2>3. SpentYeses' = SpentYeses + 1
    BY <1>1, <1>2, <1>7, <2>2 DEF SpentYeses
  <2> QED
    BY <1>1, <1>2, <1>3, <1>5, <1>6, <1>7, <1>8, <2>3 DEF SpentYeses, AsksTypeOK
<1>9. CASE ~calling
  <2>1. Leaving' = Leaving
    BY <1>1, <1>9 DEF Leaving
  <2>2. SpentYeses' = SpentYeses
    BY <1>1, <2>1 DEF SpentYeses
  <2> QED
    BY <1>1, <1>2, <1>3, <1>5, <1>6, <1>7, <1>9, <2>2 DEF SpentYeses, AsksTypeOK
<1> QED
  BY <1>8, <1>9

LEMMA AsksStart == AsksInit => AsksInv
<1> SUFFICES ASSUME AsksInit PROVE AsksInv
  OBVIOUS
<1>1. saves = {} /\ Leaving = {}
  BY DEF AsksInit, Leaving
<1>2. IsFiniteSet(saves) /\ Cardinality(Leaving) = 0
  BY <1>1, FS_EmptySet
<1>3. AsksTypeOK
  <2>1. saved = 0 /\ yeses = 0 /\ callsOut = 0 /\ 0 \in 0 .. MaxSaves /\ 0 \in 0 .. MaxAnswers
    BY AsksAssumption DEF AsksInit
  <2>2. ask \in AskState /\ askRow \in [number : 0 .. 0, status : AskState]
    BY DEF AsksInit, AskState
  <2>3. gateUp \in BOOLEAN /\ revived \in 0 .. MaxRevivals
    BY AsksAssumption DEF AsksInit
  <2> QED
    BY <1>1, <2>1, <2>2, <2>3 DEF AsksTypeOK
<1>4. SpentYeses = 0
  BY <1>2 DEF AsksInit, SpentYeses
<1> QED
  BY <1>1, <1>2, <1>3, <1>4 DEF AsksInit, AsksInv

LEMMA AsksStep == AsksInv /\ [AsksNext]_asksVars => AsksInv'
<1> SUFFICES ASSUME AsksInv, [AsksNext]_asksVars PROVE AsksInv'
  OBVIOUS
<1>1. /\ AsksTypeOK /\ IsFiniteSet(saves) /\ callsOut \in Nat /\ yeses \in Nat /\ yeses \in 0 .. MaxAnswers
      /\ IsFiniteSet(Leaving) /\ Cardinality(Leaving) \in Nat /\ SpentYeses \in Nat
      /\ revived \in Nat
  BY LeavingIsFinite DEF AsksInv, AsksTypeOK, SpentYeses
<1>2. CASE LetOut
  <2>1. ask = "approved" /\ Send("consumed", TRUE) /\ yeses' = yeses /\ revived' = revived /\ ask' = "consumed"
    BY <1>2 DEF LetOut, Send
  <2>2. AsksTypeOK' /\ IsFiniteSet(saves') /\ SpentYeses' = SpentYeses + 1 /\ askRow'.number # saved'
        /\ \A w \in saves' : w.number = saved' => w.status = "consumed"
    BY <1>1, <2>1, SendSpends DEF AskState
  <2> QED
    BY <1>1, <2>1, <2>2 DEF AsksInv
<1>3. CASE AnswerYes
  <2>1. Send("approved", FALSE) /\ yeses' = yeses + 1 /\ revived' = revived /\ ask' = "approved"
        /\ yeses' \in 0 .. MaxAnswers
    BY <1>1, <1>3, AsksAssumption DEF AnswerYes, Send
  <2>2. AsksTypeOK' /\ IsFiniteSet(saves') /\ SpentYeses' = SpentYeses
    BY <2>1, SendSpends DEF AskState, Settled
  <2> QED
    BY <1>1, <2>1, <2>2 DEF AsksInv
<1>4. ASSUME NEW status \in AskState \ {"approved"}, Send(status, FALSE), yeses' = yeses
      PROVE  AsksInv'
  <2>1. revived' = revived /\ ask' = status
    BY <1>4 DEF Send
  <2>2. AsksTypeOK' /\ IsFiniteSet(saves') /\ SpentYeses' = SpentYeses /\ askRow'.number # saved'
        /\ \A w \in saves' : w.number = saved' => w.status = status
    BY <1>1, <1>4, SendSpends
  <2> QED
    BY <1>1, <1>4, <2>1, <2>2 DEF AsksInv
<1>5. CASE PostQuestion \/ Refuse \/ CloseAsk
  BY <1>4, <1>5 DEF PostQuestion, Refuse, CloseAsk, Shut, Settled, AskState
<1>6. CASE Resend
  <2>1. Send(ask, FALSE) /\ yeses' = yeses /\ revived' = revived /\ ask' = ask /\ ask \in AskState
    BY <1>1, <1>6 DEF Resend, Send, AsksTypeOK
  <2>2. AsksTypeOK' /\ IsFiniteSet(saves') /\ SpentYeses' = SpentYeses /\ askRow'.number # saved'
        /\ \A w \in saves' : w.number = saved' => w.status = ask
    BY <1>1, <2>1, SendSpends
  <2> QED
    BY <1>1, <2>1, <2>2 DEF AsksInv
<1>7. ASSUME NEW w \in saves, SaveAnswers(w) PROVE AsksInv'
  <2>1. /\ saves' = saves \ {w} /\ UNCHANGED <<ask, saved, gateUp, yeses, revived>>
        /\ callsOut' = IF w.calling THEN callsOut + 1 ELSE callsOut
        /\ askRow' = [number |-> w.number, status |-> w.status] \/ askRow' = askRow
    BY <1>7 DEF SaveAnswers
  <2>2. w \in [number : 1 .. saved, status : AskState, calling : BOOLEAN] /\ saved \in Nat
    BY <1>1 DEF AsksTypeOK
  <2>3. IsFiniteSet(saves')
    BY <1>1, <2>1, FS_RemoveElement
  <2>4. AsksTypeOK'
    <3>1. askRow' \in [number : 0 .. saved', status : AskState]
      BY <1>1, <2>1, <2>2 DEF AsksTypeOK
    <3> QED
      BY <1>1, <2>1, <2>2, <3>1 DEF AsksTypeOK
  <2>5. SpentYeses' = SpentYeses
    <3>1. CASE w.calling
      <4>1. Leaving' = Leaving \ {w} /\ w \in Leaving
        BY <2>1, <3>1 DEF Leaving
      <4>2. Cardinality(Leaving') = Cardinality(Leaving) - 1
        BY <1>1, <4>1, FS_RemoveElement
      <4> QED
        BY <1>1, <2>1, <3>1, <4>2 DEF SpentYeses
    <3>2. CASE ~w.calling
      <4>1. Leaving' = Leaving
        BY <2>1, <3>2 DEF Leaving
      <4> QED
        BY <2>1, <3>2, <4>1 DEF SpentYeses
    <3> QED
      BY <3>1, <3>2
  <2> QED
    BY <1>1, <2>1, <2>2, <2>3, <2>4, <2>5 DEF AsksInv
<1>8. CASE GateStops
  <2>1. /\ saves' = {[w EXCEPT !.calling = FALSE] : w \in saves} /\ ask' = "none" /\ gateUp' = FALSE
        /\ UNCHANGED <<askRow, saved, yeses, callsOut, revived>>
    BY <1>8 DEF GateStops
  <2>2. \A w \in saves' : w \in [number : 1 .. saved, status : AskState, calling : BOOLEAN] /\ ~w.calling
        /\ \E v \in saves : v.number = w.number /\ v.status = w.status
    BY <1>1, <2>1 DEF AsksTypeOK
  <2>3. IsFiniteSet(saves')
    <3> DEFINE f == [w \in saves |-> [w EXCEPT !.calling = FALSE]]
    <3>1. f \in Surjection(saves, saves')
      BY <2>1 DEF Surjection
    <3> QED
      BY <1>1, <3>1, FS_Surjection
  <2>4. Leaving' = {}
    BY <2>2 DEF Leaving
  <2>5. SpentYeses' <= SpentYeses /\ SpentYeses' \in Nat
    BY <1>1, <2>1, <2>4, FS_EmptySet DEF SpentYeses
  <2>6. AsksTypeOK'
    BY <1>1, <2>1, <2>2 DEF AsksTypeOK, AskState
  <2> QED
    BY <1>1, <2>1, <2>2, <2>3, <2>5, <2>6 DEF AsksInv
<1>9. CASE GateStarts
  <2>1. /\ \/ ask' = askRow.status /\ revived' = IF StaleYes THEN revived + 1 ELSE revived
           \/ ask' = ask /\ revived' = revived
        /\ revived' \in 0 .. MaxRevivals
        /\ UNCHANGED <<askRow, saves, saved, yeses, callsOut>> /\ gateUp' = TRUE
    BY <1>1, <1>9 DEF GateStarts, AsksTypeOK
  <2>2. Leaving' = Leaving /\ SpentYeses' = SpentYeses
    BY <2>1 DEF Leaving, SpentYeses
  <2>3. AsksTypeOK'
    BY <1>1, <2>1 DEF AsksTypeOK
  <2>4. CASE revived' = revived
    BY <1>1, <2>1, <2>2, <2>3, <2>4 DEF AsksInv, StaleYes
  <2>5. CASE revived' # revived
    <3>1. revived' = revived + 1 /\ SpentYeses + 1 <= yeses' + revived'
      BY <1>1, <2>1, <2>5 DEF AsksInv
    <3> QED
      BY <1>1, <2>1, <2>2, <2>3, <3>1 DEF AsksInv
  <2> QED
    BY <2>4, <2>5
<1>10. CASE UNCHANGED asksVars
  <2>1. Leaving' = Leaving /\ SpentYeses' = SpentYeses
    BY <1>10 DEF asksVars, Leaving, SpentYeses
  <2> QED
    BY <1>10, <2>1 DEF asksVars, AsksInv, AsksTypeOK
<1> QED
  BY <1>2, <1>3, <1>5, <1>6, <1>7, <1>8, <1>9, <1>10 DEF AsksNext

\* However often a write is reached again, however its records land, are lost or
\* are overtaken, and whatever the restarts, the calls that go out are no more
\* than the yeses given and the stale yeses that restarts read back.
THEOREM YesReleasesOneCall == AsksSpec => []OneYesOneCall
<1>1. AsksInv => OneYesOneCall
  BY DEF AsksInv, SpentYeses, OneYesOneCall
<1> QED
  BY <1>1, AsksStart, AsksStep, PTL DEF AsksSpec

-----------------------------------------------------------------------------
(* Agent controls.                                                         *)
\* A write that was sent with or after the last command on a field has it, out or
\* landed, while the memory does.
ControlsInv ==
  /\ ControlsTypeOK
  /\ WishesStand
  /\ \A f \in Field \ undone : \A w \in writes : w.number >= since[f] => w.control[f] = wish[f]
  /\ \A f \in Field : since[f] = 0 => wish[f] = Nothing[f]

LEMMA ControlsStart == ControlsInit => ControlsInv
<1> SUFFICES ASSUME ControlsInit PROVE ControlsInv
  OBVIOUS
<1>1. Nothing \in AgentControl
  BY DEF Nothing, AgentControl
<1>2. issued \in 0 .. MaxWrites
  BY ControlsAssumption DEF ControlsInit
<1>3. ControlsTypeOK
  BY <1>1, <1>2 DEF ControlsInit, ControlsTypeOK
<1> QED
  BY <1>3 DEF ControlsInit, ControlsInv, WishesStand

LEMMA CommandKept ==
  ASSUME ControlsInv, serving, NEW f \in Field, NEW control \in AgentControl,
         \A g \in Field \ {f} : control[g] = standing[g],
         Commanded(f, control)
  PROVE  ControlsInv'
<1> DEFINE new == [number |-> issued + 1, control |-> control]
<1>1. /\ standing' = control /\ issued' = issued + 1 /\ writes' = writes \cup {new}
      /\ wish' = [wish EXCEPT ![f] = control[f]] /\ undone' = undone \ {f}
      /\ since' = [since EXCEPT ![f] = issued + 1]
      /\ issued < MaxWrites /\ UNCHANGED <<serving, stored>>
  BY DEF Commanded, Persist
<1>2. /\ ControlsTypeOK /\ issued \in Nat /\ wish \in AgentControl /\ standing \in AgentControl
      /\ since \in [Field -> Nat] /\ stored.number \in 0 .. issued
  BY DEF ControlsInv, ControlsTypeOK
<1>3. wish' \in AgentControl /\ wish'[f] = control[f] /\ \A g \in Field \ {f} : wish'[g] = wish[g]
  BY <1>1, <1>2 DEF AgentControl, Field
<1>4. issued' \in 0 .. MaxWrites
  BY <1>1, <1>2, ControlsAssumption
<1>5. writes' \subseteq [number : 1 .. issued', control : AgentControl]
  BY <1>1, <1>2 DEF ControlsTypeOK
<1>6. since' \in [Field -> Nat] /\ since'[f] = issued + 1 /\ \A g \in Field \ {f} : since'[g] = since[g]
  BY <1>1, <1>2
<1>7. ControlsTypeOK'
  BY <1>1, <1>2, <1>3, <1>4, <1>5, <1>6 DEF ControlsTypeOK
<1>8. ASSUME NEW g \in Field \ undone'
      PROVE  /\ control[g] = wish'[g]
             /\ stored.number >= since'[g] => stored.control[g] = wish'[g]
             /\ \A w \in writes : w.number >= since'[g] => w.control[g] = wish'[g]
  <2>1. CASE g = f
    <3>1. ~(stored.number >= since'[g]) /\ \A w \in writes : ~(w.number >= since'[g])
      BY <1>2, <1>6, <2>1 DEF ControlsTypeOK
    <3> QED
      BY <1>3, <2>1, <3>1
  <2>2. CASE g # f
    <3>1. g \notin undone /\ g \in Field \ {f}
      BY <1>1, <1>8, <2>2
    <3>2. wish'[g] = wish[g] /\ since'[g] = since[g] /\ control[g] = standing[g]
      BY <1>3, <1>6, <3>1
    <3> QED
      BY <3>1, <3>2 DEF ControlsInv, WishesStand
  <2> QED
    BY <2>1, <2>2
<1>9. WishesStand'
  BY <1>1, <1>8 DEF WishesStand
<1>10. \A g \in Field \ undone' : \A w \in writes' : w.number >= since'[g] => w.control[g] = wish'[g]
  <2>1. \A w \in writes' : w \in writes \/ w.control = control
    BY <1>1
  <2> QED
    BY <1>8, <2>1
<1>11. \A g \in Field : since'[g] = 0 => wish'[g] = Nothing[g]
  BY <1>2, <1>3, <1>6 DEF ControlsInv
<1> QED
  BY <1>7, <1>9, <1>10, <1>11 DEF ControlsInv

LEMMA ControlsStep == ControlsInv /\ [ControlsNext]_controlsVars => ControlsInv'
<1> SUFFICES ASSUME ControlsInv, [ControlsNext]_controlsVars PROVE ControlsInv'
  OBVIOUS
<1>1. /\ ControlsTypeOK /\ issued \in Nat /\ wish \in AgentControl /\ standing \in AgentControl
      /\ stored \in [number : 0 .. issued, control : AgentControl]
      /\ since \in [Field -> Nat] /\ undone \subseteq Field
  BY DEF ControlsInv, ControlsTypeOK
<1>2. CASE PauseGate /\ standing.paused
  <2>1. /\ wish' = [wish EXCEPT !.paused = TRUE] /\ undone' = undone \ {"paused"}
        /\ since' = IF "paused" \in undone THEN [since EXCEPT !["paused"] = issued + 1] ELSE since
        /\ UNCHANGED <<serving, standing, stored, writes, issued>> /\ serving
    BY <1>2 DEF PauseGate
  <2>2. wish' \in AgentControl /\ wish'["paused"] = TRUE /\ wish'["brief"] = wish["brief"]
    BY <1>1, <2>1 DEF AgentControl
  <2>3. standing["paused"] = TRUE
    BY <1>1, <1>2 DEF AgentControl
  <2>4. since' \in [Field -> Nat] /\ since'["brief"] = since["brief"]
    BY <1>1, <2>1 DEF Field
  <2>5. ControlsTypeOK'
    BY <1>1, <2>1, <2>2, <2>4 DEF ControlsTypeOK
  <2>6. CASE "paused" \in undone
    <3>1. since'["paused"] = issued + 1
      BY <1>1, <2>1, <2>6 DEF Field
    <3>2. ~(stored.number >= since'["paused"]) /\ \A w \in writes : ~(w.number >= since'["paused"])
      BY <1>1, <3>1 DEF ControlsTypeOK
    <3>3. WishesStand'
      <4>1. ASSUME NEW f \in Field \ undone'
            PROVE  /\ serving => standing[f] = wish'[f]
                   /\ stored.number >= since'[f] => stored.control[f] = wish'[f]
        <5>1. CASE f = "paused"
          BY <2>2, <2>3, <3>2, <5>1
        <5>2. CASE f = "brief"
          <6>1. f \in Field \ undone
            BY <2>1, <4>1, <5>2
          <6>2. wish'[f] = wish[f] /\ since'[f] = since[f]
            BY <2>2, <2>4, <5>2
          <6> QED
            BY <6>1, <6>2 DEF ControlsInv, WishesStand
        <5> QED
          BY <4>1, <5>1, <5>2 DEF Field
      <4> QED
        BY <2>1, <4>1 DEF WishesStand
    <3>4. \A f \in Field \ undone' : \A w \in writes' : w.number >= since'[f] => w.control[f] = wish'[f]
      <4> SUFFICES ASSUME NEW f \in Field \ undone', NEW w \in writes, w.number >= since'[f]
                   PROVE  w.control[f] = wish'[f]
        BY <2>1
      <4>1. f # "paused"
        BY <3>2
      <4>2. f = "brief" /\ f \in Field \ undone
        BY <2>1, <4>1 DEF Field
      <4>3. wish'[f] = wish[f] /\ since'[f] = since[f]
        BY <2>2, <2>4, <4>2
      <4> QED
        BY <4>2, <4>3 DEF ControlsInv
    <3>5. \A f \in Field : since'[f] = 0 => wish'[f] = Nothing[f]
      <4>1. issued + 1 # 0
        BY <1>1
      <4>2. since'["paused"] # 0
        BY <3>1, <4>1
      <4>3. since["brief"] = 0 => wish["brief"] = Nothing["brief"]
        BY DEF ControlsInv, Field
      <4> QED
        BY <2>2, <2>4, <4>2, <4>3 DEF Field
    <3> QED
      BY <2>5, <3>3, <3>4, <3>5 DEF ControlsInv
  <2>7. CASE "paused" \notin undone
    <3>1. wish["paused"] = TRUE
      BY <2>1, <2>3, <2>7 DEF ControlsInv, WishesStand, Field
    <3>2. (\A f \in Field : wish'[f] = wish[f]) /\ since' = since /\ undone' = undone
      BY <2>1, <2>2, <2>7, <3>1 DEF Field
    <3> QED
      BY <2>1, <2>5, <3>2 DEF ControlsInv, WishesStand
  <2> QED
    BY <2>6, <2>7
<1>3. CASE (PauseGate /\ ~standing.paused) \/ ResumeGate
  <2>1. PICK b \in BOOLEAN : serving /\ Commanded("paused", [standing EXCEPT !.paused = b])
    BY <1>3 DEF PauseGate, ResumeGate
  <2>2. [standing EXCEPT !.paused = b] \in AgentControl
        /\ \A g \in Field \ {"paused"} : [standing EXCEPT !.paused = b][g] = standing[g]
    BY <1>1 DEF AgentControl, Field
  <2> QED
    BY <2>1, <2>2, CommandKept DEF Field
<1>4. ASSUME NEW b \in Directive \cup {NoBrief}, SetBrief(b) PROVE ControlsInv'
  <2>1. [standing EXCEPT !.brief = b] \in AgentControl
        /\ \A g \in Field \ {"brief"} : [standing EXCEPT !.brief = b][g] = standing[g]
    BY <1>1 DEF AgentControl, Field
  <2> QED
    BY <1>4, <2>1, CommandKept DEF SetBrief, Field
<1>5. ASSUME NEW w \in writes, SaveLands(w) PROVE ControlsInv'
  <2>1. /\ stored' = w /\ writes' = writes \ {w}
        /\ UNCHANGED <<serving, standing, issued, wish, since, undone>>
    BY <1>5 DEF SaveLands
  <2>2. ControlsTypeOK'
    <3>1. stored' \in [number : 0 .. issued, control : AgentControl]
      BY <1>1, <2>1 DEF ControlsTypeOK
    <3> QED
      BY <1>1, <2>1, <3>1 DEF ControlsTypeOK
  <2> QED
    BY <2>1, <2>2 DEF ControlsInv, WishesStand
<1>6. ASSUME NEW w \in writes, SaveLost(w) PROVE ControlsInv'
  <2>1. /\ writes' = writes \ {w}
        /\ UNCHANGED <<serving, standing, stored, issued, wish, since, undone>>
    BY <1>6 DEF SaveLost
  <2>2. ControlsTypeOK'
    BY <1>1, <2>1 DEF ControlsTypeOK
  <2> QED
    BY <2>1, <2>2 DEF ControlsInv, WishesStand
<1>7. CASE ProcessStops
  <2>1. /\ serving' = FALSE /\ standing' = Nothing /\ Nothing \in AgentControl
        /\ UNCHANGED <<stored, writes, issued, wish, since, undone>>
    BY <1>7 DEF ProcessStops, Nothing, AgentControl
  <2>2. ControlsTypeOK'
    BY <1>1, <2>1 DEF ControlsTypeOK
  <2> QED
    BY <2>1, <2>2 DEF ControlsInv, WishesStand
<1>8. CASE Hydrate
  <2>1. Nothing \in AgentControl /\ stored.control \in AgentControl
    BY <1>1 DEF Nothing, AgentControl
  <2>2. serving' = TRUE /\ UNCHANGED <<stored, writes, issued, wish, since>>
    BY <1>8 DEF Hydrate
  <2>3. CASE standing' = stored.control /\ undone' = undone \cup {f \in Field : since[f] > stored.number}
    <3>1. ControlsTypeOK'
      BY <1>1, <2>1, <2>2, <2>3 DEF ControlsTypeOK
    <3>2. \A f \in Field \ undone' : f \in Field \ undone /\ stored.number >= since[f]
      BY <1>1, <2>3
    <3> QED
      BY <2>2, <2>3, <3>1, <3>2 DEF ControlsInv, WishesStand
  <2>4. CASE standing' = Nothing /\ undone' = undone \cup {f \in Field : since[f] > 0}
    <3>1. ControlsTypeOK'
      BY <1>1, <2>1, <2>2, <2>4 DEF ControlsTypeOK
    <3>2. \A f \in Field \ undone' : f \in Field \ undone /\ since[f] = 0
      BY <1>1, <2>4
    <3> QED
      BY <2>2, <2>4, <3>1, <3>2 DEF ControlsInv, WishesStand
  <2> QED
    BY <1>8, <2>3, <2>4 DEF Hydrate
<1>9. CASE UNCHANGED controlsVars
  BY <1>9 DEF controlsVars, ControlsInv, ControlsTypeOK, WishesStand
<1> QED
  BY <1>2, <1>3, <1>4, <1>5, <1>6, <1>7, <1>8, <1>9 DEF ControlsNext, Saves

\* Whatever is commanded, and however its writes land, overtake one another or
\* are lost, memory and row hold the last command on each field, the row from the
\* first write that carries it, until a restart reads a row from before it.
THEOREM CommandsStand == ControlsSpec => []WishesStand
<1>1. ControlsInv => WishesStand
  BY DEF ControlsInv
<1> QED
  BY <1>1, ControlsStart, ControlsStep, PTL DEF ControlsSpec

-----------------------------------------------------------------------------
(* Agent keys.                                                             *)
\* A key and the id it is believed to have are the same, or both are known to be
\* mistaken.
Match(k, i) == k # i => k \in confused /\ i \in confused

\* A key in a slot, or on its way there, is a session of that slot.
SlotKey(k, i, slot) ==
  k \in DOMAIN session /\ i \in SessionId /\ session[k].slot = slot /\ Match(k, i)

\* What a call in progress may rely on.
BootInv(c) ==
  /\ caller[c].at \in {"simulate", "write"} => caller[c].valid /\ caller[c].job = "boot"
  /\ Doing(c, "write") => caller[c].id \in SessionId
  /\ caller[c].at \in {"fund", "save"} => SlotKey(caller[c].key, caller[c].id, caller[c].slot)
  /\ Doing(c, "fund") => caller[c].key \in Live \cup confused
RevokeInv(c) ==
  /\ caller[c].at \in {"revoke", "settle"} => caller[c].todo \subseteq DOMAIN session
  /\ Doing(c, "settle") => caller[c].id \in DOMAIN session /\ ~session[caller[c].id].live
PauseInv(c) ==
  caller[c].job = "pause" /\ caller[c].valid =>
    /\ standing.paused
    /\ \/ Doing(c, "list")
       \/ /\ caller[c].at \in {"revoke", "settle"}
          /\ Live \subseteq caller[c].todo \cup caller[c].failed \cup slipped

KeysInv ==
  /\ ControlsInv /\ KeysTypeOK
  /\ \A c \in Operation : ~Doing(c, "idle") => serving
  /\ \A c \in Operation : BootInv(c)
  /\ \A c \in Operation : RevokeInv(c)
  /\ \A c \in Operation : PauseInv(c)
  /\ serving /\ answered => standing.paused
  /\ answered => Live \subseteq named \cup slipped
  /\ \A s \in Slot : held[s].id # 0 \/ held[s].usable => SlotKey(held[s].key, held[s].id, s)
  /\ \A i \in SessionId : sessionRow[i].key # 0 => Match(sessionRow[i].key, i)
  /\ HeldKeysAreLive

LEMMA RestIsTyped == AtRest \in CallerType /\ AtRest.at = "idle" /\ AtRest.job = "none"
<1>1. (CHOOSE s \in Slot : TRUE) \in Slot /\ (CHOOSE s \in Scopes : TRUE) \in Scopes
  BY KeysAssumption
<1> QED
  BY <1>1, KeysAssumption DEF AtRest, CallerType, Stage, Errand

LEMMA KeysStart == KeysInit => KeysInv
<1> SUFFICES ASSUME KeysInit PROVE KeysInv
  OBVIOUS
<1>1. ControlsInv
  BY ControlsStart DEF KeysInit
<1>2. Live = {} /\ DOMAIN session = {} /\ Len(session) = 0 /\ 0 \in 0 .. MaxSessions
  BY KeysAssumption DEF KeysInit, Live
<1>3. \A c \in Operation : caller[c] = AtRest
  BY DEF KeysInit
<1>4. \A s \in Slot : held[s] = NoKey
  BY DEF KeysInit
<1>5. \A i \in SessionId : sessionRow[i] = NoSessionRow
  BY DEF KeysInit
<1>6. KeysTypeOK
  <2>1. session \in Seq([slot : Slot, scopes : Scopes, live : BOOLEAN])
    BY DEF KeysInit
  <2>2. held \in [Slot -> [key : 0 .. Len(session), id : 0 .. MaxSessions, usable : BOOLEAN]]
    BY <1>2 DEF KeysInit, NoKey
  <2>3. sessionRow \in [SessionId -> [key : 0 .. Len(session), active : BOOLEAN]]
    BY <1>2 DEF KeysInit, NoSessionRow
  <2>4. caller \in [Operation -> CallerType]
    BY RestIsTyped DEF KeysInit
  <2>5. Len(session) <= MaxSessions /\ named = {} /\ slipped = {} /\ confused = {}
    BY <1>2 DEF KeysInit
  <2>7. answered \in BOOLEAN
    BY DEF KeysInit
  <2>6. /\ \A s \in Slot : held[s].usable => held[s].key # 0
        /\ \A i \in SessionId : sessionRow[i].active => sessionRow[i].key # 0
    BY <1>4, <1>5 DEF NoKey, NoSessionRow
  <2> QED
    BY <2>1, <2>2, <2>3, <2>4, <2>5, <2>6, <2>7 DEF KeysTypeOK
<1>7. \A c \in Operation : Doing(c, "idle") /\ BootInv(c) /\ RevokeInv(c) /\ PauseInv(c)
  BY <1>3, RestIsTyped DEF Doing, BootInv, RevokeInv, PauseInv
<1> QED
  BY <1>1, <1>2, <1>4, <1>5, <1>6, <1>7 DEF KeysInit, KeysInv, HeldKeysAreLive, NoKey, NoSessionRow

\* Sessions keep their slot, and mistakes stay known.
LEMMA SlotKeyKept ==
  ASSUME DOMAIN session \subseteq DOMAIN session', confused \subseteq confused',
         \A k \in DOMAIN session : session'[k].slot = session[k].slot,
         NEW k, NEW i, NEW s, SlotKey(k, i, s)
  PROVE  SlotKey(k, i, s)'
BY DEF SlotKey, Match

\* One caller goes on, and nothing else changes.
LEMMA CallerMoves ==
  ASSUME KeysInv, NEW c \in Operation, NEW t \in CallerType, Turns(c, t),
         UNCHANGED <<controlsVars, chainVars, held, sessionRow, historyVars>>,
         ~Doing(c, "settle"), t.at # "settle", t.at # "idle" => serving,
         t.at \in {"simulate", "write"} => t.valid /\ t.job = "boot",
         t.at = "write" => t.id \in SessionId,
         t.at \notin {"fund", "save"},
         t.at = "revoke" => t.todo \subseteq DOMAIN session,
         t.job = "pause" /\ t.valid =>
           /\ standing.paused
           /\ t.at = "list" \/ (t.at = "revoke" /\ Live \subseteq t.todo \cup t.failed \cup slipped)
  PROVE  KeysInv'
<1>1. /\ caller' = [caller EXCEPT ![c] = t] /\ caller \in [Operation -> CallerType]
      /\ UNCHANGED <<serving, standing, session, held, sessionRow, answered, named, slipped, confused>>
  BY DEF Turns, KeysInv, KeysTypeOK, controlsVars, chainVars, historyVars
<1>2. ControlsInv'
  BY ControlsStep DEF KeysInv
<1>3. caller'[c] = t /\ \A d \in Operation \ {c} : caller'[d] = caller[d]
  BY <1>1
<1>4. KeysTypeOK'
  BY <1>1 DEF KeysInv, KeysTypeOK
<1>5. Live' = Live
  BY <1>1 DEF Live
<1>6. ASSUME NEW d \in Operation
      PROVE  (~Doing(d, "idle") => serving)' /\ BootInv(d)' /\ RevokeInv(d)' /\ PauseInv(d)'
  <2>1. CASE d = c
    BY <1>1, <1>3, <1>5, <2>1 DEF BootInv, RevokeInv, PauseInv, Doing
  <2>2. CASE d # c
    BY <1>1, <1>3, <1>5, <2>2 DEF KeysInv, BootInv, RevokeInv, PauseInv, Doing, SlotKey, Match
  <2> QED
    BY <2>1, <2>2
<1>7. HeldKeysAreLive'
  <2>1. \A d \in Operation : Doing(d, "settle") => caller'[d] = caller[d]
    BY <1>3
  <2> QED
    BY <1>1, <1>5, <2>1 DEF KeysInv, HeldKeysAreLive, Doing
<1> QED
  BY <1>1, <1>2, <1>4, <1>5, <1>6, <1>7 DEF KeysInv, SlotKey, Match

\* Calls that only go on.
LEMMA CallersGoOn ==
  ASSUME KeysInv, NEW c \in Operation,
         \/ \E s \in Slot, w \in Scopes : AskBoot(c, s, w)
         \/ Simulate(c) \/ BootFails(c)
         \/ \E i \in SessionId : AskRevoke(c, i) \/ AskRotate(c, i) \/ RevokeFails(c, i)
         \/ RevokeEnds(c) \/ ListSessions(c)
  PROVE  KeysInv'
<1>1. /\ caller[c] \in CallerType /\ BootInv(c) /\ RevokeInv(c) /\ PauseInv(c)
      /\ ~Doing(c, "idle") => serving
      /\ Live \subseteq DOMAIN session /\ DOMAIN session = 1 .. Len(session)
      /\ Len(session) \in Nat /\ Len(session) <= MaxSessions /\ MaxSessions \in Nat
      /\ session \in Seq([slot : Slot, scopes : Scopes, live : BOOLEAN])
  BY KeysAssumption DEF KeysInv, KeysTypeOK, Live
<1>2. DOMAIN session \subseteq SessionId
  BY <1>1 DEF SessionId
<1>3. ASSUME Turns(c, AtRest), ~Doing(c, "settle"),
             UNCHANGED <<controlsVars, chainVars, held, sessionRow, historyVars>>
      PROVE  KeysInv'
  BY <1>3, CallerMoves, RestIsTyped
<1>4. ASSUME NEW s \in Slot, NEW w \in Scopes, MayBoot(s, w), Turns(c, Booting(s, w)), serving,
             ~Doing(c, "settle"),
             UNCHANGED <<controlsVars, chainVars, held, sessionRow, historyVars>>
      PROVE  KeysInv'
  <2>1. Booting(s, w) \in CallerType /\ Booting(s, w).at = "simulate" /\ Booting(s, w).job = "boot"
        /\ Booting(s, w).valid
    BY <1>4, RestIsTyped DEF Booting, CallerType, MayBoot, Stage, Errand, AtRest
  <2> QED
    BY <1>4, <2>1, CallerMoves
<1>5. ASSUME NEW s \in Slot, NEW w \in Scopes, AskBoot(c, s, w) PROVE KeysInv'
  BY <1>4, <1>5 DEF AskBoot, Doing
<1>6. CASE Simulate(c)
  <2> DEFINE t == [caller[c] EXCEPT !.at = "write", !.id = Len(session) + 1]
  <2>1. t \in CallerType /\ t.at = "write" /\ t.id \in SessionId /\ t.valid /\ t.job = "boot"
    <3>1. Len(session) + 1 \in 1 .. MaxSessions /\ Len(session) + 1 \in 0 .. MaxSessions
      BY <1>1, <1>6 DEF Simulate
    <3>2. t \in CallerType
      BY <1>1, <3>1 DEF CallerType, Stage
    <3> QED
      BY <1>1, <1>6, <3>1, <3>2 DEF Simulate, SessionId, BootInv, Doing, CallerType
  <2> QED
    BY <1>1, <1>6, <2>1, CallerMoves DEF Simulate, Doing
<1>7. CASE BootFails(c)
  BY <1>3, <1>7 DEF BootFails, Doing
<1>8. ASSUME NEW i \in SessionId, AskRevoke(c, i) \/ AskRotate(c, i) PROVE KeysInv'
  <2>1. PICK t : /\ Turns(c, t) /\ t.at = "revoke" /\ t.job \in {"revoke", "rotate"}
                /\ t \in CallerType /\ t.todo = {i}
    <3> DEFINE t1 == [AtRest EXCEPT !.at = "revoke", !.job = "revoke", !.todo = {i}]
    <3> DEFINE t2 == [AtRest EXCEPT !.at = "revoke", !.job = "rotate", !.todo = {i},
                                   !.slot = session[i].slot, !.scopes = session[i].scopes]
    <3>1. CASE AskRevoke(c, i)
      <4>1. t1 \in CallerType /\ t1.at = "revoke" /\ t1.job = "revoke" /\ t1.todo = {i}
        BY RestIsTyped DEF CallerType, Stage, Errand
      <4> QED
        BY <3>1, <4>1 DEF AskRevoke
    <3>2. CASE AskRotate(c, i)
      <4>1. session[i] \in [slot : Slot, scopes : Scopes, live : BOOLEAN]
        BY <1>1, <3>2, ElementOfSeq DEF AskRotate
      <4>2. t2 \in CallerType /\ t2.at = "revoke" /\ t2.job = "rotate" /\ t2.todo = {i}
        BY <4>1, RestIsTyped DEF CallerType, Stage, Errand
      <4> QED
        BY <3>2, <4>2 DEF AskRotate
    <3> QED
      BY <1>8, <3>1, <3>2
  <2>2. serving /\ ~Doing(c, "settle") /\ i \in DOMAIN session
        /\ UNCHANGED <<controlsVars, chainVars, held, sessionRow, historyVars>>
    BY <1>8 DEF AskRevoke, AskRotate, Doing
  <2> QED
    BY <2>1, <2>2, CallerMoves
<1>9. ASSUME NEW i \in SessionId, RevokeFails(c, i) PROVE KeysInv'
  <2> DEFINE t == [caller[c] EXCEPT !.todo = @ \ {i}, !.failed = @ \cup {i}]
  <2>1. UNCHANGED <<controlsVars, chainVars, held, sessionRow, historyVars>> /\ Doing(c, "revoke") /\ serving
        /\ ~Doing(c, "settle")
    BY <1>1, <1>9 DEF RevokeFails, Doing
  <2>2. CASE caller[c].job = "pause"
    <3>1. Turns(c, t)
      BY <1>9, <2>2 DEF RevokeFails
    <3>2. t \in CallerType /\ t.at = "revoke" /\ t.job = "pause" /\ t.valid = caller[c].valid
          /\ t.todo = caller[c].todo \ {i} /\ t.failed = caller[c].failed \cup {i}
      BY <1>1, <2>1, <2>2 DEF CallerType, Doing
    <3>3. t.valid => standing.paused /\ Live \subseteq t.todo \cup t.failed \cup slipped
      BY <1>1, <2>1, <2>2, <3>2 DEF PauseInv, Doing
    <3>4. t.todo \subseteq DOMAIN session
      BY <1>1, <2>1, <3>2 DEF RevokeInv, Doing
    <3> QED
      BY <2>1, <3>1, <3>2, <3>3, <3>4, CallerMoves
  <2>3. CASE caller[c].job # "pause"
    BY <1>3, <1>9, <2>1, <2>3 DEF RevokeFails
  <2> QED
    BY <2>2, <2>3
<1>10. CASE RevokeEnds(c)
  <2>1. UNCHANGED <<controlsVars, chainVars, held, sessionRow, historyVars>> /\ serving
        /\ ~Doing(c, "settle")
    BY <1>1, <1>10 DEF RevokeEnds, Doing
  <2>2. caller[c].slot \in Slot /\ caller[c].scopes \in Scopes
    BY <1>1 DEF CallerType
  <2> QED
    BY <1>3, <1>4, <1>10, <2>1, <2>2 DEF RevokeEnds
<1>11. CASE ListSessions(c)
  <2> DEFINE t == [caller[c] EXCEPT !.at = "revoke", !.todo = ToRevoke]
  <2>1. UNCHANGED <<controlsVars, chainVars, held, sessionRow, historyVars>> /\ serving
        /\ ~Doing(c, "settle")
    BY <1>1, <1>11 DEF ListSessions, Doing
  <2>2. t \in CallerType /\ t.at = "revoke" /\ t.job = caller[c].job /\ t.valid = caller[c].valid
        /\ t.todo = Live
    BY <1>1, <1>2 DEF ToRevoke, CallerType, Stage
  <2>3. t.job = "pause" /\ t.valid => standing.paused
    BY <1>1, <2>2 DEF PauseInv
  <2>4. Turns(c, t) => KeysInv'
    BY <1>1, <2>1, <2>2, <2>3, CallerMoves
  <2> QED
    BY <1>3, <1>11, <2>1, <2>4 DEF ListSessions
<1> QED
  BY <1>5, <1>6, <1>7, <1>8, <1>9, <1>10, <1>11

\* The transaction of an issue lands: a session more.
LEMMA IssueKeeps ==
  ASSUME KeysInv, NEW c \in Operation, IssueLands(c)
  PROVE  KeysInv'
<1> DEFINE t == caller[c]
           k == Len(session) + 1
           new == [slot |-> t.slot, scopes |-> t.scopes, live |-> TRUE]
           u == [t EXCEPT !.at = "fund", !.key = k]
<1>1. /\ t \in CallerType /\ BootInv(c) /\ serving
      /\ session \in Seq([slot : Slot, scopes : Scopes, live : BOOLEAN])
      /\ Len(session) \in Nat /\ Len(session) < MaxSessions /\ MaxSessions \in Nat
      /\ DOMAIN session = 1 .. Len(session)
      /\ caller \in [Operation -> CallerType]
      /\ named \subseteq SessionId /\ slipped \subseteq SessionId /\ confused \subseteq SessionId
  BY KeysAssumption DEF KeysInv, KeysTypeOK, IssueLands, Doing
<1>2. /\ Doing(c, "write") /\ t.valid /\ t.job = "boot" /\ t.id \in SessionId
      /\ session' = Append(session, new) /\ caller' = [caller EXCEPT ![c] = u]
      /\ slipped' = (IF standing.paused THEN slipped \cup {k} ELSE slipped)
      /\ confused' = (IF t.id # k THEN confused \cup {t.id, k} ELSE confused)
      /\ UNCHANGED <<serving, standing, stored, writes, issued, wish, since, undone,
                     held, sessionRow, answered, named>>
  BY <1>1 DEF IssueLands, BootInv, Doing, Turns, controlsVars
<1>3. k \in SessionId /\ k \in 0 .. MaxSessions /\ k \notin DOMAIN session
  BY <1>1 DEF SessionId
<1>4. /\ new \in [slot : Slot, scopes : Scopes, live : BOOLEAN]
      /\ u \in CallerType /\ u.at = "fund" /\ u.key = k /\ u.id = t.id /\ u.slot = t.slot
      /\ u.job = "boot"
  BY <1>1, <1>2, <1>3 DEF CallerType, Stage
<1>5. /\ session' \in Seq([slot : Slot, scopes : Scopes, live : BOOLEAN])
      /\ Len(session') = k /\ DOMAIN session' = DOMAIN session \cup {k}
      /\ session'[k] = new /\ \A j \in DOMAIN session : session'[j] = session[j]
  BY <1>1, <1>2, <1>4, AppendProperties
<1>6. Live' = Live \cup {k}
  BY <1>3, <1>5 DEF Live
<1>7. ControlsInv'
  BY <1>2, ControlsStep DEF KeysInv, controlsVars
<1>8. KeysTypeOK'
  <2>1. k <= MaxSessions /\ Len(session') = k
    BY <1>1, <1>5
  <2>2. held' \in [Slot -> [key : 0 .. k, id : 0 .. MaxSessions, usable : BOOLEAN]]
    BY <1>1, <1>2 DEF KeysInv, KeysTypeOK
  <2>3. sessionRow' \in [SessionId -> [key : 0 .. k, active : BOOLEAN]]
    BY <1>1, <1>2 DEF KeysInv, KeysTypeOK
  <2>4. caller' \in [Operation -> CallerType]
    BY <1>1, <1>2, <1>4
  <2>5. named' \subseteq SessionId /\ slipped' \subseteq SessionId /\ confused' \subseteq SessionId
    BY <1>1, <1>2, <1>3
  <2>6. answered' \in BOOLEAN
    BY <1>2 DEF KeysInv, KeysTypeOK
  <2>7. /\ \A s \in Slot : held'[s].usable => held'[s].key # 0
        /\ \A i \in SessionId : sessionRow'[i].active => sessionRow'[i].key # 0
    BY <1>2 DEF KeysInv, KeysTypeOK
  <2> QED
    BY <1>5, <2>1, <2>2, <2>3, <2>4, <2>5, <2>6, <2>7 DEF KeysTypeOK
<1>9. caller'[c] = u /\ \A d \in Operation \ {c} : caller'[d] = caller[d]
  BY <1>1, <1>2
<1>10. confused \subseteq confused' /\ (t.id # k => t.id \in confused' /\ k \in confused')
  BY <1>2
<1>11. \A j, i, s : SlotKey(j, i, s) => SlotKey(j, i, s)'
  BY <1>5, <1>10 DEF SlotKey, Match
<1>12. standing.paused => Live' \subseteq Live \cup slipped'
  BY <1>2, <1>6
<1>13. slipped \subseteq slipped'
  BY <1>2
<1>14. ASSUME NEW d \in Operation
       PROVE  (~Doing(d, "idle") => serving)' /\ BootInv(d)' /\ RevokeInv(d)' /\ PauseInv(d)'
  <2>1. CASE d = c
    <3>1. /\ k \in DOMAIN session' /\ t.id \in SessionId /\ session'[k].slot = t.slot
          /\ k # t.id => k \in confused' /\ t.id \in confused'
      BY <1>2, <1>5, <1>10
    <3>2. k \in Live'
      BY <1>6
    <3>3. /\ caller'[d].at = "fund" /\ caller'[d].key = k /\ caller'[d].id = t.id
          /\ caller'[d].slot = t.slot /\ caller'[d].job = "boot"
      BY <1>4, <1>9, <2>1
    <3>4. BootInv(d)'
      BY <3>1, <3>2, <3>3 DEF BootInv, Doing, SlotKey, Match
    <3> QED
      BY <1>1, <1>2, <3>3, <3>4 DEF RevokeInv, PauseInv, Doing
  <2>2. CASE d # c
    <3>1. caller'[d] = caller[d] /\ BootInv(d) /\ RevokeInv(d) /\ PauseInv(d) /\ (~Doing(d, "idle") => serving)
      BY <1>9, <2>2 DEF KeysInv
    <3>2. BootInv(d)'
      BY <1>6, <1>10, <1>11, <3>1 DEF BootInv, Doing
    <3>3. RevokeInv(d)'
      BY <1>5, <3>1 DEF RevokeInv, Doing
    <3>4. PauseInv(d)'
      BY <1>2, <1>12, <1>13, <3>1 DEF PauseInv, Doing
    <3> QED
      BY <1>2, <3>1, <3>2, <3>3, <3>4 DEF Doing
  <2> QED
    BY <2>1, <2>2
<1>15. (serving /\ answered => standing.paused)' /\ (answered => Live \subseteq named \cup slipped)'
  BY <1>1, <1>2, <1>12, <1>13 DEF KeysInv
<1>16. \A s \in Slot : (held[s].id # 0 \/ held[s].usable => SlotKey(held[s].key, held[s].id, s))'
  BY <1>2, <1>11 DEF KeysInv
<1>17. \A i \in SessionId : (sessionRow[i].key # 0 => Match(sessionRow[i].key, i))'
  BY <1>2, <1>10 DEF KeysInv, Match
<1>18. HeldKeysAreLive'
  <2>1. \A d \in Operation : Doing(d, "settle") => caller'[d] = caller[d]
    BY <1>2, <1>9 DEF Doing
  <2> QED
    BY <1>2, <1>6, <1>10, <2>1 DEF KeysInv, HeldKeysAreLive, Doing
<1> QED
  BY <1>7, <1>8, <1>14, <1>15, <1>16, <1>17, <1>18 DEF KeysInv

\* A slot that is left alone, or filled with a live key.
LEMMA HeldKept ==
  ASSUME HeldKeysAreLive,
         \A s \in Slot : held'[s] = held[s] \/ held'[s].key \in Live' \cup confused' \/ ~held'[s].usable,
         \A d \in Operation : Doing(d, "settle") => caller'[d] = caller[d],
         \A k \in Live \cup confused : \/ k \in Live' \cup confused'
                                      \/ \E d \in Operation : caller'[d].at = "settle" /\ caller'[d].id = k
  PROVE  HeldKeysAreLive'
<1> SUFFICES ASSUME NEW s \in Slot, held'[s].usable
             PROVE  \/ held'[s].key \in Live' \cup confused'
                    \/ \E d \in Operation : caller'[d].at = "settle" /\ caller'[d].id = held'[s].key
  BY DEF HeldKeysAreLive, Doing
<1>1. CASE held'[s].key \in Live' \cup confused'
  BY <1>1
<1>2. CASE held'[s] = held[s]
  <2>1. held[s].usable
    BY <1>2
  <2>2. \/ held[s].key \in Live \cup confused
        \/ \E d \in Operation : Doing(d, "settle") /\ caller[d].id = held[s].key
    BY <2>1 DEF HeldKeysAreLive
  <2> QED
    BY <1>2, <2>2 DEF Doing
<1> QED
  BY <1>1, <1>2

\* A call that holds its key in memory, or has its row written.
LEMMA CacheKeeps ==
  ASSUME KeysInv, NEW c \in Operation, Cached(c)
  PROVE  KeysInv'
<1> DEFINE t == caller[c]
           entry == [key |-> t.key, id |-> t.id, usable |-> TRUE]
           u == [t EXCEPT !.at = "save"]
<1>1. /\ t \in CallerType /\ Doing(c, "fund")
      /\ caller \in [Operation -> CallerType] /\ Len(session) \in Nat /\ DOMAIN session = 1 .. Len(session)
      /\ held \in [Slot -> [key : 0 .. Len(session), id : 0 .. MaxSessions, usable : BOOLEAN]]
  BY DEF KeysInv, KeysTypeOK, Cached
<1>2. /\ serving /\ ~(t.job = "pause" /\ t.valid) /\ t.at = "fund" /\ t.key \in Live \cup confused
      /\ t.key \in DOMAIN session /\ t.id \in SessionId /\ session[t.key].slot = t.slot
      /\ t.slot \in Slot
      /\ Match(t.key, t.id)
  BY <1>1 DEF KeysInv, BootInv, PauseInv, Doing, SlotKey, CallerType
<1>3. /\ held' = [held EXCEPT ![t.slot] = entry] /\ caller' = [caller EXCEPT ![c] = u]
      /\ UNCHANGED <<serving, standing, stored, writes, issued, wish, since, undone,
                     session, sessionRow, answered, named, slipped, confused>>
  BY DEF Cached, Turns, controlsVars, chainVars, historyVars
<1>4. /\ u \in CallerType /\ u.at = "save" /\ u.key = t.key /\ u.id = t.id /\ u.slot = t.slot
      /\ u.job = t.job /\ u.valid = t.valid
  BY <1>1 DEF CallerType, Stage
<1>5. /\ caller'[c] = u /\ \A d \in Operation \ {c} : caller'[d] = caller[d]
      /\ held'[t.slot] = entry /\ \A s \in Slot \ {t.slot} : held'[s] = held[s]
  BY <1>1, <1>2, <1>3
<1>6. Live' = Live
  BY <1>3 DEF Live
<1>7. ControlsInv'
  BY <1>3, ControlsStep DEF KeysInv, controlsVars
<1>8. KeysTypeOK'
  <2>1. entry \in [key : 0 .. Len(session), id : 0 .. MaxSessions, usable : BOOLEAN]
        /\ t.key # 0
    BY <1>1, <1>2, KeysAssumption DEF SessionId
  <2>2. held' \in [Slot -> [key : 0 .. Len(session), id : 0 .. MaxSessions, usable : BOOLEAN]]
        /\ caller' \in [Operation -> CallerType]
    BY <1>1, <1>3, <1>4, <2>1
  <2>3. \A s \in Slot : held'[s].usable => held'[s].key # 0
    <3>1. held'[t.slot].key # 0
      BY <1>5, <2>1
    <3>2. \A s \in Slot : held[s].usable => held[s].key # 0
      BY DEF KeysInv, KeysTypeOK
    <3> QED
      BY <1>5, <3>1, <3>2
  <2> QED
    BY <1>3, <2>2, <2>3 DEF KeysInv, KeysTypeOK
<1>9. ASSUME NEW d \in Operation
      PROVE  (~Doing(d, "idle") => serving)' /\ BootInv(d)' /\ RevokeInv(d)' /\ PauseInv(d)'
  <2>1. CASE d = c
    <3>1. /\ caller'[d].at = "save" /\ caller'[d].key = t.key /\ caller'[d].id = t.id
          /\ caller'[d].slot = t.slot
          /\ caller'[d].job = t.job /\ caller'[d].valid = t.valid
      BY <1>4, <1>5, <2>1
    <3>2. SlotKey(t.key, t.id, t.slot)
      BY <1>2 DEF SlotKey
    <3>3. BootInv(d)'
      BY <1>3, <3>1, <3>2 DEF BootInv, Doing, SlotKey, Match
    <3> QED
      BY <1>2, <1>3, <3>1, <3>3 DEF RevokeInv, PauseInv, Doing
  <2>2. CASE d # c
    BY <1>3, <1>5, <1>6, <2>2 DEF KeysInv, BootInv, RevokeInv, PauseInv, Doing, SlotKey, Match
  <2> QED
    BY <2>1, <2>2
<1>10. ASSUME NEW s \in Slot
       PROVE  (held[s].id # 0 \/ held[s].usable => SlotKey(held[s].key, held[s].id, s))'
  <2>1. CASE s = t.slot
    BY <1>2, <1>3, <1>5, <2>1 DEF SlotKey, Match
  <2>2. CASE s # t.slot
    BY <1>3, <1>5, <2>2 DEF KeysInv, SlotKey, Match
  <2> QED
    BY <2>1, <2>2
<1>11. HeldKeysAreLive'
  <2>1. \A d \in Operation : Doing(d, "settle") => caller'[d] = caller[d]
    BY <1>1, <1>5 DEF Doing
  <2>2. ASSUME NEW s \in Slot
        PROVE  held'[s] = held[s] \/ held'[s].key \in Live' \cup confused'
    BY <1>2, <1>3, <1>5, <1>6
  <2> QED
    BY <1>3, <1>6, <2>1, <2>2, HeldKept DEF KeysInv
<1> QED
  BY <1>3, <1>6, <1>7, <1>8, <1>9, <1>10, <1>11 DEF KeysInv, Match

LEMMA RecordSessionKeeps ==
  ASSUME KeysInv, NEW c \in Operation, RecordSession(c)
  PROVE  KeysInv'
<1> DEFINE t == caller[c]
           newRow == [key |-> t.key, active |-> TRUE]
<1>1. /\ t \in CallerType /\ t.at = "save"
      /\ caller \in [Operation -> CallerType] /\ Len(session) \in Nat /\ DOMAIN session = 1 .. Len(session)
      /\ sessionRow \in [SessionId -> [key : 0 .. Len(session), active : BOOLEAN]]
  BY DEF KeysInv, KeysTypeOK, RecordSession, Doing
<1>2. t.key \in DOMAIN session /\ t.id \in SessionId /\ Match(t.key, t.id)
  BY <1>1 DEF KeysInv, BootInv, SlotKey
<1>3. /\ sessionRow' = [sessionRow EXCEPT ![t.id] = newRow]
         \/ sessionRow' = sessionRow
      /\ caller' = [caller EXCEPT ![c] = AtRest]
      /\ UNCHANGED <<serving, standing, stored, writes, issued, wish, since, undone,
                     session, held, answered, named, slipped, confused>>
  BY DEF RecordSession, Turns, controlsVars, chainVars, historyVars
<1>4. caller'[c] = AtRest /\ \A d \in Operation \ {c} : caller'[d] = caller[d]
  BY <1>1, <1>3
<1>5. Live' = Live
  BY <1>3 DEF Live
<1>6. ControlsInv'
  BY <1>3, ControlsStep DEF KeysInv, controlsVars
<1>7. KeysTypeOK'
  <2>1. t.key \in 0 .. Len(session) /\ t.key # 0
    BY <1>1, <1>2
  <2>2. newRow \in [key : 0 .. Len(session), active : BOOLEAN] /\ newRow.key # 0
    BY <2>1
  <2>3. sessionRow' \in [SessionId -> [key : 0 .. Len(session), active : BOOLEAN]]
    BY <1>1, <1>3, <2>2
  <2>5. \A i \in SessionId : sessionRow'[i] = newRow \/ sessionRow'[i] = sessionRow[i]
    BY <1>1, <1>3
  <2>6. \A i \in SessionId : sessionRow[i].active => sessionRow[i].key # 0
    BY DEF KeysInv, KeysTypeOK
  <2>7. \A i \in SessionId : sessionRow'[i].active => sessionRow'[i].key # 0
    BY <2>2, <2>5, <2>6
  <2>4. caller' \in [Operation -> CallerType]
    BY <1>1, <1>3, RestIsTyped
  <2> QED
    BY <1>3, <2>3, <2>4, <2>7 DEF KeysInv, KeysTypeOK
<1>8. ASSUME NEW d \in Operation
      PROVE  (~Doing(d, "idle") => serving)' /\ BootInv(d)' /\ RevokeInv(d)' /\ PauseInv(d)'
  <2>1. CASE d = c
    BY <1>4, <2>1, RestIsTyped DEF BootInv, RevokeInv, PauseInv, Doing
  <2>2. CASE d # c
    BY <1>3, <1>4, <1>5, <2>2 DEF KeysInv, BootInv, RevokeInv, PauseInv, Doing, SlotKey, Match
  <2> QED
    BY <2>1, <2>2
<1>9. ASSUME NEW i \in SessionId
      PROVE  (sessionRow[i].key # 0 => Match(sessionRow[i].key, i))'
  <2>1. CASE i = t.id
    BY <1>1, <1>2, <1>3, <2>1 DEF KeysInv, Match
  <2>2. CASE i # t.id
    BY <1>1, <1>3, <2>2 DEF KeysInv, Match
  <2> QED
    BY <2>1, <2>2
<1>10. HeldKeysAreLive'
  <2>1. \A d \in Operation : Doing(d, "settle") => caller'[d] = caller[d]
    BY <1>1, <1>4 DEF Doing
  <2> QED
    BY <1>3, <1>5, <2>1 DEF KeysInv, HeldKeysAreLive, Doing
<1> QED
  BY <1>3, <1>5, <1>6, <1>7, <1>8, <1>9, <1>10 DEF KeysInv, SlotKey, Match

\* A revocation lands: the session is dead, and its caller settles it.
LEMMA RevokeLandsKeeps ==
  ASSUME KeysInv, NEW c \in Operation, NEW i, RevokeLands(c, i)
  PROVE  KeysInv'
<1> DEFINE t == caller[c]
           u == [t EXCEPT !.at = "settle", !.id = i]
<1>1. /\ t \in CallerType /\ t.at = "revoke" /\ serving /\ i \in t.todo /\ session[i].live
      /\ caller \in [Operation -> CallerType] /\ Len(session) \in Nat /\ DOMAIN session = 1 .. Len(session)
      /\ session \in Seq([slot : Slot, scopes : Scopes, live : BOOLEAN])
      /\ i \in SessionId /\ i \in DOMAIN session /\ t.todo \subseteq DOMAIN session
  <2>1. caller \in [Operation -> CallerType] /\ session \in Seq([slot : Slot, scopes : Scopes, live : BOOLEAN])
        /\ RevokeInv(c) /\ (~Doing(c, "idle") => serving)
    BY DEF KeysInv, KeysTypeOK
  <2>2. Doing(c, "revoke") /\ i \in t.todo /\ session[i].live
    BY DEF RevokeLands, IsNext
  <2>3. t \in CallerType /\ t.at = "revoke" /\ i \in SessionId
    BY <2>1, <2>2 DEF Doing, CallerType
  <2> QED
    BY <2>1, <2>2, <2>3 DEF RevokeInv, Doing
<1>2. /\ session' = [session EXCEPT ![i].live = FALSE] /\ caller' = [caller EXCEPT ![c] = u]
      /\ UNCHANGED <<serving, standing, stored, writes, issued, wish, since, undone,
                     held, sessionRow, answered, named, slipped>>
      /\ confused' = confused \cup {i} \/ confused' = confused
      /\ (\E d \in Operation : Doing(d, "fund") /\ caller[d].key = i) => i \in confused'
  BY DEF RevokeLands, Turns, controlsVars
<1>3. /\ u \in CallerType /\ u.at = "settle" /\ u.id = i /\ u.todo = t.todo /\ u.failed = t.failed
      /\ u.job = t.job /\ u.valid = t.valid
  <2>1. i \in 0 .. MaxSessions
    BY <1>1, KeysAssumption DEF SessionId
  <2> QED
    BY <1>1, <2>1 DEF CallerType, Stage
<1>4. /\ caller'[c] = u /\ \A d \in Operation \ {c} : caller'[d] = caller[d]
  BY <1>1, <1>2
<1>5. /\ DOMAIN session' = DOMAIN session /\ Len(session') = Len(session)
      /\ session' \in Seq([slot : Slot, scopes : Scopes, live : BOOLEAN])
      /\ \A k \in DOMAIN session : session'[k].slot = session[k].slot
      /\ \A k \in DOMAIN session \ {i} : session'[k] = session[k]
      /\ i \in DOMAIN session => ~session'[i].live
  <2>1. CASE i \in DOMAIN session
    <3>1. session[i] \in [slot : Slot, scopes : Scopes, live : BOOLEAN]
      BY <1>1, <2>1, ElementOfSeq
    <3> DEFINE dead == [session[i] EXCEPT !.live = FALSE]
    <3>2. dead \in [slot : Slot, scopes : Scopes, live : BOOLEAN] /\ dead.slot = session[i].slot /\ ~dead.live
      BY <3>1
    <3>3. session' = [session EXCEPT ![i] = dead]
      BY <1>2
    <3>4. session' \in Seq([slot : Slot, scopes : Scopes, live : BOOLEAN]) /\ Len(session') = Len(session)
      BY <1>1, <2>1, <3>2, <3>3, ExceptSeq
    <3>5. DOMAIN session' = DOMAIN session /\ session'[i] = dead
          /\ \A k \in DOMAIN session \ {i} : session'[k] = session[k]
      BY <1>1, <2>1, <3>3
    <3> QED
      BY <3>2, <3>4, <3>5
  <2>2. CASE i \notin DOMAIN session
    <3>1. session' = session
      BY <1>1, <1>2, <2>2
    <3> QED
      BY <1>1, <2>2, <3>1
  <2> QED
    BY <2>1, <2>2
<1>6. Live' = Live \ {i} /\ Live \subseteq Live' \cup {i}
  BY <1>5 DEF Live
<1>7. ControlsInv'
  BY <1>2, ControlsStep DEF KeysInv, controlsVars
<1>8. KeysTypeOK'
  <2>1. caller' \in [Operation -> CallerType]
    BY <1>1, <1>2, <1>3
  <2>2. confused' \subseteq SessionId
    BY <1>1, <1>2 DEF KeysInv, KeysTypeOK
  <2> QED
    BY <1>2, <1>5, <2>1, <2>2 DEF KeysInv, KeysTypeOK
<1>9. i \in DOMAIN session
  BY <1>1
<1>10. ASSUME NEW d \in Operation
      PROVE  (~Doing(d, "idle") => serving)' /\ BootInv(d)' /\ RevokeInv(d)' /\ PauseInv(d)'
  <2>1. CASE d = c
    <3>1. /\ caller'[d].at = "settle" /\ caller'[d].id = i /\ caller'[d].todo = t.todo
          /\ caller'[d].failed = t.failed /\ caller'[d].job = t.job /\ caller'[d].valid = t.valid
      BY <1>3, <1>4, <2>1
    <3>2. PauseInv(c)
      BY DEF KeysInv
    <3>3. PauseInv(d)'
      BY <1>1, <1>2, <1>6, <3>1, <3>2 DEF PauseInv, Doing
    <3> QED
      BY <1>1, <1>2, <1>5, <1>9, <3>1, <3>3 DEF BootInv, RevokeInv, Doing
  <2>2. CASE d # c
    <3>1. caller'[d] = caller[d] /\ BootInv(d) /\ RevokeInv(d) /\ PauseInv(d) /\ (~Doing(d, "idle") => serving)
      BY <1>4, <2>2 DEF KeysInv
    <3>2. \A j, k, s : SlotKey(j, k, s) => SlotKey(j, k, s)'
      BY <1>2, <1>5 DEF SlotKey, Match
    <3>3. BootInv(d)'
      BY <1>2, <1>6, <3>1, <3>2 DEF BootInv, Doing
    <3>4. RevokeInv(d)'
      BY <1>5, <3>1 DEF RevokeInv, Doing
    <3>5. PauseInv(d)'
      BY <1>2, <1>6, <3>1 DEF PauseInv, Doing
    <3> QED
      BY <1>2, <3>1, <3>3, <3>4, <3>5 DEF Doing
  <2> QED
    BY <2>1, <2>2
<1>11. \A s \in Slot : (held[s].id # 0 \/ held[s].usable => SlotKey(held[s].key, held[s].id, s))'
  BY <1>2, <1>5 DEF KeysInv, SlotKey, Match
<1>12. \A j \in SessionId : (sessionRow[j].key # 0 => Match(sessionRow[j].key, j))'
  BY <1>2 DEF KeysInv, Match
<1>13. HeldKeysAreLive'
  <2>1. \A d \in Operation : Doing(d, "settle") => caller'[d] = caller[d]
    BY <1>1, <1>4 DEF Doing
  <2>2. \A k \in Live \cup confused : \/ k \in Live' \cup confused'
                                     \/ \E d \in Operation : caller'[d].at = "settle" /\ caller'[d].id = k
    BY <1>2, <1>3, <1>4, <1>6
  <2> QED
    BY <1>2, <2>1, <2>2, HeldKept DEF KeysInv
<1>14. (serving /\ answered => standing.paused)' /\ (answered => Live \subseteq named \cup slipped)'
  BY <1>2, <1>6 DEF KeysInv
<1> QED
  BY <1>7, <1>8, <1>10, <1>11, <1>12, <1>13, <1>14 DEF KeysInv

\* The caller forgets the key, and has the row say so.
LEMMA SettleKeeps ==
  ASSUME KeysInv, NEW c \in Operation, RevokeSettles(c)
  PROVE  KeysInv'
<1> DEFINE t == caller[c]
           i == t.id
           u == [t EXCEPT !.at = "revoke", !.todo = @ \ {i}]
<1>1. /\ caller \in [Operation -> CallerType] /\ t \in CallerType /\ t.at = "settle" /\ serving
      /\ i \in DOMAIN session /\ ~session[i].live /\ t.todo \subseteq DOMAIN session
      /\ Len(session) \in Nat /\ DOMAIN session = 1 .. Len(session)
      /\ held \in [Slot -> [key : 0 .. Len(session), id : 0 .. MaxSessions, usable : BOOLEAN]]
      /\ sessionRow \in [SessionId -> [key : 0 .. Len(session), active : BOOLEAN]]
      /\ PauseInv(c)
  BY DEF KeysInv, KeysTypeOK, RevokeSettles, Doing, RevokeInv
<1>2. /\ held' \in Forgotten(i) /\ caller' = [caller EXCEPT ![c] = u]
      /\ sessionRow' = sessionRow \/ sessionRow' = [sessionRow EXCEPT ![i].active = FALSE]
      /\ UNCHANGED <<serving, standing, stored, writes, issued, wish, since, undone,
                     session, answered, named, slipped, confused>>
  BY DEF RevokeSettles, Turns, controlsVars, chainVars, historyVars
<1>3. /\ u \in CallerType /\ u.at = "revoke" /\ u.todo = t.todo \ {i} /\ u.failed = t.failed
      /\ u.job = t.job /\ u.valid = t.valid
  BY <1>1 DEF CallerType, Stage
<1>4. caller'[c] = u /\ \A d \in Operation \ {c} : caller'[d] = caller[d]
  BY <1>1, <1>2
<1>5. Live' = Live /\ i \notin Live
  BY <1>1, <1>2 DEF Live
<1>6. ControlsInv'
  BY <1>2, ControlsStep DEF KeysInv, controlsVars
\* One of the slots believed to hold the session forgets it.
<1>7. /\ held' \in [Slot -> [key : 0 .. Len(session), id : 0 .. MaxSessions, usable : BOOLEAN]]
      /\ \A s \in Slot : /\ held'[s].key = held[s].key /\ held'[s].id = held[s].id
                         /\ held'[s] = held[s] \/ ~held'[s].usable
      /\ (\E s \in Slot : held[s].id = i) => \E s \in Slot : held[s].id = i /\ ~held'[s].usable
  <2>1. CASE {s \in Slot : held[s].id = i} = {}
    <3>1. held' = held
      BY <1>2, <2>1 DEF Forgotten
    <3> QED
      BY <1>1, <2>1, <3>1
  <2>2. CASE {s \in Slot : held[s].id = i} # {}
    <3>1. PICK r \in Slot : held[r].id = i /\ held' = [held EXCEPT ![r].usable = FALSE]
      BY <1>2, <2>2 DEF Forgotten
    <3> DEFINE entry == [held[r] EXCEPT !.usable = FALSE]
    <3>2. held[r] \in [key : 0 .. Len(session), id : 0 .. MaxSessions, usable : BOOLEAN]
      BY <1>1
    <3>3. entry \in [key : 0 .. Len(session), id : 0 .. MaxSessions, usable : BOOLEAN]
          /\ entry.key = held[r].key /\ entry.id = held[r].id /\ ~entry.usable
      BY <3>2
    <3>4. held' = [held EXCEPT ![r] = entry]
      BY <3>1
    <3>5. held'[r] = entry /\ \A s \in Slot \ {r} : held'[s] = held[s]
      BY <1>1, <3>4
    <3>6. held' \in [Slot -> [key : 0 .. Len(session), id : 0 .. MaxSessions, usable : BOOLEAN]]
      BY <1>1, <3>3, <3>4
    <3> QED
      BY <3>1, <3>3, <3>5, <3>6
  <2> QED
    BY <2>1, <2>2
<1>8. /\ sessionRow' \in [SessionId -> [key : 0 .. Len(session), active : BOOLEAN]]
      /\ \A j \in SessionId : /\ sessionRow'[j].key = sessionRow[j].key
                              /\ sessionRow'[j] = sessionRow[j] \/ ~sessionRow'[j].active
  <2>1. CASE sessionRow' = sessionRow
    BY <1>1, <2>1
  <2>2. CASE sessionRow' = [sessionRow EXCEPT ![i].active = FALSE] /\ i \in SessionId
    <3> DEFINE newRow == [sessionRow[i] EXCEPT !.active = FALSE]
    <3>1. sessionRow[i] \in [key : 0 .. Len(session), active : BOOLEAN]
      BY <1>1, <2>2
    <3>2. newRow \in [key : 0 .. Len(session), active : BOOLEAN] /\ newRow.key = sessionRow[i].key /\ ~newRow.active
      BY <3>1
    <3>3. sessionRow' = [sessionRow EXCEPT ![i] = newRow]
      BY <2>2
    <3>4. sessionRow'[i] = newRow /\ \A j \in SessionId \ {i} : sessionRow'[j] = sessionRow[j]
      BY <1>1, <2>2, <3>3
    <3>5. sessionRow' \in [SessionId -> [key : 0 .. Len(session), active : BOOLEAN]]
      BY <1>1, <3>2, <3>3
    <3> QED
      BY <3>2, <3>4, <3>5
  <2>3. i \in SessionId
    BY <1>1, KeysAssumption DEF KeysInv, KeysTypeOK, SessionId
  <2> QED
    BY <1>2, <2>1, <2>2, <2>3
<1>9. KeysTypeOK'
  <2>1. caller' \in [Operation -> CallerType]
    BY <1>1, <1>2, <1>3
  <2>2. \A s \in Slot : held'[s].usable => held'[s].key # 0
    <3>1. \A s \in Slot : held[s].usable => held[s].key # 0
      BY DEF KeysInv, KeysTypeOK
    <3> QED
      BY <1>7, <3>1
  <2>3. \A j \in SessionId : sessionRow'[j].active => sessionRow'[j].key # 0
    <3>1. \A j \in SessionId : sessionRow[j].active => sessionRow[j].key # 0
      BY DEF KeysInv, KeysTypeOK
    <3> QED
      BY <1>8, <3>1
  <2> QED
    BY <1>2, <1>7, <1>8, <2>1, <2>2, <2>3 DEF KeysInv, KeysTypeOK
<1>10. ASSUME NEW d \in Operation
       PROVE  (~Doing(d, "idle") => serving)' /\ BootInv(d)' /\ RevokeInv(d)' /\ PauseInv(d)'
  <2>1. CASE d = c
    <3>1. /\ caller'[d].at = "revoke" /\ caller'[d].todo = t.todo \ {i}
          /\ caller'[d].failed = t.failed /\ caller'[d].job = t.job /\ caller'[d].valid = t.valid
      BY <1>3, <1>4, <2>1
    <3>2. PauseInv(d)'
      BY <1>1, <1>2, <1>5, <3>1 DEF PauseInv, Doing
    <3> QED
      BY <1>1, <1>2, <3>1, <3>2 DEF BootInv, RevokeInv, Doing
  <2>2. CASE d # c
    BY <1>2, <1>4, <1>5, <2>2 DEF KeysInv, BootInv, RevokeInv, PauseInv, Doing, SlotKey, Match
  <2> QED
    BY <2>1, <2>2
<1>11. ASSUME NEW s \in Slot
       PROVE  held[s].id # 0 \/ held[s].usable => SlotKey(held[s].key, held[s].id, s)
  BY DEF KeysInv
<1>12. ASSUME NEW s \in Slot
       PROVE  (held[s].id # 0 \/ held[s].usable => SlotKey(held[s].key, held[s].id, s))'
  <2>1. held'[s].usable => held[s].usable
    BY <1>7
  <2> QED
    BY <1>2, <1>7, <1>11, <2>1 DEF SlotKey, Match
<1>13. \A j \in SessionId : (sessionRow[j].key # 0 => Match(sessionRow[j].key, j))'
  BY <1>2, <1>8 DEF KeysInv, Match
<1>14. ASSUME NEW s \in Slot, held'[s].usable
       PROVE  \/ held'[s].key \in Live' \cup confused'
              \/ \E d \in Operation : caller'[d].at = "settle" /\ caller'[d].id = held'[s].key
  <2>1. held'[s] = held[s] /\ held[s].usable
    BY <1>7, <1>14
  <2>2. SlotKey(held[s].key, held[s].id, s)
    BY <1>11, <2>1
  <2>3. CASE held[s].key = i /\ i \notin confused
    <3>1. held[s].id = i
      BY <2>2, <2>3 DEF SlotKey, Match
    <3>2. PICK r \in Slot : held[r].id = i /\ ~held'[r].usable
      BY <1>7, <3>1
    <3>3. i # 0
      BY <1>1
    <3>4. SlotKey(held[r].key, i, r)
      BY <1>11, <3>2, <3>3
    <3>5. held[r].key = i /\ session[i].slot = r /\ session[i].slot = s
      BY <2>2, <2>3, <3>4 DEF SlotKey, Match
    <3> QED
      BY <1>14, <3>2, <3>5
  <2>4. CASE held[s].key \in Live \cup confused
    BY <1>2, <1>5, <2>1, <2>4
  <2>5. CASE held[s].key # i /\ held[s].key \notin Live \cup confused
    <3>1. PICK d \in Operation : Doing(d, "settle") /\ caller[d].id = held[s].key
      BY <2>1, <2>5 DEF KeysInv, HeldKeysAreLive
    <3>2. d # c
      BY <2>5, <3>1
    <3> QED
      BY <1>4, <2>1, <3>1, <3>2 DEF Doing
  <2> QED
    BY <2>3, <2>4, <2>5
<1>15. HeldKeysAreLive'
  BY <1>14 DEF HeldKeysAreLive, Doing
<1>16. (serving /\ answered => standing.paused)' /\ (answered => Live \subseteq named \cup slipped)'
  BY <1>2, <1>5 DEF KeysInv
<1> QED
  BY <1>6, <1>9, <1>10, <1>12, <1>13, <1>15, <1>16 DEF KeysInv

\* The gate closes, and the caller goes on to list the sessions.
LEMMA PauseKeeps ==
  ASSUME KeysInv, NEW c \in Operation, AskPause(c)
  PROVE  KeysInv'
<1> DEFINE u == [AtRest EXCEPT !.at = "list", !.job = "pause", !.valid = TRUE]
<1>1. /\ caller \in [Operation -> CallerType] /\ serving /\ Doing(c, "idle") /\ PauseGate
      /\ caller' = [caller EXCEPT ![c] = u]
      /\ UNCHANGED <<session, held, sessionRow, answered, named, slipped, confused>>
  BY DEF KeysInv, KeysTypeOK, AskPause, PauseGate, Turns, chainVars, historyVars
<1>2. ControlsInv'
  BY <1>1, ControlsStep DEF KeysInv, ControlsNext
<1>3. standing'.paused /\ serving' = serving
  BY <1>1 DEF PauseGate, Commanded, KeysInv, ControlsInv, ControlsTypeOK, AgentControl
<1>4. u \in CallerType /\ u.at = "list" /\ u.job = "pause"
  BY RestIsTyped DEF CallerType, Stage, Errand
<1>5. caller'[c] = u /\ \A d \in Operation \ {c} : caller'[d] = caller[d]
  BY <1>1
<1>6. Live' = Live
  BY <1>1 DEF Live
<1>7. KeysTypeOK'
  <2>1. caller' \in [Operation -> CallerType]
    BY <1>1, <1>4
  <2> QED
    BY <1>1, <2>1 DEF KeysInv, KeysTypeOK
<1>8. ASSUME NEW d \in Operation
      PROVE  (~Doing(d, "idle") => serving)' /\ BootInv(d)' /\ RevokeInv(d)' /\ PauseInv(d)'
  <2>1. CASE d = c
    BY <1>1, <1>3, <1>4, <1>5, <2>1 DEF BootInv, RevokeInv, PauseInv, Doing
  <2>2. CASE d # c
    BY <1>1, <1>3, <1>5, <1>6, <2>2 DEF KeysInv, BootInv, RevokeInv, PauseInv, Doing, SlotKey, Match
  <2> QED
    BY <2>1, <2>2
<1>9. HeldKeysAreLive'
  <2>1. \A d \in Operation : Doing(d, "settle") => caller'[d] = caller[d]
    BY <1>1, <1>5 DEF Doing
  <2> QED
    BY <1>1, <1>6, <2>1, HeldKept DEF KeysInv
<1> QED
  BY <1>1, <1>2, <1>3, <1>6, <1>7, <1>8, <1>9 DEF KeysInv, SlotKey, Match

\* The pause answers: what is live it named, or slipped.
LEMMA PauseEndKeeps ==
  ASSUME KeysInv, NEW c \in Operation, PauseEnds(c)
  PROVE  KeysInv'
<1> DEFINE t == caller[c]
<1>1. /\ caller \in [Operation -> CallerType] /\ t \in CallerType /\ serving
      /\ t.at = "revoke" /\ t.todo = {} /\ t.job = "pause" /\ PauseInv(c)
      /\ held \in [Slot -> [key : 0 .. Len(session), id : 0 .. MaxSessions, usable : BOOLEAN]]
  BY DEF KeysInv, KeysTypeOK, PauseEnds, Doing
<1>2. /\ held' = [s \in Slot |-> [held[s] EXCEPT !.usable = FALSE]]
      /\ caller' = [caller EXCEPT ![c] = AtRest]
      /\ answered' = (answered \/ t.valid)
      /\ named' = (IF t.valid THEN named \cup t.failed ELSE named)
      /\ UNCHANGED <<serving, standing, stored, writes, issued, wish, since, undone,
                     session, sessionRow, slipped, confused>>
  BY DEF PauseEnds, Turns, controlsVars, chainVars
<1>3. caller'[c] = AtRest /\ \A d \in Operation \ {c} : caller'[d] = caller[d]
  BY <1>1, <1>2
<1>4. Live' = Live
  BY <1>2 DEF Live
<1>5. ControlsInv'
  BY <1>2, ControlsStep DEF KeysInv, controlsVars
<1>6. /\ held' \in [Slot -> [key : 0 .. Len(session), id : 0 .. MaxSessions, usable : BOOLEAN]]
      /\ \A s \in Slot : ~held'[s].usable /\ held'[s].key = held[s].key /\ held'[s].id = held[s].id
  <2>1. ASSUME NEW s \in Slot
        PROVE  /\ held'[s] = [held[s] EXCEPT !.usable = FALSE]
               /\ held'[s] \in [key : 0 .. Len(session), id : 0 .. MaxSessions, usable : BOOLEAN]
               /\ ~held'[s].usable /\ held'[s].key = held[s].key /\ held'[s].id = held[s].id
    <3>1. held[s] \in [key : 0 .. Len(session), id : 0 .. MaxSessions, usable : BOOLEAN]
      BY <1>1
    <3>2. held'[s] = [held[s] EXCEPT !.usable = FALSE]
      BY <1>2
    <3> QED
      BY <3>1, <3>2
  <2> QED
    BY <1>2, <2>1
<1>7. KeysTypeOK'
  <2>1. caller' \in [Operation -> CallerType]
    BY <1>1, <1>2, RestIsTyped
  <2>2. t.failed \subseteq SessionId /\ t.valid \in BOOLEAN
    BY <1>1 DEF CallerType
  <2>3. named' \subseteq SessionId
    BY <1>2, <2>2 DEF KeysInv, KeysTypeOK
  <2>4. answered' \in BOOLEAN
    BY <1>2
  <2> QED
    BY <1>2, <1>6, <2>1, <2>3, <2>4 DEF KeysInv, KeysTypeOK
<1>8. ASSUME NEW d \in Operation
      PROVE  (~Doing(d, "idle") => serving)' /\ BootInv(d)' /\ RevokeInv(d)' /\ PauseInv(d)'
  <2>1. CASE d = c
    BY <1>3, <2>1, RestIsTyped DEF BootInv, RevokeInv, PauseInv, Doing
  <2>2. CASE d # c
    BY <1>2, <1>3, <1>4, <2>2 DEF KeysInv, BootInv, RevokeInv, PauseInv, Doing, SlotKey, Match
  <2> QED
    BY <2>1, <2>2
<1>9. \A s \in Slot : (held[s].id # 0 \/ held[s].usable => SlotKey(held[s].key, held[s].id, s))'
  BY <1>2, <1>6 DEF KeysInv, SlotKey, Match
<1>10. (serving /\ answered => standing.paused)' /\ (answered => Live \subseteq named \cup slipped)'
  <2>1. CASE t.valid
    <3>1. standing.paused /\ Live \subseteq t.failed \cup slipped
      BY <1>1, <2>1 DEF PauseInv, Doing
    <3> QED
      BY <1>2, <1>4, <2>1, <3>1
  <2>2. CASE ~t.valid
    <3>1. answered' = answered /\ named' = named
      BY <1>2, <2>2 DEF KeysInv, KeysTypeOK
    <3> QED
      BY <1>2, <1>4, <3>1 DEF KeysInv
  <2> QED
    BY <2>1, <2>2
<1>11. HeldKeysAreLive'
  BY <1>6 DEF HeldKeysAreLive
<1> QED
  BY <1>2, <1>5, <1>7, <1>8, <1>9, <1>10, <1>11 DEF KeysInv, Match

\* A command that is no pause, or the store: keys and callers stay.
LEMMA ResumeKeeps ==
  ASSUME KeysInv, AskResume
  PROVE  KeysInv'
<1>1. /\ caller \in [Operation -> CallerType] /\ serving /\ ResumeGate
      /\ caller' = [c \in Operation |->
           IF caller[c].job = "pause" THEN [caller[c] EXCEPT !.valid = FALSE] ELSE caller[c]]
      /\ answered' = FALSE /\ named' = {} /\ slipped' = {}
      /\ UNCHANGED <<session, held, sessionRow, confused>>
  BY DEF KeysInv, KeysTypeOK, AskResume, ResumeGate, Lapsed, chainVars
<1>2. ControlsInv'
  BY <1>1, ControlsStep DEF KeysInv, ControlsNext
<1>3. serving' = serving
  BY <1>1 DEF ResumeGate, Commanded
<1>4. ASSUME NEW c \in Operation
      PROVE  /\ caller'[c] \in CallerType
             /\ caller'[c] = caller[c] \/ caller'[c] = [caller[c] EXCEPT !.valid = FALSE]
             /\ caller[c].job = "pause" => ~caller'[c].valid
             /\ caller[c].job # "pause" => caller'[c] = caller[c]
             /\ caller'[c].at = caller[c].at /\ caller'[c].job = caller[c].job
             /\ caller'[c].id = caller[c].id /\ caller'[c].key = caller[c].key
             /\ caller'[c].slot = caller[c].slot /\ caller'[c].todo = caller[c].todo
  <2>1. caller[c] \in CallerType
    BY <1>1
  <2>2. CASE caller[c].job = "pause"
    <3>1. caller'[c] = [caller[c] EXCEPT !.valid = FALSE]
      BY <1>1, <2>2
    <3> QED
      BY <2>1, <2>2, <3>1 DEF CallerType
  <2>3. CASE caller[c].job # "pause"
    BY <1>1, <2>1, <2>3
  <2> QED
    BY <2>2, <2>3
<1>5. Live' = Live
  BY <1>1 DEF Live
<1>6. KeysTypeOK'
  <2>1. caller' \in [Operation -> CallerType]
    BY <1>1, <1>4
  <2>2. answered' \in BOOLEAN
    BY <1>1
  <2>3. {} \subseteq SessionId
    OBVIOUS
  <2> QED
    BY <1>1, <2>1, <2>2, <2>3 DEF KeysInv, KeysTypeOK
<1>7. ASSUME NEW d \in Operation
      PROVE  (~Doing(d, "idle") => serving)' /\ BootInv(d)' /\ RevokeInv(d)' /\ PauseInv(d)'
  <2>1. BootInv(d) /\ RevokeInv(d)
    BY DEF KeysInv
  <2>2. caller'[d].at \in {"simulate", "write"} => caller'[d] = caller[d]
    BY <1>4, <2>1 DEF BootInv
  <2>3. BootInv(d)'
    BY <1>1, <1>4, <1>5, <2>1, <2>2 DEF BootInv, Doing, SlotKey, Match
  <2>4. RevokeInv(d)'
    BY <1>1, <1>4, <2>1 DEF RevokeInv, Doing
  <2>5. PauseInv(d)'
    BY <1>4 DEF PauseInv
  <2> QED
    BY <1>1, <1>3, <2>3, <2>4, <2>5
<1>8. HeldKeysAreLive'
  <2>1. ASSUME NEW d \in Operation, Doing(d, "settle")
        PROVE  caller'[d].at = "settle" /\ caller'[d].id = caller[d].id
    BY <1>4, <2>1 DEF Doing
  <2> QED
    BY <1>1, <1>5, <2>1 DEF KeysInv, HeldKeysAreLive, Doing
<1> QED
  BY <1>1, <1>2, <1>5, <1>6, <1>7, <1>8 DEF KeysInv, SlotKey, Match

\* The process stops, and what it held is gone.
LEMMA StopKeeps ==
  ASSUME KeysInv, RuntimeStops
  PROVE  KeysInv'
<1>1. /\ ~serving' /\ ProcessStops
      /\ held' = [s \in Slot |-> NoKey] /\ caller' = [c \in Operation |-> AtRest]
      /\ UNCHANGED <<session, sessionRow, answered, named, slipped, confused>>
  BY DEF RuntimeStops, ProcessStops, chainVars, historyVars
<1>2. ControlsInv'
  BY <1>1, ControlsStep DEF KeysInv, ControlsNext
<1>3. Live' = Live
  BY <1>1 DEF Live
<1>4. \A s \in Slot : held'[s] = NoKey /\ ~held'[s].usable /\ held'[s].id = 0
  BY <1>1 DEF NoKey
<1>5. \A c \in Operation : caller'[c] = AtRest
  BY <1>1
<1>6. KeysTypeOK'
  <2>1. caller' \in [Operation -> CallerType]
    BY <1>1, RestIsTyped
  <2>2. 0 \in 0 .. Len(session) /\ 0 \in 0 .. MaxSessions
    BY KeysAssumption DEF KeysInv, KeysTypeOK
  <2>3. NoKey \in [key : 0 .. Len(session), id : 0 .. MaxSessions, usable : BOOLEAN]
    BY <2>2 DEF NoKey
  <2>4. held' \in [Slot -> [key : 0 .. Len(session), id : 0 .. MaxSessions, usable : BOOLEAN]]
    BY <1>1, <2>3
  <2>5. \A s \in Slot : held'[s].usable => held'[s].key # 0
    BY <1>4
  <2> QED
    BY <1>1, <2>1, <2>4, <2>5 DEF KeysInv, KeysTypeOK
<1>7. ASSUME NEW d \in Operation
      PROVE  (~Doing(d, "idle") => serving)' /\ BootInv(d)' /\ RevokeInv(d)' /\ PauseInv(d)'
  BY <1>5, RestIsTyped DEF BootInv, RevokeInv, PauseInv, Doing
<1> QED
  BY <1>1, <1>2, <1>3, <1>4, <1>6, <1>7 DEF KeysInv, HeldKeysAreLive, Match

\* It starts again: the chain says which of the saved keys are live.
LEMMA RestartKeeps ==
  ASSUME KeysInv, Restart
  PROVE  KeysInv'
<1>1. PICK pick \in Slots :
        /\ \A s \in Slot : \/ pick[s] = 0
                           \/ /\ pick[s] \in SessionId /\ Confirmed(pick[s])
                              /\ session[sessionRow[pick[s]].key].slot = s
        /\ held' = [s \in Slot |->
             IF pick[s] = 0 THEN NoKey
             ELSE [key |-> sessionRow[pick[s]].key, id |-> pick[s], usable |-> TRUE]]
  BY DEF Restart
<1>2. /\ Hydrate /\ ~serving
      /\ answered' = (answered /\ standing'.paused)
      /\ (named' = named /\ slipped' = slipped) \/ ~answered'
      /\ named' \in {named, {}} /\ slipped' \in {slipped, {}}
      /\ UNCHANGED <<session, caller, sessionRow, confused>>
  <2>1. Hydrate /\ ~serving /\ Lapsed(~standing'.paused) /\ UNCHANGED <<chainVars, caller, sessionRow>>
    BY DEF Restart, Hydrate
  <2> QED
    BY <2>1 DEF Lapsed, chainVars
<1>3. ControlsInv'
  BY <1>2, ControlsStep DEF KeysInv, ControlsNext
<1>4. Live' = Live
  BY <1>2 DEF Live
<1>5. \A c \in Operation : Doing(c, "idle")
  BY <1>2 DEF KeysInv
<1>6. ASSUME NEW s \in Slot
      PROVE  \/ held'[s] = NoKey
             \/ /\ held'[s] \in [key : 0 .. Len(session), id : 0 .. MaxSessions, usable : BOOLEAN]
                /\ held'[s].key \in Live /\ held'[s].key # 0
                /\ SlotKey(held'[s].key, held'[s].id, s)
  <2>1. CASE pick[s] = 0
    BY <1>1, <2>1
  <2>2. CASE pick[s] # 0
    <3> DEFINE k == sessionRow[pick[s]].key
               entry == [key |-> k, id |-> pick[s], usable |-> TRUE]
    <3>1. held'[s] = entry /\ pick[s] \in SessionId /\ Confirmed(pick[s]) /\ session[k].slot = s
      BY <1>1, <2>2
    <3>2. sessionRow[pick[s]].active /\ session[k].live
      BY <3>1 DEF Confirmed
    <3>3. k \in 0 .. Len(session) /\ k # 0 /\ Len(session) \in Nat /\ DOMAIN session = 1 .. Len(session)
      BY <3>1, <3>2 DEF KeysInv, KeysTypeOK
    <3>4. k \in DOMAIN session
      BY <3>3
    <3>5. Match(k, pick[s])
      BY <3>1, <3>3 DEF KeysInv
    <3>6. pick[s] \in 0 .. MaxSessions
      BY <3>1, KeysAssumption DEF SessionId
    <3>7. entry \in [key : 0 .. Len(session), id : 0 .. MaxSessions, usable : BOOLEAN]
      BY <3>3, <3>6
    <3> QED
      BY <3>1, <3>2, <3>3, <3>4, <3>5, <3>7 DEF SlotKey, Live
  <2> QED
    BY <2>1, <2>2
<1>7. KeysTypeOK'
  <2>1. 0 \in 0 .. Len(session) /\ 0 \in 0 .. MaxSessions
    BY KeysAssumption DEF KeysInv, KeysTypeOK
  <2>2. NoKey \in [key : 0 .. Len(session), id : 0 .. MaxSessions, usable : BOOLEAN] /\ ~NoKey.usable
    BY <2>1 DEF NoKey
  <2>3. held' \in [Slot -> [key : 0 .. Len(session), id : 0 .. MaxSessions, usable : BOOLEAN]]
    BY <1>1, <1>6, <2>2
  <2>4. \A s \in Slot : held'[s].usable => held'[s].key # 0
    BY <1>6, <2>2
  <2>5. answered' \in BOOLEAN
    BY <1>2
  <2>6. named' \subseteq SessionId /\ slipped' \subseteq SessionId
    BY <1>2 DEF KeysInv, KeysTypeOK
  <2> QED
    BY <1>2, <2>3, <2>4, <2>5, <2>6 DEF KeysInv, KeysTypeOK
<1>8. ASSUME NEW d \in Operation
      PROVE  (~Doing(d, "idle") => serving)' /\ BootInv(d)' /\ RevokeInv(d)' /\ PauseInv(d)'
  <2>1. caller'[d] = caller[d] /\ caller[d].at = "idle" /\ PauseInv(d)
    BY <1>2, <1>5 DEF Doing, KeysInv
  <2> QED
    BY <2>1 DEF BootInv, RevokeInv, PauseInv, Doing
<1>9. (serving /\ answered => standing.paused)' /\ (answered => Live \subseteq named \cup slipped)'
  BY <1>2, <1>4 DEF KeysInv
<1>10. \A s \in Slot : (held[s].id # 0 \/ held[s].usable => SlotKey(held[s].key, held[s].id, s))'
  BY <1>2, <1>6 DEF SlotKey, Match, NoKey
<1>11. HeldKeysAreLive'
  <2>1. \A s \in Slot : held'[s].usable => held'[s].key \in Live' \cup confused'
    BY <1>4, <1>6 DEF NoKey
  <2> QED
    BY <2>1 DEF HeldKeysAreLive
<1> QED
  BY <1>2, <1>3, <1>7, <1>8, <1>9, <1>10, <1>11 DEF KeysInv, Match

\* The store answers, or a brief is written.
LEMMA KeysStay ==
  ASSUME KeysInv, ControlsInv', UNCHANGED keysVars, serving' = serving,
         standing'.paused = standing.paused
  PROVE  KeysInv'
<1>1. UNCHANGED <<session, held, caller, sessionRow, answered, named, slipped, confused>>
  BY DEF keysVars, chainVars, memoryVars, historyVars
<1>2. Live' = Live
  BY <1>1 DEF Live
<1>3. KeysTypeOK'
  BY <1>1 DEF KeysInv, KeysTypeOK
<1>4. ASSUME NEW d \in Operation
      PROVE  (~Doing(d, "idle") => serving)' /\ BootInv(d)' /\ RevokeInv(d)' /\ PauseInv(d)'
  BY <1>1, <1>2 DEF KeysInv, BootInv, RevokeInv, PauseInv, Doing, SlotKey, Match
<1>5. HeldKeysAreLive'
  BY <1>1, <1>2 DEF KeysInv, HeldKeysAreLive, Doing
<1> QED
  BY <1>1, <1>2, <1>3, <1>4, <1>5 DEF KeysInv, SlotKey, Match

LEMMA KeysStep == KeysInv /\ [KeysNext]_<<controlsVars, keysVars>> => KeysInv'
<1> SUFFICES ASSUME KeysInv, [KeysNext]_<<controlsVars, keysVars>> PROVE KeysInv'
  OBVIOUS
<1>1. ASSUME NEW c \in Operation,
             \/ \E s \in Slot, w \in Scopes : AskBoot(c, s, w)
             \/ Simulate(c) \/ BootFails(c)
             \/ \E i \in SessionId : AskRevoke(c, i) \/ AskRotate(c, i) \/ RevokeFails(c, i)
             \/ RevokeEnds(c) \/ ListSessions(c)
      PROVE  KeysInv'
  BY <1>1, CallersGoOn
<1>2. ASSUME NEW c \in Operation,
             \/ IssueLands(c) \/ Cached(c) \/ RecordSession(c)
             \/ \E i \in SessionId : RevokeLands(c, i)
             \/ RevokeSettles(c) \/ AskPause(c) \/ PauseEnds(c)
      PROVE  KeysInv'
  BY <1>2, IssueKeeps, CacheKeeps, RecordSessionKeeps, RevokeLandsKeeps,
     SettleKeeps, PauseKeeps, PauseEndKeeps
<1>3. CASE AskResume \/ RuntimeStops \/ Restart
  BY <1>3, ResumeKeeps, StopKeeps, RestartKeeps
<1>4. CASE Saves /\ UNCHANGED keysVars
  <2>1. ControlsInv'
    BY <1>4, ControlsStep DEF KeysInv, ControlsNext
  <2>2. serving' = serving /\ standing' = standing
    BY <1>4 DEF Saves, SaveLands, SaveLost
  <2> QED
    BY <1>4, <2>1, <2>2, KeysStay
<1>5. ASSUME NEW b \in Directive \cup {NoBrief}, SetBrief(b), UNCHANGED keysVars PROVE KeysInv'
  <2>1. ControlsInv'
    BY <1>5, ControlsStep DEF KeysInv, ControlsNext
  <2>2. serving' = serving /\ standing' = [standing EXCEPT !.brief = b] /\ standing \in AgentControl
    BY <1>5 DEF SetBrief, Commanded, KeysInv, ControlsInv, ControlsTypeOK
  <2>3. standing'.paused = standing.paused
    BY <2>2 DEF AgentControl
  <2> QED
    BY <1>5, <2>1, <2>2, <2>3, KeysStay
<1>6. CASE UNCHANGED <<controlsVars, keysVars>>
  <2>1. ControlsInv'
    BY <1>6, ControlsStep DEF KeysInv
  <2>2. serving' = serving /\ standing' = standing
    BY <1>6 DEF controlsVars
  <2> QED
    BY <1>6, <2>1, <2>2, KeysStay
<1>7. CASE KeysMove
  BY <1>1, <1>2, <1>3, <1>4, <1>7 DEF KeysMove
<1> QED
  BY <1>5, <1>6, <1>7 DEF KeysNext

\* However boots, revocations, rotations, pauses and restarts fall between each
\* other, what is live under a pause that answered is what it named, or a boot
\* the gate had let in.
THEOREM PausesLeaveOnlyNamed == KeysSpec => []PauseLeavesOnlyNamed
<1>1. ASSUME KeysInv PROVE PauseLeavesOnlyNamed
  BY <1>1 DEF KeysInv, PauseLeavesOnlyNamed
<1> QED
  BY <1>1, KeysStart, KeysStep, PTL DEF KeysSpec

\* And a key that a boot would hand back is live, unless it died on its way into
\* the cache, or its revocation is being settled.
THEOREM CachedKeysAreLive == KeysSpec => []HeldKeysAreLive
<1>1. KeysInv => HeldKeysAreLive
  BY DEF KeysInv
<1> QED
  BY <1>1, KeysStart, KeysStep, PTL DEF KeysSpec

\* What an operator commanded stands, whatever the keys do meanwhile.
THEOREM CommandsStandAmongKeys == KeysSpec => []WishesStand
<1>1. KeysInv => WishesStand
  BY DEF KeysInv, ControlsInv
<1> QED
  BY <1>1, KeysStart, KeysStep, PTL DEF KeysSpec
=============================================================================
