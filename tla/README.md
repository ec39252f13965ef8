# Formal models of lacrew

Lacrew runs organisations of AI agents whose money sits behind contracts. The
contracts in `contracts/src` are the enforcement path: an agent proposes an
action, the policies of its node allow it, deny it or escalate it up the tree
of managers to a human. The off-chain services (`packages/orchestrator` with
`packages/flows` and `packages/db`, and `packages/indexer`) drive the agents'
flows, ask humans, meter model calls, hold session keys and mirror what the
chain did.

This directory holds TLA+ models of that program, the TLC runs that check
them, and TLAPS proofs about them. All paths below are relative to the
repository root.

    tlc -config MCOrgRegistry.cfg MCOrgRegistry    # one run, up to three minutes
    tlapm OrgRegistryProofs.tla                    # one module of proofs

## 1. The system

### Contracts

| component | state | operations | what is hard | what makes it correct |
|---|---|---|---|---|
| Organisation registry (`OrgRegistry.sol`) | a struct per account, a list of children per account, the governor | hire, fire, toggle, move, hand over | two representations of one tree, list surgery by swap-and-pop, unbounded walks upwards | lists and parent pointers agree, no cycle, firing keeps every chain of command |
| Escalation router (`EscalationRouter.sol`) | intents, the wiring, per-node policies | propose, resolve, setters | everything it reads (tree, keys, policies, purse, wiring) changes between propose and resolve | money moves once, on authority, within key grants; an intent only climbs; it ends |
| Treasury (`Treasury.sol`) and payroll (`EpochStreamer.sol`) | balance, reserve, allowances; grants, recipients, epochs | deposit, stream, spend; set and clear grants, run epochs | three callers share one reserve, batches, retries and out-of-order epoch ids | reserve = sum of allowances ≤ balance; an epoch pays once and everybody |
| Session registry (`SessionRegistry.sol`) | sessions, a pointer per key, rate counters | issue, revoke, record a proposal | old sessions stay in storage behind the pointer, expiry by clock, window seams | one live session per key, the dead stay dead, bounded bursts |
| Policies (`policies/*.sol`) | caps, whitelist, rate windows | check, record, setters; off-chain, the proof that a call must escalate (`core/src/types.ts`) | clocks, window edges, order of modules | stack verdict is the strictest one, appending narrows, a proof of escalation holds |
| Governance (`GovernanceModule.sol`) | seats, running sums, parameters, proposals | seat changes, propose, vote, veto, execute | seats change while proposals are open; votes are weighed early, quorums late; the module calls itself | sums match seats, tallies match ballots, humans decide and one remains |
| Marketplace (`MarketplacePayments.sol`) | listings, receipts, debts | list, purchase (direct or through the router), withdraw, sweep | money arrives before its purchase is recorded, fees change | debts are covered, sellers get their share, receipts stay |

`propose` reads the tree (`getNode`), the key's session (`isKeyValid`,
`keyLimits`, `isTargetAllowed`, `withinTimeWindow`, then `recordProposal`), the node's
policy stack (`check`), and either finalises (`spendAllowance`, the call of
the target, `record`) or stores an intent awaiting the node's parent.
`resolve` is called by whoever the intent awaits; their own policy decides
whether it ends there or climbs. Governance owns the setters of the others
once bound. Payroll streams into allowances that only the router spends. The
marketplace's `purchaseFor` is a target of the router.

### Off-chain services

| component | state | operations | what is hard | what makes it correct |
|---|---|---|---|---|
| Flow engine (`flows.ts`, `packages/flows/src/run.ts`) | run rows in memory and in the store; calls in flight | start, delegate, step, park, continue, settle, recover at boot; pause, resume, cancel | everything between two awaits: answers before a run has parked, two continuations of one run, a crash between the effect of a step and its record | a step that is not idempotent repeats only through a window that can be named; nobody parked stays parked once it was answered |
| Human gates (`humanGates.ts`) and dual control (`dualControl.ts`) | a question per step and run, with the state to resume; answers, concurrences, expiry | ask, answer, expire, cancel, attach, consume | an answer, the expiry and the cancelling of the run race; consumption is persisted after the fact | a question is decided once and releases once |
| Connector asks (`connectorAsks.ts`) | one record per question in memory, a row in the store, writes on the way | post, answer, close, consume | writes land out of order, fail, and outlive the process | one yes, one call |
| Agent runtime: controls (`agentControls.ts`) and keys (`runtime.ts`) | paused and brief per agent with a row; session slots, key cache, session rows | pause, resume, brief; boot, issue, narrow, rotate, revoke, restart | chain transactions, listings and cache writes of several callers overlap; memory, row and chain can each be wrong | what was last commanded stands; a pause leaves live only keys it can name a reason for; a cached key works |
| Heartbeat (`heartbeat.ts`) | configs, claimed windows, running ticks | sweep, press, claim, settle | busy check, then awaits, then claim; two replicas; a crash after the claim | a window is worked once, an overlap is explained |
| Job queue (`queue/pg-boss.ts`) and webhooks (`webhooks.ts`) | deliveries with claims, jobs with tries | post, claim, enqueue, work, settle, expire | at-least-once queue behind at-most-once claims; deliveries repeated by the producer | a delivery is one job, a duplicate is queued, what is queued is settled |
| Inference budgets (`inferenceBudgets.ts`, `model/budgeted.ts`) | usage per scope and period, budgets, alerts | check, call, meter, alert, edit, turn of the period | checked before the model call, charged after it, by parallel calls and lost writes | the overshoot is bounded, each crossing is alerted once and by somebody |
| Indexer (`packages/indexer/src`) | derived intents and audit, a sink with rows | replay, subscribe, take a log, write rows, restart | backfill against live logs, each processed without waiting for the one before | the store says what the chain does, a replay completes the sink, the audit has no doubles |

The flow engine parks a run on a gate, a review or an ask and is continued by
its answer, by a deadline sweep or at boot. Webhooks, heartbeats and pressed
runs start flows, webhooks through the job queue. A step of kind agent calls
the model, which the budgets meter. A step that proposes on the chain signs
with a session key of the runtime, narrowed when the policies prove that the
call must escalate. The remaining components (connectors, HTTP and MCP
surface, wallet adapters, the rest of the SDK, the rest of persistence,
governance sweep, mock tokens) are listed in `PROJECT.json` with the reason
why they are left out; section 6 says more.

## 2. The modules

    OrgChart  <== OrgRegistry          KeyGrants <== SessionRegistry
    PolicyView <== PolicyModules       Allowances <== EpochStreamer (+ Treasury)
         \              \                  /               /
          EscalationRouter = OrgChart + KeyGrants + PolicyView + Allowances
                        ==> Approvals
    GovernanceModule        MarketplacePayments        Amounts (sums)

    OneAnswer <== FlowRuns -- RunStore        AgentKeys -- AgentControls
    Webhooks -- JobQueue -- Heartbeats        InferenceBudgets
    EventIndexer                              ConnectorAsks

`A <== B` reads "B implements the abstract specification A": B instantiates A
with a refinement mapping and a run checks A's specification as a property of B.
`A -- B` reads "one extends the other" (`RunStore`, `JobQueue` and `AgentControls`
are the extended ones). The router is composed with the four abstract
neighbours instead of the detailed ones, so that its own run stays small and
what it assumes of them is exactly what their runs establish.

| module | code | correspondence |
|---|---|---|
| `OrgChart` | `IOrgRegistry.getNode` readers | `node[a]` is the struct; `Above` is the walk of `_isAncestor` as a least closed set |
| `OrgRegistry` | `OrgRegistry.sol` | `children[p]` is the array, `RemoveChild` its swap-and-pop; an account can be `address(0)`, which `addNode` does not refuse |
| `SessionRegistry` | `SessionRegistry.sol` | `session`, `rateLimit` are sequences indexed by id; `proposed` is a history variable; `RecordProposal` is the router's session-bound propose as far as this contract sees it |
| `KeyGrants` | — | what the router reads of a key |
| `Treasury`, `EpochStreamer` | the same contracts | `Stream(caller, due)` is a batch of `streamAllowance` calls in one transaction; `setGrants` is several `setGrant` |
| `Allowances` | — | free funds and allowances |
| `PolicyModules` | `policies/*.sol`, `core/src/types.ts` | each module with its clock, `CheckStackAt` the walk at an instant; `passed` is a history variable; `Forced` is the reading of caps, window and count from which the orchestrator proves that a call must escalate |
| `PolicyView` | — | verdicts of a set of modules; a rate window is its current count |
| `GovernanceModule` | `GovernanceModule.sol` | calldata is a record of `Call`; `Direct` is an account calling a function, `Execute` the module calling itself; `ballot` keeps what each vote was |
| `EscalationRouter` | `EscalationRouter.sol` | one action per outcome of `propose` and `resolve`; setters; steps of the neighbours under `Environment` |
| `Approvals` | — | claims that pay once, in the step that approves them |
| `MarketplacePayments` | `MarketplacePayments.sol` | one action per function; `Deliver` is a payment with no purchase after it (the router pays first; the call may fail) |
| `Amounts` | — | `Total` of a function into `Nat` as a count of units, which can be proved about, and the lemmas on it |
| `RunStore` | `flowStore.ts`, `db/src/flows.ts`, `db/src/schema/flows.ts` | a run's row and its statements: start, claim, checkpoint, control requests, settle |
| `FlowRuns` | `flows.ts`, `run.ts`, `humanGates.ts`, `dualControl.ts` | a thread is a stack of frames, one per `startFlow`, `attachResume`, `resume…` or recovery call in flight, with a program counter at each await; a flow is a sequence of steps of some kind, perhaps idempotent; a run may delegate another one; gates, reviews and asks are the questions of a run's steps |
| `OneAnswer` | — | a question is decided once per asking and releases no more than it was agreed to |
| `JobQueue` | `queue/pg-boss.ts` | jobs with tries, a visibility timeout, replicas that crash |
| `Webhooks` | `webhooks.ts`, `webhookStore.ts`, `server.ts` | a producer posts a key, perhaps again; claim, enqueue and settlement are steps of their own |
| `Heartbeats` | `heartbeat.ts`, `db/src/heartbeat.ts`, `server.ts` | replicas sweep by a clock of minutes; `window` is the unique key of a tick; a pressed run; the cron flows of the same sweep |
| `InferenceBudgets` | `inferenceBudgets.ts`, `inferenceBudgetStore.ts`, `model/budgeted.ts`, `flows/src/inferenceBudget.ts`, `db/src/budgets.ts` | a client walks the scopes of its call (crew, then seat) before it and again after it; per scope: budget read, standing before, atomic add, claim of the alert by compare-and-swap |
| `EventIndexer` | `watcher.ts`, `cli.ts`, `store.ts`, `sinks/`, `db/src/audit.ts` | the router's logs in chain order; replay one by one, live logs unawaited; a sink that can lose a row |
| `AgentControls` | `agentControls.ts`, `db/src/runtime.ts` | memory, row and the writes between them; histories: `wish` and `since`, the last command on each field and the first write that carries it; `undone`, fields a restart took back |
| `AgentKeys` | `runtime.ts`, `sdk/src/onchain.ts` | sessions on the chain, slots and cached keys in memory; operations boot, issue, list and revoke with a step per transaction |
| `ConnectorAsks` | `connectorAsks.ts`, `runtimeStore.ts`, `db/src/connectors.ts` | one ask (asks share nothing), its row, numbered writes in flight; `yeses`, `callsOut` and `revived` are counts kept for the property |
| `*Proofs` | — | theorems, see section 5 |
| `MC*` | — | instances for TLC; `MCServices` holds four services that share no state side by side, each explored with the others at rest, and `MCAgentKeys` explores `AgentControls` by itself and again under `AgentKeys` |

A call that reverts is no step. Amounts are naturals, and every subtraction of the code that
Solidity checks has its guard. ERC-20 tokens and the call of a target are
external: a token moves exactly what was asked or the call reverts. An `await`
of the off-chain code is the boundary of an action: what JavaScript runs
between two of them is one step. Every module also holds a few deliberately
wrong variants of its definitions (`RemoveNothing`, `LetOutFirst`, ...), each
placed before the right one: they record which mistake each property is there
to catch, and `PROJECT.json` names the pair.

## 3. The runs

| run | instance | what it checks |
|---|---|---|
| `org_tree` | 4 accounts (symmetric but the root), one kind, one entry of `address(0)` | `RootedTree`, `ChildrenMatchParents`, `FiringKeepsChains`; refinement `ImplementsChart` |
| `session_keys` | 1 agent, 2 keys, 2 sessions, 4 instants, windows and rates | `BurstBound`; refinement `KeepsGrants` |
| `payroll` | 2 nodes, supply 3, amounts to 2, epochs to 3 | `Solvent`, `EpochPaysEachGrantOnce`; refinement `KeepsAllowances` |
| `policies` | 1 agent, limit 2 in 3 s, clock to 5, a margin of 1 s, every stack of up to 3 modules | `AtMostTwoWindows`, `AppendingNarrows`, `ProvedEscalationHolds`; refinement `KeepsView` |
| `governance` | root, a second human, an agent; 2 proposals at once | `TalliesAreBallots`, `FullBackingPasses`, `RosterNeedsHumans` |
| `router_static` | root, manager, worker; 2 intents; all policies; a standing tree | `ApproverIsAbove` and, under fairness, `IntentsSettle` |
| `router_changes` | the same people and a key; tree, keys, caps, stacks, wiring change | `SpendNeedsAuthority`; refinement `KeepsApprovals` |
| `marketplace` | a seller, a buyer, the platform; one listing | `Solvent`, `SellersAreCredited` |
| `flow_runs` | 5 runs, 1 of them posted, 2 threads, 1 operator request, 1 crash; flows with a gate, a review, a delegation | `AnsweredIsPickedUp`, `NoLostWakeup`, `RepeatsNeedAWindow`; refinement `ImplementsOneAnswer` |
| `webhooks` | 2 replicas, 1 key posted up to 3 times, 3 tries, 2 crashes | `OneJobPerDelivery`, `DuplicatesAreQueued` and, under fairness, `QueuedIsSettled` |
| `agent_keys` | the controls by themselves with 4 writes; then 1 slot, 2 callers, 2 sessions with 2 commands | `WishesStand`, `PauseLeavesOnlyNamed`, `HeldKeysAreLive` |
| `services` | heartbeats: 2 replicas, 2 tries, minutes to 3, a pressed run, a crash; budgets: crew and a seat, 2 clients, 3 calls, 2 periods; indexer: 2 tickets, 3 logs, 2 boots, a lost row; asks: 2 yeses, 5 writes, 2 stale yeses read back | `WindowOnce`, `OverlapIsExplained`; `OvershootBounded`, `AlertedOnce`, `AlertsKeepUp`; `MirrorsChain`, `ReplayCompletesSink`; `OneYesOneCall` |

Type invariants are in no run: where a module has theorems they are proved,
and a type that is broken shows in the properties above.

**Why the bounds are enough.** In the registry, three accounts besides the
root are the least at which a removed node has two children *and* a parent
that is not the root, or a moved subtree has depth two. Two sessions give
every order of re-issue and revoke of a key, or one session for each of two
keys; four instants hold two windows of two seconds and the seam between them.
Two nodes are the least at which a batch can pay one and not the other, and
amounts to 2 of a supply of 3 make a batch fail. A stack of three modules holds
every pair of verdicts in every order with one module between. In the router
three levels are the least with an approver that neither raised the intent nor
ends it; two intents compete for one allowance. Two proposals are the least at
which executing one changes the quorum of the other.

Off the chain, every hazard is a race of two. Two threads in `FlowRuns` are an
answer and what parks the run, a sweep and an answer, or an operator and a
step; one crash at any await, and its recovery, meet each of them. Two replicas
race for a delivery or for a window; three tries let a job be handed out twice
and then given up. Two clients meter at once, with a third call after them that
sees what they left; two periods have one turn. Two logs of one ticket are the
least that can overlap, a third is the live log that arrives in a replay. Five
writes of an ask are the two yeses, their consumption, and one that is late.

Four runs state how far they follow the system, with a `CONSTRAINT` in their MC
module. `router_changes` follows states in which at most `MaxChanged` = 2
things (hirings, firings and moves so far; slots, caps, rate windows and keys that
differ) have moved at once, so every *pair* of changes meets every intent.
`governance` follows at most one parameter away from its deployed value and
at most one proposal that is not about human seats, and a deployment without
a root seat only through its set-up. `services` follows one of a turn of the
period, an edit of a budget and a lost write, and three of the sweeps handed out
again, the press and the crash (`FewDisturbances`). `agent_keys`
follows, where keys move, two commands whose writes land one at a time
(`FewWrites`); what more and lost writes do is explored without keys. A state
one step beyond is still checked, it is only not continued from.

Deadlock checking is off in `governance`, `flow_runs`, `webhooks`, `services`
and `agent_keys`: with the model's posts, clocks, calls and crashes used up
nothing is left to do there.

### Fairness

Two properties need any. `IntentsSettle` assumes `ApproversAnswer`, weak
fairness of `Resolve` for each intent: whoever is asked eventually answers, yes
or no. The code schedules nothing here; its approvers are people and agents
whose inbox lists what awaits them, and `resolve` with a "no" is always open to
the account awaited. No fairness is assumed of proposals or of the environment,
and the tree stands still: with reorganisations the property is false for a
plain reason (an approver that was fired cannot climb).

`QueuedIsSettled` assumes that a replica which is up goes on with the job it
works on (an event loop does), that some free replica takes each job that waits
(pg-boss polls) and that the queue hands out a job whose worker went silent
(its expiry). Crashes, failing writes and posts are not fair. The property
excepts deliveries whose outcome could not be written and jobs out of tries.

## 4. Where the code and its documents disagree

Each of these is a definition of a module, with the sentence it states; it is
no property of a run, since the code does not keep it, and adding it to the
run's `.cfg` shows a trace.

- `EscalationRouter!ApproverIsAbove` with reorganisations (`router_changes`):
  "escalations resolve only through ancestors" (SPEC.md:317). An intent stores
  its approver; after a move or a firing that account resolves it though it is
  no longer above the agent. That an intent only climbs one level at a time
  (`HandedUpOneLevel`) is what does hold.
- `GovernanceModule!EarlyNeedsEveryHuman`: the fast path "only fires when
  every seated human backs the action now" (GovernanceModule.sol:411-413). The weight of a
  human who voted yes and was then removed still counts, and stands in for a
  human who did not vote.
- `PolicyModules!SlidingWindow`: a "sliding-window action count" (SPEC.md:49).
  The window is fixed, and the action that opens it is compared with nothing:
  up to `2 * maxActions - 1` (one, if `maxActions` is zero) pass within
  `windowSeconds`. `AtMostTwoWindows` is what does hold.
- `SessionRegistry!EveryRouterIsServed`: "session-gated proposes work per
  asset" (DeployMockOrg.s.sol:254). A registry counts for one router; through a
  second one a session-gated propose reverts.
- `FlowRuns!ContinuedOnce`: a parked run is continued by one caller
  (flows.ts:594, :776). Between the check of the waiting set and the claim
  (flows.ts:625) a second one passes; `RepeatsNeedAWindow` names that window.
- `FlowRuns!CancelledIsFinal` (flows.ts:117): a late write of the run that was
  parking puts a cancelled row back to waiting.
- `FlowRuns!AttemptStands`: the open attempt is "the only state that tells a
  restarting orchestrator 'this write may already have happened'"
  (packages/flows/src/run.ts:455-458). An answer that lands between attachResume
  and its saved resume state starts the run twice (dualControl.ts:700-708,
  :782); a start and a settle clear the row's attempt whoever opened it
  (flows.ts:643), so the second start can erase the attempt of a call that is
  out, and after a crash the boot enters that step again. `RepeatsNeedAWindow`
  counts it among its windows.
- `Heartbeats!CronFiresOnce` (server.ts:821-823): what a cron flow fired is
  remembered per process, and by the minute the sweep runs in. `CronFiresAreFew`
  is what does hold.
- `InferenceBudgets!CrossingsAlert` (inferenceBudgets.ts:255-258,
  apps/docs/content/inference-budgets.md:82-84): a cap that is raised leaves the alerted
  state behind it, and the next crossing of the same kind is silent.
- `EventIndexer!PendingIsPending` (watcher.ts): an intent whose logs overlap
  can stay pending in the store after it was resolved.
- `AgentControls!CommandsKeepTheRest` (agentControls.ts): a command writes the
  whole row, and after a hydration that failed it erases the part it never read.
- `AgentKeys!PauseIsComplete`: a boot in flight outlives the pause, whose
  purge did not see its key. `PauseLeavesOnlyNamed` is what does hold.
- `ConnectorAsks!YesIsSpentOnce` (connectorAsks.ts:305): the unawaited write of
  an approval can land after the one of its consumption; after a restart the
  row says approved again. `OneYesOneCall` counts the restarts that read such a
  row, and no more calls go out than those and the yeses together.

## 5. What is proved

TLC covers an instance; the theorems hold for every value of the constants
that the modules' assumptions allow. `PROJECT.json` lists them with the
property each one states.

**`Amounts`.** `Total f` is the number of pairs `<<x, i>>` with `i` in
`1..f[x]`, so facts about sums follow from the library's cardinality theorems
without induction: `TotalNat`, `TotalPlus`, `TotalOnly`, `TotalChange`,
`EntryAtMostTotal`.

**`OrgRegistryProofs`.** `ChartIsRooted`: in the abstract chart no set of
non-root nodes is closed under `parent`, hence no cycle and no island.
`RootedTree` is itself inductive with the type of `node`; each of hire, toggle,
fire, move has a lemma, and the one about a move is where the least-set reading
of `Above` is used. `RegistryIsConsistent`: the types with
`ChildrenMatchParents` are inductive for the detailed registry, with lemmas on
what swap-and-pop and concatenation do to the entries of a list.
`RegistryImplementsChart`: from it every step of the registry is a step of the
chart or leaves `node` alone. `RegistryIsRooted` combines the two.
`ChainsSurviveFiring` and `SubtreesMoveWhole` compare the chains of command
before and after a step, each a least closed set, by showing the one closed
under the other's rule.

**`SessionRegistryProofs`.** That a key has one live session is not
inductive alone: without `PointersInRange` a pointer could name the id issued
next. `KeysAreConsistent` proves the conjunction; `SessionsStayDead` follows
because expiry and revocation are never undone. `BurstsAreBounded` rests on
`RateInv`: what a window counted is what was proposed since it opened
(`Windowed`) and never more than the limit (`Limited`), so that any stretch as
long as a window meets two of them at most. `RegistryKeepsGrants` is the
refinement of `KeyGrants`, step by step.

**`EpochStreamerProofs`.** `PayrollInv` is the type invariant with `Solvent`,
`ScheduleExact` and `CursorAhead`. Reserving an epoch's `Due` keeps the purse
solvent because `Due` is a sheet of naturals whose total the purse checked, and
`Due` equals the grants because the list names every granted node once, which
swap-and-pop keeps (`WithoutLists`). `PurseIsSolvent`, `EpochsPayOnce` and
`ScheduleStaysExact` follow; `PayrollKeepsAllowances` refines `Allowances`, from
`TokensKept`: a step moves tokens only between the purse and who it deals with.

**`StandaloneProofs`.** The policy modules: `TwoWindowsAtMost` rests on
`ModulesInv`, that what each rate module let through is `Spaced` by the windows
that counted it: the last entries, as many as the open window counted, lie
in it, those before are no later than its start, and those a whole limit before
it a whole window earlier. `ModulesImplementView` is the refinement of
`PolicyView`, which makes the router's theorems theorems beside these modules.
`LongerStacksNarrow` and `ProofsOfEscalationHold` are about stacks of every
length: the walk of `PolicyStack.check` equals what its modules say together
(`WalkSums`), an induction over the stack that is done by a least
counterexample (`LeastNumber`, from the well-foundedness of `<`). The
marketplace: the types with `Solvent` are inductive; the fee ceiling in the type is what
makes the seller's share a natural number. `MarketIsSolvent` states it, and
`SellersGetTheirShare` adds the division (`ShareAtLeast`: a fee rounded down
never takes more than the ceiling). The off-chain services
are proved here too, one invariant each.
- Budgets. `OvershootInv`: usage over a ceiling is what the clients past their
  check still add. `AnnounceInv`, `KeepUpInv`: the alerted state lies between
  the standing before the record that claimed it and the usage:
  `OvershootIsBounded`, `CrossingsAlertOnce`, `AlertsFollowUsage`.
- Indexer. `CarriedInv`, `AuditInv`, `ChainInv`, `MirrorInv`: what the logs in
  flight carry, that the audit has a ticket's log once, and that the store
  lags the chain by exactly those logs: `StoreMirrorsChain`,
  `ReplayFillsTheSink`, `AuditHasNoDoubles`.
- Job queue. What a step can do to the jobs of one piece of work, for the
  webhooks and the heartbeats alike (`JobChanged`, `HandingIsWork`,
  `SendingGrows`).
- Webhooks. `HookInv` ties the claim of a key to whoever holds it, the job it
  became, and what was lost: `DeliveriesAreQueuedOnce`, `DuplicatesAreNotDropped`.
- Heartbeats. `BeatsInv`: who works on a window holds that window's tick alone
  (`TicksHeld`), the ledger holds each window once (`LedgerKept`), who is about
  to claim saw the newest tick over or given up (`LooksHold`), and an older
  tick that still runs was given up unless somebody raced for it
  (`OlderAreStale`): `WindowsAreWorkedOnce`, `OverlapsHaveACause`. `FiresInv`
  says that the fires of the minute on the clock which no replica remembers were
  forgotten in crashes: `CronFlowsFireFew`, which is what holds instead of
  `CronFiresOnce` of section 4.
- Asks. `AsksInv`: wherever an unspent yes is, in memory, in the last write or
  in a row that nothing has superseded, the calls so far leave room for it; a
  stale one that is read back makes its own room: `YesReleasesOneCall`.
- Controls and keys. `ControlsInv`: the memory has the last command on each field
  that no restart took back, and so has every write, out or landed, that was sent
  with or after that command.
  `KeysInv` adds for each operation what it has listed, revoked and is about to
  cache: `CommandsStand`, `PausesLeaveOnlyNamed`, `CachedKeysAreLive`.

**`GovernanceModuleProofs`.** `GovInv` adds to the invariants one fact
that nothing in the code rechecks: a proposal that calls the module itself is
high tier (`SelfCallsAreHigh`). The final say of humans needs the tallies: a
human quorum that is met has a human's ballot behind it (`TallyHasVoter`).
`GovernanceBooks` is the conjunction, `SeatsStayAddedUp` and
`TalliesStayBallots` its parts; `HumansRemain` and `HumansDecideTheRoster` are
action properties. `FullBackingSuffices`: when everybody seated voted yes, the
weights of the ballots add up to no less than the quorum computed from the sums.

**`EscalationRouterProofs`.** `RouterTypes` is an inductive type invariant with
parts for the chart, the purse, the intents and the wiring, which the
neighbours' steps keep as well. Each step of the router is then classified
once: it raises an intent (`Raised`), replaces one (`Replaced`), streams an
allowance (`Stream`), or leaves intents and allowances as they are (`Quiet`).
From the classification follow `IntentsClimb` (an intent is handed to the
parent of who it awaited), `SpendIsAuthorised` (the reference stack holds the spend cap
in every stack it assigns), `DirectSpendsAreGranted` (a spend nobody answered for
had an ALLOW from every module of the agent's stack and, where the session
registry is consulted, a live key with the scopes, the cap and the target) and
`RouterKeepsApprovals`, the refinement of `Approvals`. `StandingTreesAskAncestors` rests on `StandInv`: as long as the
tree was never reorganised, a pending intent awaits the manager of its agent or
somebody above that one. In a rooted tree the next approver is again above, and
nobody is above themselves, so the agent is never its own approver. The rooted
tree at the start is a hypothesis; `RegistryIsRooted` establishes it for the
registry.

**`FlowRunsProofs`.** One invariant for each of three questions.
- Answers. `Types` says of every frame where its program counter can stand
  and what lies under it; `Threads` that the frames of a thread belong
  together; `Owed` that the calls about to go out at a question, with the
  agreements nobody has read, number what it was agreed to and not yet
  released. Each action is either calm (decides nothing, lets nothing out) or
  maps to `Decide`, `Release` or `AskAgain` of `OneAnswer`:
  `RunsAreWellFormed`, `QuestionsAreDecidedOnce`.
- Wake-ups. A run that is parked is not alone: `WakeInv` names who
  will look at it. `Heard`: while its child has ended, a call of the run that
  still has to write its row or to look again, or a call of the child that
  still has to tell. `WillAttach` and `Noticed`: before a question is decided the
  run is attached or about to be, and after it a call, the sweep, or the second
  look of `attached` is on the way. A call that ends hands this duty on, except
  one that settles its own row; a call under another (`nested`) returns to one
  that settles or records (`Survive`). Only a crash breaks the chain:
  `DelegatorsAreWoken`, `AnswersArePickedUp`.
- Repeats. `RepeatInv` says two things. Of the whole (`Orderly`): a
  parked call's question was asked, a run without a row has no call but one that
  starts, a run a boot has still to look at has none. Of each run that no late
  parking undid (`Sane`): one question is open at most, and while it is, every
  call that may still work stands before it (`Crowd`: an attach and an answer can
  both resume); otherwise there is one such call at most, and none while the row
  can be claimed (`Alone`); the row leads to the step that call is at, to none, or
  to a question that is spent (`Near`); who is past a question spent it
  (`Past`). So what went out went out once (`OnceOut`): every working call is
  beyond it or at its end, and the row enters the step again only while
  somebody is about to record it, or at an attempt in flight, where the boot
  stops. The calls in flight are a set of places (`Placed`), so that a lemma per
  way of moving (`Steady`, `Asking`, `Releasing`, `Calling`, `Blanking`,
  `Parking`, `Advancing`, `Entering`, `Beginning`, `Crashing`) speaks of sets and
  not of stacks, and each action cites one: `RepeatsAreExplained`.

**Assumptions.** Amounts, quorums, times and the arguments of calls have the
types of the code's parameters; the sets that are summed over, and the replicas, are finite; zero
and the contracts' own addresses are distinct from accounts where the code
compares them; limits are positive (a rate module's own limit may be zero, which
its code takes for one, and the router's view counts it as one), and the
fee ceiling is below the denominator. Each is named next
to its constants and TLC evaluates it on the instances.

**Only model-checked.** Liveness (`IntentsSettle`, `QueuedIsSettled`): fairness
is out of the prover's reach. Every other property of the runs is a theorem.

## 6. Not modelled, and what was abstracted

Left out whole, with the reason in `PROJECT.json`: connectors and external
tools, the HTTP and MCP surface, mock tokens, and the governance sweep with Safe
approvals. The sweep mirrors `Passes` of the contract in its own words
(governance reads that are stale can make it finalise a defeat). Left out in
part: the rest of the agent runtime, wallet adapters and SDK, persistence
queries, the memory queue (its pending and detached jobs are lost when the
process ends).

- *Contracts.* Calldata and the effect of the call on a router's target; so
  targets that call back are not modelled either. A target's failure has no effect on
  the router's own decision and is left out. Gas, and with it the length of walks and
  lists. Tokens that take fees or call back. Direct calls of `recordProposal` by accounts that are
  not routers, which revert or return.
- *Policies.* A proof of escalation holds of the modules as they are: a cap
  raised in between is outside it, the difference of the clocks is part of the
  margin, and modules the orchestrator cannot read only weaken its proof.
- *Flow runs.* One process. A step that a late parking repeats
  delegates its run anew under the identity of the first: the second run's
  insert fails on the unique parent and is swallowed (flowStore.ts:436-448), so
  the two share a row here. The saves of gates and reviews are assumed to land
  (a failure is logged and dropped, dualControl.ts:383); failures of the
  statements on runs are left out; `max_steps` is one of the errors. The
  per-run scope of reviews, the removal of flows, paused agents and
  plan-required are left out. Hydration runs before the server listens, oldest
  run first. A review that is asked again is covered by the theorem and not by
  the run.
- *Webhooks, heartbeats.* The administration of hooks is left out. A replica
  sweeps one at a time; a tick that cannot be settled is only logged, one that
  cannot be claimed is skipped.
- *Budgets.* One crew with seats, one dimension, one kind of period. The
  overshoot is at most one call per client above the ceiling.
  `AlertsKeepUp` excepts scopes whose records overlapped, whose budget was
  edited, or that had a lapse.
- *Indexer.* Logs only derive intents. The JSON audit is skipped in a replay
  onto a store that is not empty. Torn writes of files and reorganisations of the chain are left out.
- *Agent keys.* One agent, in the tree (pausing one that was fired revokes
  nothing). A listing is atomic. Expiry, delegations, revocations by others,
  transactions that land after a crash and receipts that time out are left out.
  Which of several confirmed rows fills a slot is a free choice.
- *Asks.* One ask; its write may be re-entered at any time, its writes answer
  in any order, fail, and outlive the process.

Things met on the way that no property is about: a crash between a step's effect
and its record performs the effect again at boot; a run that was resumed and
crashes in its first step fails closed with no checkpoint, and so does one that
finished after its last; a `wait` step is released by a boot or a resume;
a control request that arrives as a run is claimed is dropped; a
child's end resumes a parent that an operator paused; the busy check of a
heartbeat looks at the newest tick only; a webhook whose enqueue failed keeps its key
claimed, so that the producer's retry is answered as a duplicate and the delivery
is lost; a job delivered again restarts a flow that the boot recovered; two records
that overlap can lose the "exceeded" alert; re-issuing a session opens a fresh
rate counter (SessionRegistry.sol:262); an epoch id of the greatest uint64
leaves no next one (EpochStreamer.sol:101); a proposal past its deadline
without quorum stays Active (GovernanceModule.sol:386); a target that calls
back proposes before its rate is recorded (EscalationRouter.sol:254); a propose
boots a cache slot with the window and rate it needs and signs with the one
without (runtime.ts); a resume during a pause lets the pause's purge mark a
fresh key as revoked while it lives on the chain; two overlapping issues of a session
return the same simulated id (onchain.ts); the failed funding of a key leaves
it alive and unknown; a rotation under a pause revokes and replaces nothing; a
failed hydration of the controls unpauses everybody.

## 7. What is left to do

1. The governance sweep as a reader of `GovernanceModule` with stale reads, and
   what it finalises.
2. Several replicas of the flow engine, which today assume that they are alone.
3. The per-run scope of reviews, and paused agents in flows.
