------------------------------ MODULE FlowRuns ------------------------------
(***************************************************************************)
(* The flow engine and what stops it: runFlow (flows/src/run.ts), the run  *)
(* surface (orchestrator/src/flows.ts), the durable rows (RunStore), human *)
(* gates (humanGates.ts) and dual-control reviews (dualControl.ts), with   *)
(* the operator's pause, resume and cancel and the recovery at boot.       *)
(*                                                                         *)
(* One process on one event loop.  A thread is one call of runOne (or one  *)
(* cancel) that has not returned, with the calls it awaits on a stack; its *)
(* steps are the stretches of code between two awaits, so the threads      *)
(* interleave where the code awaits.  Nothing stops two threads from       *)
(* holding the same run.                                                   *)
(*                                                                         *)
(* Run r executes Flow[r], a sequence of steps; runs are numbered by the   *)
(* time they start.  An agent step delegates run Child[r].                 *)
(***************************************************************************)
EXTENDS RunStore, Sequences, FiniteSets

CONSTANTS Flow,          \* the steps of each run
          Child,         \* the run an agent step delegates, or 0
          MaxRoots,      \* bounds: runs nobody delegates,
          MaxThreads,    \* calls in flight at once,
          MaxRequests,   \* an operator's requests,
          MaxCrashes     \* and crashes

Run    == DOMAIN Flow
Kinds  == {"model", "write", "review", "human", "agent", "wait"}
Thread == 1 .. MaxThreads

ASSUME FlowAssumption ==
  /\ Flow \in Seq(Seq([kind : Kinds, idempotent : BOOLEAN]))
  /\ \A r \in Run : Flow[r] # <<>>
  /\ Child \in [Run -> Run \cup {0}]
  /\ \A r \in Run : Child[r] # 0 => r < Child[r]
  /\ \A r, s \in Run : Child[r] = Child[s] /\ Child[r] # 0 => r = s
  /\ \A r \in Run : \A i \in DOMAIN Flow[r] : Flow[r][i].kind = "agent" => Child[r] # 0
ASSUME BoundAssumption == {MaxRoots, MaxThreads, MaxRequests, MaxCrashes} \subseteq Nat

VARIABLES row,        \* orchestrator_flow_run_state
          trace,      \* orchestrator_flow_runs: how each run ended so far
          question,   \* gates and reviews, by run and step
          sweeping,   \* expired by the sweep, the resume not yet started
          thread,
          boot,       \* what hydrateRuns has still to look at
          done,       \* history: calls that went out, branches released
          torn,       \* history: steps that were over, untold, at a crash
          stale,      \* history: runs whose progress a late parking undid,
                      \*          and the runs that those delegate
          agreed,     \* history: how often a question was answered yes
          requests, crashes

vars == <<row, trace, question, sweeping, thread, boot, done, torn, stale,
          agreed, requests, crashes>>
history == <<torn, stale, agreed>>
faults  == <<boot, requests, crashes>>

Step     == UNION {DOMAIN Flow[r] : r \in Run}
At       == UNION {{<<r, i>> : i \in DOMAIN Flow[r]} : r \in Run}
Kind(r, i) == Flow[r][i].kind
Question == {q \in At : Kind(q[1], q[2]) \in {"human", "review"}}
IsReview(q) == Kind(q[1], q[2]) = "review"

\* Whether re-entering the step could do the same work twice.
HasEffect(r, i) == Kind(r, i) \in {"write", "review", "agent"}

Unasked == [status |-> "none", outcome |-> "none", resume |-> FALSE]
Asked   == [Unasked EXCEPT !.status = "pending"]
QuestionType ==
  [status  : {"none", "pending", "answered", "timed_out", "cancelled", "consumed"},
   outcome : {"none", "yes", "no", "timed_out", "cancelled"},
   resume  : BOOLEAN]

\* A call of runOne, or an operator's pause or cancel.
Frame0 == [run |-> 0, pc |-> "start", at |-> 0, end |-> "none", why |-> "none",
           first |-> FALSE, op |-> FALSE]
FrameType ==
  [run : Run,
   pc  : {"unrequest", "start", "control", "clear", "begin", "step", "seats",
          "call", "nested", "settle", "record", "trace", "push", "wake",
          "return", "attach", "attached", "recheck",
          "pausing", "close", "request", "children"},
   at  : Step \cup {0},
   end : Lifecycle,      \* how the run ends; "none" while it goes on
   why : Reasons,        \* why it waits
   first : BOOLEAN,      \* the first step of a resume: it releases a wait
   op  : BOOLEAN]        \* an operator's

\* runOne of run r, fresh or resumed at step i.
RunOne(r, i, resumed) ==
  [Frame0 EXCEPT !.run = r, !.at = i, !.first = resumed]
\* resumeClaimed, by the holder of the claim of the row.
ResumeClaimed(r) == [RunOne(r, row[r].cursor, TRUE) EXCEPT !.pc = "unrequest"]

Free == {t \in Thread : thread[t] = <<>>}
New  == CHOOSE t \in Free : TRUE
Top(t)   == Head(thread[t])
Under(t) == Tail(thread[t])
Is(t, pc) == thread[t] # <<>> /\ Top(t).pc = pc
Here(t)  == <<Top(t).run, Top(t).at>>
Alive(r) == \E t \in Thread : \E i \in DOMAIN thread[t] : thread[t][i].run = r

Spawn(frame)  == Free # {} /\ thread' = [thread EXCEPT ![New] = <<frame>>]
Become(t, frame) == thread' = [thread EXCEPT ![t] = <<frame>> \o Tail(@)]
Go(t, pc)     == Become(t, [Top(t) EXCEPT !.pc = pc])
\* The call waits for another one, and goes on from frame; a call that nobody
\* waits for and that has nothing left to do is replaced.
CallOut(t, frame, callee) ==
  thread' = [thread EXCEPT ![t] =
    IF frame.pc = "return" /\ Under(t) = <<>> THEN <<callee>>
    ELSE <<callee>> \o (<<frame>> \o Under(t))]

SetRow(r, value) == row' = [row EXCEPT ![r] = value]
SetQuestion(q, value) == question' = [question EXCEPT ![q] = value]

\* The step is over, or the run stops in it.
After(x, end, why) ==
  [x EXCEPT !.end = end, !.why = why,
            !.pc = IF HasEffect(x.run, x.at) THEN "settle" ELSE "record"]
Ends(t, end)  == Become(t, After(Top(t), end, "none"))
Parks(t, why) == Become(t, After(Top(t), "waiting", why))

\* What an agent step makes of the run it delegated (delegateOutcome).
Delegated(x, end) ==
  CASE end = "completed"            -> After(x, "none", "none")
    [] end \in {"error", "cancelled"} -> After(x, "error", "none")
    [] OTHER                        -> After(x, "waiting", "child")

\* The stack of t once its call returned: to an agent step, or to a call that
\* waited for the run it woke.
Returned(t) ==
  LET under == Under(t) IN
  IF under # <<>> /\ Head(under).pc = "nested"
  THEN <<Delegated(Head(under), Top(t).end)>> \o Tail(under)
  ELSE under
Returns(t) == thread' = [thread EXCEPT ![t] = Returned(t)]
-----------------------------------------------------------------------------
Init ==
  /\ row = [r \in Run |-> NoRow]
  /\ trace = [r \in Run |-> "none"]
  /\ question = [q \in Question |-> Unasked]
  /\ sweeping = {}
  /\ thread = [t \in Thread |-> <<>>]
  /\ boot = {}
  /\ done = [a \in At |-> 0]
  /\ torn = {}
  /\ stale = {}
  /\ agreed = [q \in Question |-> 0]
  /\ requests = 0
  /\ crashes = 0

Started == {r \in Run : row[r].status # "none" \/ Alive(r)}
Root    == {r \in Run : \A s \in Run : Child[s] # r}

\* A person, a schedule or a webhook starts a run nobody delegates.
Start(r) ==
  /\ boot = {}
  /\ r \in Root \ Started
  /\ Cardinality(Root \cap Started) < MaxRoots
  /\ Spawn(RunOne(r, 1, FALSE))
  /\ UNCHANGED <<row, trace, question, sweeping, done, history, faults>>

Unrequest(t) ==
  /\ Is(t, "unrequest")
  /\ SetRow(Top(t).run, Request(row[Top(t).run], "none"))
  /\ Go(t, "start")
  /\ UNCHANGED <<trace, question, sweeping, done, history, faults>>

Begins(t) ==
  /\ Is(t, "start")
  /\ SetRow(Top(t).run, StartRun(row[Top(t).run]))
  /\ Go(t, "control")
  /\ UNCHANGED <<trace, question, sweeping, done, history, faults>>

\* controlFor, between two steps: it reads the request ...
Control(t) ==
  LET x == Top(t)  request == row[x.run].request IN
  /\ Is(t, "control")
  /\ Become(t,
       CASE request = "pause"  -> [x EXCEPT !.pc = "clear", !.end = "waiting", !.why = "operator"]
         [] request = "cancel" -> [x EXCEPT !.pc = "clear", !.end = "cancelled"]
         [] OTHER -> [x EXCEPT !.pc = IF HasEffect(x.run, x.at) THEN "begin" ELSE "step"])
  /\ UNCHANGED <<row, trace, question, sweeping, done, history, faults>>

\* ... and then clears it, whatever it is by now.
Clear(t) ==
  /\ Is(t, "clear")
  /\ SetRow(Top(t).run, Request(row[Top(t).run], "none"))
  /\ Go(t, "trace")
  /\ UNCHANGED <<trace, question, sweeping, done, history, faults>>

Begin(t) ==
  LET x == Top(t) IN
  /\ Is(t, "begin")
  /\ SetRow(x.run, SetAttempt(row[x.run], x.at))
  /\ Go(t, "step")
  /\ UNCHANGED <<trace, question, sweeping, done, history, faults>>
-----------------------------------------------------------------------------
(* The steps.                                                              *)
AtStep(t, kinds) == Is(t, "step") /\ Kind(Top(t).run, Top(t).at) \in kinds

Model(t) ==
  /\ AtStep(t, {"model"})
  /\ \E end \in {"none", "error"} : Ends(t, end)
  /\ UNCHANGED <<row, trace, question, sweeping, done, history, faults>>

Wait(t) ==
  /\ AtStep(t, {"wait"})
  /\ IF Top(t).first THEN Ends(t, "none") ELSE Parks(t, "wait")
  /\ UNCHANGED <<row, trace, question, sweeping, done, history, faults>>

Write(t) ==
  /\ AtStep(t, {"write"})
  /\ Go(t, "call")
  /\ UNCHANGED <<row, trace, question, sweeping, done, history, faults>>

\* The call goes out; its result may be an error all the same.
Call(t) ==
  /\ Is(t, "call")
  /\ done' = [done EXCEPT ![Here(t)] = @ + 1]
  /\ \E end \in {"none", "error"} : Ends(t, end)
  /\ UNCHANGED <<row, trace, question, sweeping, history, faults>>

\* Nothing was asked yet.  A review resolves the reviewer's seat first, across
\* an await after which it does not look again.
AskGate(t) ==
  /\ AtStep(t, {"human"}) /\ question[Here(t)].status = "none"
  /\ SetQuestion(Here(t), Asked)
  /\ Parks(t, "question")
  /\ UNCHANGED <<row, trace, sweeping, done, history, faults>>

ResolveSeats(t) ==
  /\ AtStep(t, {"review"}) /\ question[Here(t)].status = "none"
  /\ Go(t, "seats")
  /\ UNCHANGED <<row, trace, question, sweeping, done, history, faults>>

AskReview(t) ==
  /\ Is(t, "seats")
  /\ SetQuestion(Here(t), Asked)
  /\ Parks(t, "question")
  /\ UNCHANGED <<row, trace, sweeping, done, history, faults>>

\* Still open.  Past its deadline the step finds it timed out.
StillOpen(t) ==
  /\ AtStep(t, {"human", "review"}) /\ question[Here(t)].status = "pending"
  /\ \/ Parks(t, "question") /\ UNCHANGED question
     \/ /\ SetQuestion(Here(t), [question[Here(t)] EXCEPT !.status = "consumed",
                                                          !.outcome = "timed_out"])
        /\ Ends(t, "error")
  /\ UNCHANGED <<row, trace, sweeping, done, history, faults>>

\* A mutant of Spend: the decision can be spent again.
SpendAgain(t, outcomes) ==
  /\ question[Here(t)].status \in {"answered", "timed_out"}
  /\ question[Here(t)].outcome \in outcomes
  /\ UNCHANGED question

\* Decided: the decision is spent by the step that reads it, without an await
\* in between.  A gate answered "no" takes the port that ends the run; a gate
\* timed out has none.
Spend(t, outcomes) ==
  LET q == Here(t) IN
  /\ question[q].status \in {"answered", "timed_out"} \cup
       (IF IsReview(q) THEN {"cancelled"} ELSE {})
  /\ question[q].outcome \in outcomes
  /\ SetQuestion(q, [question[q] EXCEPT !.status = "consumed"])

Released(t) ==
  /\ AtStep(t, {"human", "review"})
  /\ Spend(t, {"yes"})
  /\ IF IsReview(Here(t)) THEN Go(t, "call") /\ UNCHANGED done
     ELSE Ends(t, "none") /\ done' = [done EXCEPT ![Here(t)] = @ + 1]
  /\ UNCHANGED <<row, trace, sweeping, history, faults>>

Refused(t) ==
  /\ AtStep(t, {"human", "review"})
  /\ Spend(t, {"no", "timed_out", "cancelled"})
  /\ Ends(t, IF AtStep(t, {"human"}) /\ question[Here(t)].outcome = "no"
             THEN "completed" ELSE "error")
  /\ UNCHANGED <<row, trace, sweeping, done, history, faults>>

\* human_gate_cancelled, human_gate_spent, dual_control_spent.
Spent(t) ==
  LET q == Here(t) IN
  /\ AtStep(t, {"human", "review"})
  /\ \/ question[q].status = "consumed"
     \/ ~IsReview(q) /\ question[q].status = "cancelled"
  /\ Ends(t, "error")
  /\ UNCHANGED <<row, trace, question, sweeping, done, history, faults>>

\* An agent step delegates a run, nested in this one, or finds it delegated.
Delegate(t) ==
  LET x == Top(t)  c == Child[x.run] IN
  /\ AtStep(t, {"agent"})
  /\ row[c].status = "none"
  /\ CallOut(t, [x EXCEPT !.pc = "nested"], RunOne(c, 1, FALSE))
  /\ stale' = IF x.run \in stale THEN stale \cup {c} ELSE stale
  /\ UNCHANGED <<row, trace, question, sweeping, done, torn, agreed, faults>>

FindDelegate(t) ==
  LET x == Top(t)  c == Child[x.run] IN
  /\ AtStep(t, {"agent"})
  /\ row[c].status # "none"
  /\ Become(t, Delegated(x, row[c].status))
  /\ UNCHANGED <<row, trace, question, sweeping, done, history, faults>>
-----------------------------------------------------------------------------
(* The end of a step: settle the attempt, then record the checkpoint.      *)
Settle(t) ==
  /\ Is(t, "settle")
  /\ SetRow(Top(t).run, SetAttempt(row[Top(t).run], 0))
  /\ Go(t, "record")
  /\ UNCHANGED <<trace, question, sweeping, done, history, faults>>

NextStep(x) == IF x.end = "none" /\ x.at < Len(Flow[x.run]) THEN x.at + 1 ELSE 0

Record(t) ==
  LET x == Top(t)
      next == IF x.end = "waiting" THEN x.at ELSE NextStep(x)
  IN  /\ Is(t, "record")
      /\ SetRow(x.run, Checkpoint(row[x.run], next, x.why))
      /\ Become(t,
           IF NextStep(x) # 0 THEN [x EXCEPT !.at = next, !.pc = "control", !.first = FALSE]
           ELSE [x EXCEPT !.pc = "trace", !.end = IF @ = "none" THEN "completed" ELSE @])
      /\ UNCHANGED <<trace, question, sweeping, done, history, faults>>

(* The end of a run, or of a stretch of it: appendRun writes the trace and  *)
(* then the row; then whoever waits for the run is woken, or the run is     *)
(* attached to what it waits for.                                           *)
Trace(t) ==
  /\ Is(t, "trace")
  /\ trace' = [trace EXCEPT ![Top(t).run] = Top(t).end]
  /\ Go(t, "push")
  /\ UNCHANGED <<row, question, sweeping, done, history, faults>>

Push(t) ==
  LET x == Top(t)
      new == AppendRun(row[x.run], x.end, IF x.end = "waiting" THEN x.at ELSE 0, x.why)
  IN  /\ Is(t, "push")
      /\ SetRow(x.run, new)
      /\ stale' = IF x.end = "waiting" /\ x.why # "operator" /\ row[x.run] # new
                  THEN stale \cup {x.run} ELSE stale
      /\ Go(t, IF x.end \in Terminal THEN "wake"
               ELSE CASE x.why = "question" -> "attach"
                      [] x.why = "child"    -> "recheck"
                      [] OTHER              -> "return")
      /\ UNCHANGED <<trace, question, sweeping, done, torn, agreed, faults>>

Parents(r) == {p \in Run : Child[p] = r}

\* wakeDelegator: the claim settles who continues the delegating run, and the
\* caller waits for it.
WakeUp(t, p, frame) ==
  IF MayClaim(row[p])
  THEN SetRow(p, Claimed(row[p])) /\ CallOut(t, frame, ResumeClaimed(p))
  ELSE UNCHANGED row /\ Become(t, frame)

Wake(t) ==
  LET x == Top(t)
      after == [x EXCEPT !.pc = IF x.op THEN "children" ELSE "return"]
  IN  /\ Is(t, "wake")
      /\ IF Parents(x.run) = {} THEN UNCHANGED row /\ Become(t, after)
         ELSE \E p \in Parents(x.run) : WakeUp(t, p, after)
      /\ UNCHANGED <<trace, question, sweeping, done, history, faults>>

\* A mutant of Recheck: the delegated run is not looked at.
RecheckNothing(t) ==
  /\ Is(t, "recheck")
  /\ Go(t, "return")
  /\ UNCHANGED <<row, trace, question, sweeping, done, history, faults>>

\* The delegated run may have ended while this one was being parked on it.
Recheck(t) ==
  LET x == Top(t)
      after == [x EXCEPT !.pc = "return"]
  IN  /\ Is(t, "recheck")
      /\ IF row[Child[x.run]].status \in Terminal THEN WakeUp(t, x.run, after)
         ELSE UNCHANGED row /\ Become(t, after)
      /\ UNCHANGED <<trace, question, sweeping, done, history, faults>>

Return(t) ==
  /\ Is(t, "return")
  /\ Returns(t)
  /\ UNCHANGED <<row, trace, question, sweeping, done, history, faults>>

Attach(t) ==
  /\ Is(t, "attach")
  /\ SetQuestion(Here(t), [question[Here(t)] EXCEPT !.resume = TRUE])
  /\ Go(t, "attached")
  /\ UNCHANGED <<row, trace, sweeping, done, history, faults>>

\* A mutant of Decided: the attach leaves it to the answer.
DecidedLater(q) == FALSE

\* The answer may already be in.
Decided(q) == IF IsReview(q) THEN question[q].status # "pending"
              ELSE question[q].status \in {"answered", "timed_out"}

\* It is not waited for.
Attached(t) ==
  LET x == Top(t) IN
  /\ Is(t, "attached")
  /\ IF ~Decided(Here(t)) THEN Returns(t)
     ELSE IF Under(t) = <<>> THEN Become(t, RunOne(x.run, x.at, TRUE))
     ELSE /\ Free # {}
          /\ thread' = [thread EXCEPT ![t] = Returned(t),
                                      ![New] = <<RunOne(x.run, x.at, TRUE)>>]
  /\ UNCHANGED <<row, trace, question, sweeping, done, history, faults>>
-----------------------------------------------------------------------------
(* Answers, deadlines and the operator.                                    *)
Resumes(q) == IF question[q].resume THEN Spawn(RunOne(q[1], q[2], TRUE))
              ELSE UNCHANGED thread

Answer(q, outcome) ==
  /\ boot = {}
  /\ question[q].status = "pending"
  /\ SetQuestion(q, [question[q] EXCEPT !.status = "answered", !.outcome = outcome])
  /\ agreed' = IF outcome = "yes" THEN [agreed EXCEPT ![q] = @ + 1] ELSE agreed
  /\ Resumes(q)
  /\ UNCHANGED <<row, trace, sweeping, done, torn, stale, faults>>

Sweep(q) ==
  /\ boot = {} /\ sweeping = {}
  /\ question[q].status = "pending"
  /\ SetQuestion(q, [question[q] EXCEPT !.status = "timed_out", !.outcome = "timed_out"])
  /\ sweeping' = {q}
  /\ UNCHANGED <<row, trace, thread, done, history, faults>>

SweepResumes(q) ==
  /\ q \in sweeping
  /\ sweeping' = {}
  /\ Resumes(q)
  /\ UNCHANGED <<row, trace, question, done, history, faults>>

Ask(r) == /\ boot = {} /\ requests < MaxRequests
          /\ requests' = requests + 1

\* The state is read before the request is written.
Pause(r) ==
  /\ Ask(r)
  /\ row[r].status = "running"
  /\ Spawn([Frame0 EXCEPT !.run = r, !.pc = "pausing", !.op = TRUE])
  /\ UNCHANGED <<row, trace, question, sweeping, done, history, boot, crashes>>

RequestPause(t) ==
  /\ Is(t, "pausing")
  /\ SetRow(Top(t).run, Request(row[Top(t).run], "pause"))
  /\ Returns(t)
  /\ UNCHANGED <<trace, question, sweeping, done, history, faults>>

Resume(r) ==
  /\ Ask(r)
  /\ MayClaim(row[r])
  /\ SetRow(r, Claimed(row[r]))
  /\ Spawn(ResumeClaimed(r))
  /\ UNCHANGED <<trace, question, sweeping, done, history, boot, crashes>>

\* cancel reads the state once; what it does at its end goes by that reading.
Cancels(r) == [Frame0 EXCEPT !.run = r, !.pc = "close", !.at = row[r].cursor,
                             !.end = row[r].status, !.op = TRUE]
Cancellable(r) == row[r].status \in {"running", "waiting"}

Cancel(r) ==
  /\ Ask(r)
  /\ Cancellable(r)
  /\ Spawn(Cancels(r))
  /\ UNCHANGED <<row, trace, question, sweeping, done, history, boot, crashes>>

Close(t) ==
  LET x == Top(t) IN
  /\ Is(t, "close")
  /\ question' = [q \in Question |->
       IF q[1] = x.run /\ question[q].status = "pending"
       THEN [question[q] EXCEPT !.status = "cancelled", !.outcome = "cancelled"]
       ELSE question[q]]
  /\ Become(t, IF x.end = "waiting" THEN [x EXCEPT !.pc = "trace", !.end = "cancelled"]
               ELSE [x EXCEPT !.pc = "request"])
  /\ UNCHANGED <<row, trace, sweeping, done, history, faults>>

RequestCancel(t) ==
  /\ Is(t, "request")
  /\ SetRow(Top(t).run, Request(row[Top(t).run], "cancel"))
  /\ Go(t, "children")
  /\ UNCHANGED <<trace, question, sweeping, done, history, faults>>

CancelChildren(t) ==
  LET c == Child[Top(t).run] IN
  /\ Is(t, "children")
  /\ IF c # 0 /\ Cancellable(c) THEN Become(t, Cancels(c)) ELSE Returns(t)
  /\ UNCHANGED <<row, trace, question, sweeping, done, history, faults>>
-----------------------------------------------------------------------------
(* The process dies; the next one looks at every row that is running.      *)

\* The step is over, and neither a checkpoint nor an attempt in flight says so:
\* it was settled and not recorded, or another call of the run settled it.
Untold(t) ==
  /\ Is(t, "settle") \/ Is(t, "record")
  /\ HasEffect(Top(t).run, Top(t).at)
  /\ row[Top(t).run].attempt # Top(t).at

Crash ==
  /\ crashes < MaxCrashes
  /\ crashes' = crashes + 1
  /\ torn' = torn \cup {Here(t) : t \in {u \in Thread : Untold(u)}}
  /\ thread' = [t \in Thread |-> <<>>]
  /\ sweeping' = {}
  /\ boot' = {[run |-> r, row |-> row[r]] : r \in {s \in Run : row[s].status = "running"}}
  /\ UNCHANGED <<row, trace, question, done, stale, agreed, requests>>

\* A mutant of InFlight: an attempt is no reason to stop.
NeverInFlight(b) == FALSE

\* An attempt was in flight, and its step must not be entered twice.
InFlight(b) == b.row.attempt # 0 /\ ~Flow[b.run][b.row.attempt].idempotent

\* hydrateRuns, one row of its list after the other, before the server listens.
Recover ==
  \E b \in boot :
  /\ \A c \in boot : b.run <= c.run
  /\ Free = Thread
  /\ boot' = boot \ {b}
  /\ Spawn(IF trace[b.run] \in Terminal
           THEN [RunOne(b.run, 0, FALSE) EXCEPT !.pc = "trace", !.end = trace[b.run]]
           ELSE IF InFlight(b) \/ b.row.cursor = 0
           THEN [RunOne(b.run, 0, FALSE) EXCEPT !.pc = "trace", !.end = "error"]
           ELSE RunOne(b.run, b.row.cursor, TRUE))
  /\ UNCHANGED <<row, trace, question, sweeping, done, history, requests, crashes>>
-----------------------------------------------------------------------------
Move(t) ==
  \/ Unrequest(t) \/ Begins(t) \/ Control(t) \/ Clear(t) \/ Begin(t)
  \/ Model(t) \/ Wait(t) \/ Write(t) \/ Call(t)
  \/ AskGate(t) \/ ResolveSeats(t) \/ AskReview(t) \/ StillOpen(t)
  \/ Released(t) \/ Refused(t) \/ Spent(t)
  \/ Delegate(t) \/ FindDelegate(t)
  \/ Settle(t) \/ Record(t) \/ Trace(t) \/ Push(t)
  \/ Wake(t) \/ Recheck(t) \/ Return(t) \/ Attach(t) \/ Attached(t)
  \/ RequestPause(t) \/ Close(t) \/ RequestCancel(t) \/ CancelChildren(t)

Next ==
  \/ \E r \in Run : Start(r) \/ Pause(r) \/ Resume(r) \/ Cancel(r)
  \/ \E t \in Thread : Move(t)
  \/ \E q \in Question : \/ \E outcome \in {"yes", "no"} : Answer(q, outcome)
                         \/ Sweep(q) \/ SweepResumes(q)
  \/ Crash \/ Recover

Spec == Init /\ [][Next]_vars
-----------------------------------------------------------------------------
(* Properties.                                                             *)
TypeOK ==
  /\ row \in [Run -> RowType(Step)]
  /\ trace \in [Run -> Lifecycle]
  /\ question \in [Question -> QuestionType]
  /\ sweeping \subseteq Question
  /\ \A t \in Thread : \A i \in DOMAIN thread[t] : thread[t][i] \in FrameType
  /\ boot \subseteq [run : Run, row : RowType(Step)]
  /\ done \in [At -> Nat]
  /\ torn \subseteq At /\ stale \subseteq Run
  /\ agreed \in [Question -> Nat]
  /\ requests \in 0 .. MaxRequests /\ crashes \in 0 .. MaxCrashes

\* Two threads on one run, an answer racing the parking, a second answer, a
\* crash after the answer: a question is decided once, and what it holds back
\* happens at most once for each yes (dualControl.ts check, humanGates.ts
\* gate).  A review alone can be asked again, by a second thread.
Reviews == {q \in Question : IsReview(q)}
Once == INSTANCE OneAnswer WITH
          Repeatable <- Reviews,
          decision <- [q \in Question |-> question[q].outcome],
          released <- [q \in Question |-> done[q]]
ImplementsOneAnswer == Once!Spec

\* A question answered or timed out while its run is being parked still finds
\* the run: whoever is late, the answer or the attach, starts the resume
\* (attachResume, observe and sweep).  A crash may lose it.
AnsweredIsPickedUp ==
  crashes = 0 => \A q \in Question :
    question[q].status \in {"answered", "timed_out"} /\ row[q[1]].status = "waiting"
      /\ row[q[1]].pause = "question" /\ row[q[1]].cursor = q[2]
    => Alive(q[1]) \/ q \in sweeping

\* A run parked on a run it delegated is woken when that one ends, although
\* the end may come while the pause is being written (pushRun, wakeDelegator
\* and the re-check at the end of runOne).  A crash may lose it.
NoLostWakeup ==
  crashes = 0 => \A r \in Run :
    row[r].status = "waiting" /\ row[r].pause = "child" /\ row[Child[r]].status \in Terminal
    => Alive(r) \/ Alive(Child[r])

\* A call goes out twice only if its step is declared idempotent, if the process
\* died between the end of the step and its checkpoint with no attempt left in
\* flight, or if the claim of the run, or of one that delegates it, was
\* overwritten by the write that parked it.
RepeatsNeedAWindow ==
  \A a \in At : done[a] > 1 =>
    a \in torn \/ a[1] \in stale \/ Flow[a[1]][a[2]].idempotent

\* A run that is cancelled stays cancelled: flows.ts says "Terminal - a
\* cancelled run never resumes".  The code does not keep it: a run that is
\* being parked writes its pause over the cancellation.
CancelledIsFinal ==
  [][\A r \in Run : row[r].status = "cancelled" => row'[r].status = "cancelled"]_vars

\* A parked run is continued once per wake-up ("Continue a run parked on a
\* delegated child, once - whoever gets there first", flows.ts), so without a
\* crash no call goes out twice.  The code does not keep it.
ContinuedOnce == \A a \in At : done[a] <= 1

\* The open attempt is "the only state that tells a restarting orchestrator
\* 'this write may already have happened'" (run.ts).  The code does not keep
\* it: attachResume and whoever decides a review (observe, sweep) can both
\* resume its run; the second start and the second settle erase the attempt
\* of the first.
AttemptStands ==
  \A t \in Thread : Is(t, "settle") /\ HasEffect(Top(t).run, Top(t).at)
    => row[Top(t).run].attempt = Top(t).at
=============================================================================
