--------------------------- MODULE FlowRunsProofs ---------------------------
(***************************************************************************)
(* Theorems about flow runs, for any flows, threads, requests and crashes: *)
(* types, and that the gates and reviews implement OneAnswer.  A question  *)
(* is owed no more releases than it was agreed to; what is still owed is   *)
(* an answer nobody read, or a call about to go out.  And, until a crash,  *)
(* nobody parked is left behind: of a question that was decided and a run  *)
(* that ended, some call in flight has still to take notice.  A call goes  *)
(* out twice only for a cause: an idempotent step, a crash that found the  *)
(* end of a step untold, or a row overwritten by a late parking.           *)
(***************************************************************************)
EXTENDS FlowRuns, SequenceTheorems, FiniteSetTheorems, TLAPS

-----------------------------------------------------------------------------
(* Flow runs.                                                              *)
\* A row, and a call in flight, that points at a step where it needs one.
Cursor(r) == DOMAIN Flow[r] \cup {0}
Rows(r) == {w \in RowType(Step) : /\ w.cursor \in Cursor(r)
                                  /\ w.status = "waiting" => w.cursor # 0}

OnStep == {"unrequest", "start", "control", "clear", "begin", "step", "seats", "call",
           "nested", "settle", "record", "attach", "attached", "recheck"}
Shape(pc, i, end, why) ==
  /\ pc \in OnStep \/ end = "waiting" => i # 0
  /\ pc \in {"settle", "record"} => end # "running" /\ (why = "none" \/ end = "waiting")
  /\ pc \in {"clear", "trace", "push"} => end \in Terminal \cup {"waiting"}
Frames == {f \in FrameType : /\ f.at \in Cursor(f.run)
                             /\ Shape(f.pc, f.at, f.end, f.why)
                             /\ f.pc = "seats" => Kind(f.run, f.at) = "review"}

\* Only a call that was interrupted by another one lies under it.
Unders == Seq({f \in Frames : f.pc \in {"nested", "return", "children"}})
Stacks == {s \in Seq(Frames) : s # <<>> => Tail(s) \in Unders}

LEMMA Pushed ==
  ASSUME NEW f \in Frames, NEW u \in Unders
  PROVE  /\ <<f>> \o u \in Stacks /\ <<f>> \o u # <<>>
         /\ Head(<<f>> \o u) = f /\ Tail(<<f>> \o u) = u
<1> DEFINE Waits == {g \in Frames : g.pc \in {"nested", "return", "children"}}
<1>1. u \in Seq(Waits) /\ u \in Seq(Frames) /\ Len(u) \in Nat
  BY DEF Unders
<1> DEFINE s == <<f>> \o u
<1>2. s \in Seq(Frames) /\ Len(s) = 1 + Len(u) /\ s[1] = f
      /\ \A i \in 1 .. Len(u) : s[i + 1] = u[i]
  BY <1>1
<1>3. s # <<>> /\ Head(s) = f
  BY <1>2
<1>4. Tail(s) = u
  <2>1. Tail(s) \in Seq(Frames) /\ Len(Tail(s)) = Len(u)
    BY <1>1, <1>2, <1>3
  <2>2. \A i \in 1 .. Len(u) : Tail(s)[i] = u[i]
    BY <1>1, <1>2, <1>3
  <2> QED
    BY <1>1, <2>1, <2>2, SeqEqual
<1> QED
  BY <1>2, <1>3, <1>4 DEF Stacks

LEMMA Popped ==
  ASSUME NEW s \in Stacks, s # <<>>
  PROVE  Head(s) \in Frames /\ Tail(s) \in Unders
<1>1. s \in Seq(Frames)
  BY DEF Stacks
<1> QED
  BY <1>1, HeadTailProperties DEF Stacks

LEMMA UnderIsStack ==
  ASSUME NEW u \in Unders
  PROVE  /\ u \in Stacks
         /\ u # <<>> => /\ Head(u) \in Frames /\ Tail(u) \in Unders
                        /\ Head(u).pc \in {"nested", "return", "children"}
<1> DEFINE Waits == {g \in Frames : g.pc \in {"nested", "return", "children"}}
<1>1. u \in Seq(Waits) /\ u \in Seq(Frames)
  BY DEF Unders
<1>2. ASSUME u # <<>> PROVE Head(u) \in Waits /\ Tail(u) \in Seq(Waits)
  BY <1>1, <1>2, HeadTailProperties
<1> QED
  BY <1>1, <1>2 DEF Stacks, Unders

Threads == thread \in [Thread -> Stacks]

\* The calls that are about to go out at q.
Calls(q) == {t \in Thread : Is(t, "call") /\ Here(t) = q}

\* A step of the threads that lets no further call out.
Moves == thread' \in [Thread -> Stacks] /\ \A q \in Question : Calls(q)' \subseteq Calls(q)

\* The frame on top lets no held-back call out.
Held(f) == f.pc = "call" => <<f.run, f.at>> \notin Question

LEMMA OneStack ==
  ASSUME Threads, NEW t \in Thread, NEW s \in Stacks, s # <<>> => Held(Head(s)),
         thread' = [thread EXCEPT ![t] = s]
  PROVE  Moves
<1>1. thread' \in [Thread -> Stacks]
      /\ \A u \in Thread : thread'[u] = IF u = t THEN s ELSE thread[u]
  BY DEF Threads
<1>2. \A q \in Question : Calls(q)' \subseteq Calls(q)
  BY <1>1 DEF Calls, Is, Here, Top, Held
<1> QED
  BY <1>1, <1>2 DEF Moves

LEMMA BecomeMoves ==
  ASSUME Threads, NEW t \in Thread, thread[t] # <<>>, NEW f \in Frames, Held(f),
         Become(t, f)
  PROVE  Moves
<1> DEFINE s == <<f>> \o Tail(thread[t])
<1>1. Tail(thread[t]) \in Unders
  BY Popped DEF Threads
<1>2. s \in Stacks /\ s # <<>> /\ Head(s) = f
  BY <1>1, Pushed
<1>3. thread' = [thread EXCEPT ![t] = s]
  BY DEF Become
<1> HIDE DEF s
<1> QED
  BY <1>2, <1>3, OneStack

LEMMA CallOutMoves ==
  ASSUME Threads, NEW t \in Thread, thread[t] # <<>>,
         NEW f \in Frames, f.pc \in {"nested", "return", "children"},
         NEW g \in Frames, Held(g),
         CallOut(t, f, g)
  PROVE  Moves
<1>0. Tail(thread[t]) \in Unders
  BY Popped DEF Threads
<1>1. CASE f.pc = "return" /\ Under(t) = <<>>
  <2>1. <<g>> \in Stacks /\ <<g>> # <<>> /\ Head(<<g>>) = g
    <3>1. <<>> \in Unders /\ <<g>> = <<g>> \o <<>>
      BY DEF Unders
    <3> QED
      BY <3>1, Pushed
  <2>2. thread' = [thread EXCEPT ![t] = <<g>>]
    BY <1>1 DEF CallOut
  <2> QED
    BY <2>1, <2>2, OneStack
<1>2. CASE ~(f.pc = "return" /\ Under(t) = <<>>)
  <2> DEFINE u == <<f>> \o Tail(thread[t])
             s == <<g>> \o u
  <2>1. u \in Unders
    <3>1. f \in {h \in Frames : h.pc \in {"nested", "return", "children"}}
      OBVIOUS
    <3> QED
      BY <1>0, <3>1 DEF Unders
  <2>2. thread' = [thread EXCEPT ![t] = s]
    BY <1>2 DEF CallOut, Under
  <2> HIDE DEF u
  <2>3. s \in Stacks /\ s # <<>> /\ Head(s) = g
    BY <2>1, Pushed
  <2> HIDE DEF s
  <2> QED
    BY <2>2, <2>3, OneStack
<1> QED
  BY <1>1, <1>2

\* The end of a step, and what an agent step makes of its run.
LEMMA AfterIsFrame ==
  ASSUME NEW x \in Frames, x.at # 0, NEW end \in Lifecycle \ {"running"}, NEW why \in Reasons,
         why # "none" => end = "waiting"
  PROVE  After(x, end, why) \in Frames /\ After(x, end, why).pc \in {"settle", "record"}
<1> DEFINE pc == IF HasEffect(x.run, x.at) THEN "settle" ELSE "record"
           f == [run |-> x.run, pc |-> pc, at |-> x.at, end |-> end, why |-> why,
                 first |-> x.first, op |-> x.op]
<1>1. x \in FrameType
  BY DEF Frames
<1>2. After(x, end, why) = f
  <2>1. After(x, end, why) = [x EXCEPT !.end = end, !.why = why, !.pc = pc]
    BY DEF After
  <2> HIDE DEF pc
  <2> QED
    BY <1>1, <2>1 DEF FrameType
<1>3. pc \in {"settle", "record"}
  OBVIOUS
<1>4. /\ x.run \in Run /\ x.at \in Step \cup {0}
      /\ x.first \in BOOLEAN /\ x.op \in BOOLEAN
  BY <1>1 DEF FrameType
<1> HIDE DEF pc
<1>5. f \in FrameType
  BY <1>3, <1>4 DEF FrameType
<1>6. f.at \in Cursor(f.run)
  BY DEF Frames
<1> QED
  BY <1>2, <1>3, <1>5, <1>6 DEF Frames, OnStep, Shape

LEMMA DelegatedIsFrame ==
  ASSUME NEW x \in Frames, x.at # 0, NEW end
  PROVE  Delegated(x, end) \in Frames /\ Delegated(x, end).pc \in {"settle", "record"}
BY AfterIsFrame DEF Delegated, Lifecycle, Terminal, Reasons

LEMMA ReturnedIsStack ==
  ASSUME Threads, NEW t \in Thread, thread[t] # <<>>
  PROVE  /\ Returned(t) \in Stacks
         /\ Returned(t) # <<>> => Held(Head(Returned(t)))
<1> DEFINE u == Tail(thread[t])
<1>1. u \in Unders
  BY Popped DEF Threads
<1>2. CASE u # <<>> /\ Head(u).pc = "nested"
  <2> DEFINE f == Delegated(Head(u), Top(t).end)
  <2>1. Head(u) \in Frames /\ Tail(u) \in Unders /\ Head(u).at # 0
    BY <1>1, <1>2, UnderIsStack DEF Frames, OnStep, Shape
  <2>2. f \in Frames /\ Held(f)
    BY <2>1, DelegatedIsFrame DEF Held
  <2>3. Returned(t) = <<f>> \o Tail(u)
    BY <1>2 DEF Returned, Under
  <2> HIDE DEF f
  <2> QED
    BY <2>1, <2>2, <2>3, Pushed
<1>3. CASE ~(u # <<>> /\ Head(u).pc = "nested")
  <2>1. Returned(t) = u
    BY <1>3 DEF Returned, Under
  <2> QED
    BY <1>1, <2>1, UnderIsStack DEF Held
<1> QED
  BY <1>2, <1>3

LEMMA ReturnsMoves ==
  ASSUME Threads, NEW t \in Thread, thread[t] # <<>>, Returns(t)
  PROVE  Moves
BY ReturnedIsStack, OneStack DEF Returns

LEMMA SpawnMoves ==
  ASSUME Threads, NEW f \in Frames, Held(f), Spawn(f)
  PROVE  Moves
<1>1. New \in Thread
  BY DEF Spawn, New, Free
<1>2. <<f>> \in Stacks /\ Head(<<f>>) = f
  <2>1. <<>> \in Unders /\ <<f>> = <<f>> \o <<>>
    BY DEF Unders
  <2> QED
    BY <2>1, Pushed
<1> QED
  BY <1>1, <1>2, OneStack DEF Spawn
-----------------------------------------------------------------------------
(* Types.                                                                  *)
RowsOK == row \in [Run -> RowType(Step)] /\ \A r \in Run : row[r] \in Rows(r)

\* What a question's status says of its outcome.
Decisions(v) ==
  /\ v.status \in {"none", "pending"} => v.outcome = "none"
  /\ v.status = "answered"  => v.outcome \in {"yes", "no"}
  /\ v.status = "timed_out" => v.outcome = "timed_out"
  /\ v.status = "cancelled" => v.outcome = "cancelled"
QuestionsOK == /\ question \in [Question -> QuestionType]
               /\ \A q \in Question : Decisions(question[q])

Counters == done \in [At -> Nat] /\ agreed \in [Question -> Nat]

Rest == /\ trace \in [Run -> Lifecycle]
        /\ sweeping \subseteq Question
        /\ boot \subseteq [run : Run, row : RowType(Step)]
        /\ \A b \in boot : b.row \in Rows(b.run)
        /\ torn \subseteq At /\ stale \subseteq Run
        /\ requests \in 0 .. MaxRequests /\ crashes \in 0 .. MaxCrashes

\* A question is owed a release for each yes, and no more: one is held by an
\* answer that nobody read, the others by the calls about to go out.
Unread(q) == IF question[q].status = "answered" /\ question[q].outcome = "yes" THEN 1 ELSE 0
Owed == \A q \in Question : done[q] + Cardinality(Calls(q)) + Unread(q) <= agreed[q]

Types   == RowsOK /\ QuestionsOK /\ Counters /\ Rest
FlowInv == Types /\ Threads /\ Owed

LEMMA Runs == Run \subseteq Nat \ {0} /\ \A r \in Run : /\ DOMAIN Flow[r] = 1 .. Len(Flow[r])
                                                   /\ Len(Flow[r]) \in Nat
                                                   /\ 1 \in DOMAIN Flow[r]
                                                   /\ 0 \notin DOMAIN Flow[r]
                                                   /\ Cursor(r) \subseteq Step \cup {0}
<1> USE FlowAssumption DEF Run
<1> DEFINE S == [kind : Kinds, idempotent : BOOLEAN]
<1>1. Flow \in Seq(Seq(S))
  OBVIOUS
<1>2. DOMAIN Flow = 1 .. Len(Flow) /\ \A r \in DOMAIN Flow : Flow[r] \in Seq(S)
  BY <1>1
<1>3. ASSUME NEW r \in Run
      PROVE  DOMAIN Flow[r] = 1 .. Len(Flow[r]) /\ Len(Flow[r]) \in Nat /\ 1 \in DOMAIN Flow[r]
  <2>1. Flow[r] \in Seq(S) /\ Flow[r] # <<>>
    BY <1>2
  <2> HIDE DEF S
  <2> QED
    BY <2>1
<1>4. ASSUME NEW r \in Run PROVE Cursor(r) \subseteq Step \cup {0}
  BY DEF Cursor, Step
<1> QED
  BY <1>2, <1>3, <1>4

LEMMA RowTyped ==
  ASSUME NEW Steps, NEW s \in Lifecycle, NEW q \in {"none", "pause", "cancel"},
         NEW k \in Steps \cup {0}, NEW p \in Reasons, NEW a \in Steps \cup {0}
  PROVE  [status |-> s, request |-> q, cursor |-> k, pause |-> p, attempt |-> a]
         \in RowType(Steps)
BY DEF RowType

\* The writes of the store keep a row a row.
LEMMA StoreRows ==
  ASSUME NEW r \in Run, NEW w \in Rows(r), NEW c \in Cursor(r), NEW why \in Reasons,
         NEW status \in Lifecycle, NEW request \in {"none", "pause", "cancel"}
  PROVE  /\ StartRun(w) \in Rows(r) /\ SetAttempt(w, c) \in Rows(r)
         /\ Request(w, request) \in Rows(r) /\ Claimed(w) \in Rows(r)
         /\ (why # "none" => c # 0) => Checkpoint(w, c, why) \in Rows(r)
         /\ (status = "waiting" => c # 0) => AppendRun(w, status, c, why) \in Rows(r)
<1>1. /\ w \in RowType(Step) /\ w.cursor \in Cursor(r)
      /\ w.status = "waiting" => w.cursor # 0
      /\ c \in Step \cup {0} /\ 0 \in Cursor(r)
  BY Runs DEF Rows, Cursor
<1>0. Cursor(r) \subseteq Step \cup {0}
  BY Runs
<1> DEFINE Row(s, q, k, p, a) ==
      [status |-> s, request |-> q, cursor |-> k, pause |-> p, attempt |-> a]
<1>2. ASSUME NEW s \in Lifecycle, NEW q \in {"none", "pause", "cancel"}, NEW k \in Cursor(r),
             NEW p \in Reasons, NEW a \in Step \cup {0}, s = "waiting" => k # 0
      PROVE  Row(s, q, k, p, a) \in Rows(r)
  <2>1. k \in Step \cup {0} /\ (s = "waiting" => k # 0)
    BY <1>0, <1>2
  <2>2. Row(s, q, k, p, a) \in RowType(Step)
    BY <2>1, RowTyped
  <2> QED
    BY <2>1, <2>2 DEF Rows
<1>3. StartRun(w) = Row("running", w.request, 0, "none", 0)
  <2>1. StartRun(w) = [w EXCEPT !.status = "running", !.cursor = 0, !.pause = "none", !.attempt = 0]
    BY DEF StartRun
  <2> QED
    BY <1>1, <2>1 DEF RowType
<1>4. SetAttempt(w, c) = Row(w.status, w.request, w.cursor, w.pause, c)
  <2>1. SetAttempt(w, c) = [w EXCEPT !.attempt = c]
    BY DEF SetAttempt
  <2> QED
    BY <1>1, <2>1 DEF RowType
<1>5. Request(w, request) = Row(w.status, request, w.cursor, w.pause, w.attempt)
  <2>1. Request(w, request) = [w EXCEPT !.request = request]
    BY DEF Request
  <2> QED
    BY <1>1, <2>1 DEF RowType
<1>6. AppendRun(w, status, c, why) = Row(status, w.request, c, why, 0)
  <2>1. AppendRun(w, status, c, why) = [w EXCEPT !.status = status, !.cursor = c,
                                              !.pause = why, !.attempt = 0]
    BY DEF AppendRun
  <2> QED
    BY <1>1, <2>1 DEF RowType
<1>7. Claimed(w) = Row("running", "none", w.cursor, w.pause, w.attempt)
  <2>1. Claimed(w) = [w EXCEPT !.status = "running", !.request = "none"]
    BY DEF Claimed
  <2> QED
    BY <1>1, <2>1 DEF RowType
<1>8. Checkpoint(w, c, why)
        = Row(IF why = "none" THEN "running" ELSE "waiting", w.request, c, why, 0)
  <2> DEFINE status0 == IF why = "none" THEN "running" ELSE "waiting"
  <2>1. Checkpoint(w, c, why) = [w EXCEPT !.status = status0, !.cursor = c,
                                          !.pause = why, !.attempt = 0]
    BY DEF Checkpoint
  <2> HIDE DEF status0
  <2>2. Checkpoint(w, c, why) = Row(status0, w.request, c, why, 0)
    BY <1>1, <2>1 DEF RowType
  <2> QED
    BY <2>2 DEF status0
<1>9. /\ w.status \in Lifecycle /\ w.request \in {"none", "pause", "cancel"}
      /\ w.pause \in Reasons /\ w.attempt \in Step \cup {0}
      /\ {"running", "waiting"} \subseteq Lifecycle /\ "none" \in Reasons
      /\ 0 \in Step \cup {0}
  BY <1>1 DEF RowType, Lifecycle, Reasons
<1> HIDE DEF Row
<1>10. StartRun(w) \in Rows(r) /\ SetAttempt(w, c) \in Rows(r) /\ Request(w, request) \in Rows(r)
  BY <1>1, <1>2, <1>3, <1>4, <1>5, <1>9
<1>11. ASSUME status = "waiting" => c # 0 PROVE AppendRun(w, status, c, why) \in Rows(r)
  <2>2. Row(status, w.request, c, why, 0) \in Rows(r)
    BY <1>2, <1>9, <1>11
  <2> QED
    BY <1>6, <2>2
<1>12. Claimed(w) \in Rows(r)
  BY <1>1, <1>2, <1>7, <1>9
<1>13. ASSUME why # "none" => c # 0 PROVE Checkpoint(w, c, why) \in Rows(r)
  <2>1. CASE why = "none"
    BY <1>2, <1>8, <1>9, <2>1
  <2>2. CASE why # "none"
    BY <1>2, <1>8, <1>9, <1>13, <2>2
  <2> QED
    BY <2>1, <2>2
<1> QED
  BY <1>10, <1>11, <1>12, <1>13

LEMMA SetRowOK ==
  ASSUME RowsOK, NEW r \in Run, NEW w \in Rows(r), SetRow(r, w)
  PROVE  RowsOK'
<1>1. w \in RowType(Step)
  BY DEF Rows
<1> QED
  BY <1>1 DEF RowsOK, SetRow

-----------------------------------------------------------------------------
(* Frames.                                                                 *)
PCs == OnStep \cup {"trace", "push", "wake", "return", "pausing", "close", "request", "children"}
Frame(r, pc, i, end, why, first, op) ==
  [run |-> r, pc |-> pc, at |-> i, end |-> end, why |-> why, first |-> first, op |-> op]

LEMMA FrameTyped ==
  ASSUME NEW r \in Run, NEW pc \in PCs, NEW i \in Cursor(r), NEW end \in Lifecycle,
         NEW why \in Reasons, NEW first \in BOOLEAN, NEW op \in BOOLEAN,
         Shape(pc, i, end, why),
         pc = "seats" => Kind(r, i) = "review"
  PROVE  Frame(r, pc, i, end, why, first, op) \in Frames
<1>1. i \in Step \cup {0}
  BY Runs
<1>2. Frame(r, pc, i, end, why, first, op) \in FrameType
  BY <1>1 DEF FrameType, Frame, PCs, OnStep
<1> QED
  BY <1>2 DEF Frames, Frame

LEMMA FrameFields ==
  ASSUME NEW x \in Frames
  PROVE  /\ x.run \in Run /\ x.pc \in PCs /\ x.at \in Cursor(x.run) /\ x.end \in Lifecycle
         /\ x.why \in Reasons /\ x.first \in BOOLEAN /\ x.op \in BOOLEAN
         /\ Shape(x.pc, x.at, x.end, x.why)
         /\ x.pc \in OnStep \/ x.end = "waiting" => x.at # 0
         /\ x.at # 0 => /\ x.at \in DOMAIN Flow[x.run]
                        /\ <<x.run, x.at>> \in At
         /\ x = Frame(x.run, x.pc, x.at, x.end, x.why, x.first, x.op)
<1>1. x \in FrameType
  BY DEF Frames
<1>2. /\ x.run \in Run /\ x.pc \in PCs /\ x.end \in Lifecycle
      /\ x.why \in Reasons /\ x.first \in BOOLEAN /\ x.op \in BOOLEAN
  BY <1>1 DEF FrameType, PCs, OnStep
<1>3. x = Frame(x.run, x.pc, x.at, x.end, x.why, x.first, x.op)
  BY <1>1 DEF FrameType, Frame
<1>4. /\ x.at \in Cursor(x.run)
      /\ Shape(x.pc, x.at, x.end, x.why)
      /\ x.pc \in OnStep \/ x.end = "waiting" => x.at # 0
  BY DEF Frames, Shape
<1>5. ASSUME x.at # 0 PROVE x.at \in DOMAIN Flow[x.run] /\ <<x.run, x.at>> \in At
  BY <1>2, <1>4, <1>5 DEF Cursor, At
<1> QED
  BY <1>2, <1>3, <1>4, <1>5

LEMMA GoFrame ==
  ASSUME NEW x \in Frames, NEW pc \in PCs,
         Shape(pc, x.at, x.end, x.why),
         pc = "seats" => Kind(x.run, x.at) = "review"
  PROVE  /\ [x EXCEPT !.pc = pc] \in Frames
         /\ [x EXCEPT !.pc = pc] = Frame(x.run, pc, x.at, x.end, x.why, x.first, x.op)
<1>1. [x EXCEPT !.pc = pc] = Frame(x.run, pc, x.at, x.end, x.why, x.first, x.op)
  BY DEF Frames, FrameType, Frame
<1>2. Frame(x.run, pc, x.at, x.end, x.why, x.first, x.op) \in Frames
  BY FrameFields, FrameTyped
<1> QED
  BY <1>1, <1>2

\* Frame0, for the steps that change its fields.
Blank == [run : {0}, pc : {"start"}, at : {0}, end : {"none"}, why : {"none"},
          first : {FALSE}, op : {FALSE}]
LEMMA Frame0IsBlank == Frame0 \in Blank
BY DEF Frame0, Blank

LEMMA RunOneFrame ==
  ASSUME NEW r \in Run, NEW i \in DOMAIN Flow[r], NEW resumed \in BOOLEAN
  PROVE  /\ RunOne(r, i, resumed) = Frame(r, "start", i, "none", "none", resumed, FALSE)
         /\ RunOne(r, i, resumed) \in Frames /\ Held(RunOne(r, i, resumed))
<1>1. RunOne(r, i, resumed) = Frame(r, "start", i, "none", "none", resumed, FALSE)
  <2>1. RunOne(r, i, resumed) = [Frame0 EXCEPT !.run = r, !.at = i, !.first = resumed]
    BY DEF RunOne
  <2> QED
    BY <2>1, Frame0IsBlank DEF Frame, Blank
<1>2. i \in Cursor(r) /\ i # 0 /\ "none" \in Lifecycle /\ "none" \in Reasons
  BY Runs DEF Cursor, Lifecycle, Reasons
<1>3. RunOne(r, i, resumed) \in Frames
  BY <1>1, <1>2, FrameTyped DEF PCs, OnStep, Shape
<1> QED
  BY <1>1, <1>3 DEF Held, Frame

LEMMA ResumeClaimedFrame ==
  ASSUME RowsOK, NEW r \in Run, MayClaim(row[r])
  PROVE  ResumeClaimed(r) \in Frames /\ Held(ResumeClaimed(r))
<1>1. row[r].cursor \in DOMAIN Flow[r]
  BY DEF RowsOK, Rows, MayClaim, Cursor
<1> DEFINE x == RunOne(r, row[r].cursor, TRUE)
<1>2. x \in Frames /\ x.at # 0
  <2>1. x = Frame(r, "start", row[r].cursor, "none", "none", TRUE, FALSE) /\ x \in Frames
    <3>1. TRUE \in BOOLEAN
      OBVIOUS
    <3> QED
      BY <1>1, <3>1, RunOneFrame, Zenon
  <2> HIDE DEF x
  <2>2. x.at = row[r].cursor
    BY <2>1 DEF Frame
  <2> QED
    BY <1>1, <2>1, <2>2, Runs
<1>4. "unrequest" \in PCs \ {"seats", "call"} /\ Shape("unrequest", x.at, x.end, x.why)
  BY <1>2 DEF PCs, OnStep, Shape
<1>3. ResumeClaimed(r) = [x EXCEPT !.pc = "unrequest"]
  BY DEF ResumeClaimed
<1> HIDE DEF x
<1>5. ResumeClaimed(r) \in Frames /\ ResumeClaimed(r).pc = "unrequest"
  <2>1. /\ ResumeClaimed(r) \in Frames
        /\ ResumeClaimed(r) = Frame(x.run, "unrequest", x.at, x.end, x.why, x.first, x.op)
    BY <1>2, <1>3, <1>4, GoFrame
  <2> QED
    BY <2>1 DEF Frame
<1> QED
  BY <1>5 DEF Held

LEMMA CancelsFrame ==
  ASSUME RowsOK, NEW r \in Run
  PROVE  Cancels(r) \in Frames /\ Held(Cancels(r))
<1>1. Cancels(r) = Frame(r, "close", row[r].cursor, row[r].status, "none", FALSE, TRUE)
  <2>1. Cancels(r) = [Frame0 EXCEPT !.run = r, !.pc = "close", !.at = row[r].cursor,
                                    !.end = row[r].status, !.op = TRUE]
    BY DEF Cancels
  <2> QED
    BY <2>1, Frame0IsBlank DEF Frame, Blank
<1>2. /\ row[r].cursor \in Cursor(r) /\ row[r].status \in Lifecycle
      /\ row[r].status = "waiting" => row[r].cursor # 0
  BY DEF RowsOK, Rows, RowType
<1>3. Cancels(r) \in Frames
  BY <1>1, <1>2, FrameTyped DEF PCs, OnStep, Reasons, Shape
<1> QED
  BY <1>1, <1>3 DEF Held, Frame

LEMMA GoMoves ==
  ASSUME Threads, NEW t \in Thread, thread[t] # <<>>, NEW pc \in PCs, Go(t, pc),
         Shape(pc, Top(t).at, Top(t).end, Top(t).why),
         pc = "seats" => Kind(Top(t).run, Top(t).at) = "review",
         pc = "call" => Here(t) \notin Question
  PROVE  Moves
<1>1. Top(t) \in Frames
  BY Popped DEF Threads, Top
<1> DEFINE f == [Top(t) EXCEPT !.pc = pc]
<1>2. f \in Frames /\ Held(f)
  BY <1>1, GoFrame DEF Held, Frame, Here
<1> QED
  BY <1>2, BecomeMoves DEF Go

LEMMA TopFrame ==
  ASSUME Threads, NEW t \in Thread, thread[t] # <<>>
  PROVE  Top(t) \in Frames
BY Popped DEF Threads, Top

\* A call that goes on where nothing is said of how it ends.
Quiet == PCs \ {"seats", "call", "settle", "record", "clear", "trace", "push"}
LEMMA GoQuiet ==
  ASSUME Threads, NEW t \in Thread, thread[t] # <<>>, NEW pc \in Quiet, Go(t, pc),
         pc \in OnStep => Top(t).at # 0
  PROVE  Moves
<1>1. Top(t).end = "waiting" => Top(t).at # 0
  BY TopFrame, FrameFields
<1>2. Shape(pc, Top(t).at, Top(t).end, Top(t).why) /\ pc \in PCs \ {"seats", "call"}
  BY <1>1 DEF Shape, Quiet
<1> QED
  BY <1>2, GoMoves

LEMMA AfterMoves ==
  ASSUME Threads, NEW t \in Thread, thread[t] # <<>>, Top(t).pc \in OnStep,
         NEW end \in Lifecycle \ {"running"}, NEW why \in Reasons,
         why # "none" => end = "waiting",
         Become(t, After(Top(t), end, why))
  PROVE  Moves
<1>1. Top(t) \in Frames /\ Top(t).at # 0
  BY TopFrame, FrameFields
<1>2. /\ After(Top(t), end, why) \in Frames
      /\ After(Top(t), end, why).pc \in {"settle", "record"}
  BY <1>1, AfterIsFrame
<1> QED
  BY <1>2, BecomeMoves DEF Held

\* A call that wakes a run it does not own, and what it goes on with.
LEMMA WakeUpMoves ==
  ASSUME RowsOK, Threads, NEW t \in Thread, thread[t] # <<>>, NEW p \in Run,
         NEW f \in Frames, f.pc \in {"return", "children"}, WakeUp(t, p, f)
  PROVE  Moves /\ RowsOK'
<1>1. CASE MayClaim(row[p])
  <2>1. SetRow(p, Claimed(row[p])) /\ CallOut(t, f, ResumeClaimed(p))
    BY <1>1 DEF WakeUp
  <2>2. Claimed(row[p]) \in Rows(p)
    <3>1. row[p] \in Rows(p) /\ 0 \in Cursor(p) /\ {"none", "running"} \subseteq Lifecycle
          /\ "none" \in Reasons
      BY DEF RowsOK, Cursor, Lifecycle, Reasons
    <3> QED
      BY <3>1, StoreRows
  <2>3. ResumeClaimed(p) \in Frames /\ Held(ResumeClaimed(p))
    BY <1>1, ResumeClaimedFrame
  <2> QED
    BY <2>1, <2>2, <2>3, CallOutMoves, SetRowOK
<1>2. CASE ~MayClaim(row[p])
  <2>1. UNCHANGED row /\ Become(t, f)
    BY <1>2 DEF WakeUp
  <2> QED
    BY <2>1, BecomeMoves DEF Held, RowsOK
<1> QED
  BY <1>1, <1>2

LEMMA WakeRecheck ==
  ASSUME RowsOK, Threads, NEW t \in Thread, Wake(t) \/ Recheck(t)
  PROVE  Moves /\ RowsOK'
<1> DEFINE x == Top(t)
<1>1. thread[t] # <<>> /\ x \in Frames /\ x.run \in Run
  BY TopFrame, FrameFields DEF Wake, Recheck, Is
<1>2. \E pc \in {"children", "return"} :
        \/ UNCHANGED row /\ Become(t, [x EXCEPT !.pc = pc])
        \/ \E p \in Run : WakeUp(t, p, [x EXCEPT !.pc = pc])
  <2>1. CASE Wake(t)
    BY <2>1 DEF Wake, Parents
  <2>2. CASE Recheck(t)
    BY <1>1, <2>2 DEF Recheck
  <2> QED
    BY <2>1, <2>2
<1>3. PICK pc \in {"children", "return"} :
        \/ UNCHANGED row /\ Become(t, [x EXCEPT !.pc = pc])
        \/ \E p \in Run : WakeUp(t, p, [x EXCEPT !.pc = pc])
  BY <1>2
<1> DEFINE f == [x EXCEPT !.pc = pc]
<1>4. f \in Frames /\ f.pc = pc
  <2>1. pc \in PCs \ {"seats", "call"} /\ Shape(pc, x.at, x.end, x.why)
    BY <1>1, FrameFields DEF PCs, OnStep, Shape
  <2>2. f \in Frames /\ f = Frame(x.run, pc, x.at, x.end, x.why, x.first, x.op)
    BY <1>1, <2>1, GoFrame
  <2> QED
    BY <2>2 DEF Frame
<1> HIDE DEF f
<1>5. CASE UNCHANGED row /\ Become(t, f)
  BY <1>1, <1>4, <1>5, BecomeMoves DEF Held, RowsOK
<1>6. CASE \E p \in Run : WakeUp(t, p, f)
  BY <1>1, <1>4, <1>6, WakeUpMoves
<1> QED
  BY <1>3, <1>5, <1>6 DEF f

LEMMA AttachedMoves ==
  ASSUME Threads, NEW t \in Thread, Attached(t)
  PROVE  Moves
<1> DEFINE x == Top(t)
<1>1. thread[t] # <<>> /\ x \in Frames /\ x.run \in Run /\ x.at \in DOMAIN Flow[x.run]
  BY TopFrame, FrameFields DEF Attached, Is, OnStep
<1> DEFINE f == RunOne(x.run, x.at, TRUE)
<1>2. f \in Frames /\ Held(f)
  BY <1>1, RunOneFrame
<1>3. CASE ~Decided(Here(t))
  BY <1>1, <1>3, ReturnsMoves DEF Attached
<1>4. CASE Decided(Here(t)) /\ Under(t) = <<>>
  BY <1>1, <1>2, <1>4, BecomeMoves DEF Attached
<1>5. CASE Decided(Here(t)) /\ Under(t) # <<>>
  <2>1. /\ Free # {}
        /\ thread' = [thread EXCEPT ![t] = Returned(t), ![New] = <<f>>]
    BY <1>5 DEF Attached
  <2>2. New \in Thread /\ New # t
    BY <1>1, <2>1 DEF New, Free
  <2>3. Returned(t) \in Stacks /\ (Returned(t) # <<>> => Held(Head(Returned(t))))
    BY <1>1, ReturnedIsStack
  <2>4. <<f>> \in Stacks /\ <<f>> # <<>> /\ Head(<<f>>) = f
    <3>1. <<>> \in Unders /\ <<f>> = <<f>> \o <<>>
      BY DEF Unders
    <3> QED
      BY <1>2, <3>1, Pushed
  <2> HIDE DEF f
  <2>5. /\ thread' \in [Thread -> Stacks]
        /\ \A u \in Thread : thread'[u] = IF u = New THEN <<f>>
                                         ELSE IF u = t THEN Returned(t) ELSE thread[u]
    BY <2>1, <2>2, <2>3, <2>4 DEF Threads
  <2>6. \A q \in Question : Calls(q)' \subseteq Calls(q)
    BY <1>2, <2>3, <2>4, <2>5 DEF Calls, Is, Here, Top, Held
  <2> QED
    BY <2>5, <2>6 DEF Moves
<1> QED
  BY <1>3, <1>4, <1>5

\* Several fields of a frame changed at once.
LEMMA FramePaused ==
  ASSUME NEW x \in Frames, NEW pc, NEW end, NEW why
  PROVE  [x EXCEPT !.pc = pc, !.end = end, !.why = why]
         = Frame(x.run, pc, x.at, end, why, x.first, x.op)
<1>1. ASSUME NEW g, g = [x EXCEPT !.pc = pc, !.end = end, !.why = why]
      PROVE  g = Frame(x.run, pc, x.at, end, why, x.first, x.op)
  BY <1>1 DEF Frames, FrameType, Frame
<1> QED
  BY <1>1, Zenon

LEMMA FrameEnded ==
  ASSUME NEW x \in Frames, NEW pc, NEW end
  PROVE  [x EXCEPT !.pc = pc, !.end = end]
         = Frame(x.run, pc, x.at, end, x.why, x.first, x.op)
<1>1. ASSUME NEW g, g = [x EXCEPT !.pc = pc, !.end = end]
      PROVE  g = Frame(x.run, pc, x.at, end, x.why, x.first, x.op)
  BY <1>1 DEF Frames, FrameType, Frame
<1> QED
  BY <1>1, Zenon

LEMMA FrameAdvanced ==
  ASSUME NEW x \in Frames, NEW i, NEW pc, NEW first
  PROVE  [x EXCEPT !.at = i, !.pc = pc, !.first = first]
         = Frame(x.run, pc, i, x.end, x.why, first, x.op)
<1>1. ASSUME NEW g, g = [x EXCEPT !.at = i, !.pc = pc, !.first = first]
      PROVE  g = Frame(x.run, pc, i, x.end, x.why, first, x.op)
  BY <1>1 DEF Frames, FrameType, Frame
<1> QED
  BY <1>1, Zenon

\* A call that goes on as another frame of the same run.
LEMMA FrameMoves ==
  ASSUME Threads, NEW t \in Thread, thread[t] # <<>>, NEW f, Become(t, f),
         NEW r \in Run, NEW pc \in PCs \ {"seats", "call"}, NEW i \in Cursor(r),
         NEW end \in Lifecycle, NEW why \in Reasons, NEW first \in BOOLEAN, NEW op \in BOOLEAN,
         Shape(pc, i, end, why),
         f = Frame(r, pc, i, end, why, first, op)
  PROVE  Moves
<1>1. f \in Frames
  BY FrameTyped
<1>2. f.pc = pc
  BY DEF Frame
<1> QED
  BY <1>1, <1>2, BecomeMoves DEF Held

LEMMA ControlMoves ==
  ASSUME RowsOK, Threads, NEW t \in Thread, Control(t)
  PROVE  Moves
<1> DEFINE x == Top(t)
           request == row[x.run].request
<1>1. /\ thread[t] # <<>> /\ x \in Frames /\ x.at # 0 /\ x.run \in Run
      /\ x.first \in BOOLEAN /\ x.op \in BOOLEAN /\ x.at \in Cursor(x.run)
      /\ x.why \in Reasons /\ x.end \in Lifecycle
  BY TopFrame, FrameFields DEF Control, Is, OnStep
<1>2. /\ {"waiting", "cancelled"} \subseteq Lifecycle /\ {"none", "operator"} \subseteq Reasons
      /\ "clear" \in PCs \ {"seats", "call"} /\ {"begin", "step"} \subseteq Quiet
      /\ Shape("clear", x.at, "waiting", "operator")
      /\ Shape("clear", x.at, "cancelled", x.why)
  BY <1>1 DEF Lifecycle, Terminal, Reasons, PCs, OnStep, Shape, Quiet
<1>3. CASE request = "pause"
  <2>1. Become(t, [x EXCEPT !.pc = "clear", !.end = "waiting", !.why = "operator"])
    BY <1>3 DEF Control
  <2>2. [x EXCEPT !.pc = "clear", !.end = "waiting", !.why = "operator"]
        = Frame(x.run, "clear", x.at, "waiting", "operator", x.first, x.op)
    BY <1>1, FramePaused, Zenon
  <2>3. Become(t, Frame(x.run, "clear", x.at, "waiting", "operator", x.first, x.op))
    BY <2>1, <2>2, Zenon
  <2> QED
    BY <1>1, <1>2, <2>3, FrameMoves
<1>4. CASE request = "cancel"
  <2>1. Become(t, [x EXCEPT !.pc = "clear", !.end = "cancelled"])
    BY <1>4 DEF Control
  <2>2. [x EXCEPT !.pc = "clear", !.end = "cancelled"]
        = Frame(x.run, "clear", x.at, "cancelled", x.why, x.first, x.op)
    BY <1>1, FrameEnded, Zenon
  <2>3. Become(t, Frame(x.run, "clear", x.at, "cancelled", x.why, x.first, x.op))
    BY <2>1, <2>2, Zenon
  <2> QED
    BY <1>1, <1>2, <2>3, FrameMoves
<1>5. CASE request \notin {"pause", "cancel"}
  <2> DEFINE pc == IF HasEffect(x.run, x.at) THEN "begin" ELSE "step"
  <2>1. Go(t, pc)
    BY <1>5 DEF Control, Go
  <2>2. pc \in Quiet
    BY <1>2
  <2> HIDE DEF pc
  <2> QED
    BY <1>1, <2>1, <2>2, GoQuiet
<1> QED
  BY <1>3, <1>4, <1>5

LEMMA RecordMoves ==
  ASSUME Threads, NEW t \in Thread, Record(t)
  PROVE  Moves
<1> DEFINE x == Top(t)
           next == IF x.end = "waiting" THEN x.at ELSE NextStep(x)
<1>1. /\ thread[t] # <<>> /\ x \in Frames /\ x.at # 0 /\ x.run \in Run
      /\ x.first \in BOOLEAN /\ x.op \in BOOLEAN /\ x.at \in Cursor(x.run)
      /\ x.why \in Reasons /\ x.end \in Lifecycle
  BY TopFrame, FrameFields DEF Record, Is, OnStep
<1>2. /\ {"control", "trace"} \subseteq PCs \ {"seats", "call"} /\ FALSE \in BOOLEAN
      /\ {"completed", "waiting"} \subseteq Lifecycle
  BY DEF PCs, OnStep, Lifecycle, Terminal
<1>3. CASE NextStep(x) # 0
  <2>1. /\ x.end = "none" /\ next = x.at + 1 /\ next \in DOMAIN Flow[x.run]
        /\ next \in Cursor(x.run) /\ next # 0
    <3>1. x.end = "none" /\ next = x.at + 1 /\ x.at < Len(Flow[x.run])
      BY <1>3 DEF NextStep
    <3>2. x.at \in 1 .. Len(Flow[x.run]) /\ DOMAIN Flow[x.run] = 1 .. Len(Flow[x.run])
          /\ Len(Flow[x.run]) \in Nat
      BY <1>1, Runs DEF Cursor
    <3> QED
      BY <3>1, <3>2 DEF Cursor
  <2>2. Become(t, [x EXCEPT !.at = next, !.pc = "control", !.first = FALSE])
    BY <1>3 DEF Record
  <2> HIDE DEF next
  <2>3. [x EXCEPT !.at = next, !.pc = "control", !.first = FALSE]
        = Frame(x.run, "control", next, x.end, x.why, FALSE, x.op)
    BY <1>1, FrameAdvanced, Zenon
  <2>4. Become(t, Frame(x.run, "control", next, x.end, x.why, FALSE, x.op))
    BY <2>2, <2>3, Zenon
  <2>5. Shape("control", next, x.end, x.why)
    BY <2>1 DEF Shape
  <2>6. next \in Cursor(x.run) /\ "control" \in PCs \ {"seats", "call"}
    BY <1>2, <2>1
  <2> QED
    BY <1>1, <1>2, <2>4, <2>5, <2>6, FrameMoves
<1>4. CASE NextStep(x) = 0
  <2> DEFINE end == IF x.end = "none" THEN "completed" ELSE x.end
  <2>1. Become(t, [x EXCEPT !.pc = "trace", !.end = end])
    BY <1>4 DEF Record
  <2>2. end \in Lifecycle /\ Shape("trace", x.at, end, x.why)
    <3>1. x.end # "running"
      BY <1>1, FrameFields DEF Record, Is, Shape
    <3> QED
      BY <1>1, <1>2, <3>1 DEF Shape, Lifecycle, OnStep, Terminal
  <2> HIDE DEF end
  <2>3. [x EXCEPT !.pc = "trace", !.end = end]
        = Frame(x.run, "trace", x.at, end, x.why, x.first, x.op)
    BY <1>1, FrameEnded, Zenon
  <2>4. Become(t, Frame(x.run, "trace", x.at, end, x.why, x.first, x.op))
    BY <2>1, <2>3, Zenon
  <2> QED
    BY <1>1, <1>2, <2>2, <2>4, FrameMoves
<1> QED
  BY <1>3, <1>4

LEMMA CloseMoves ==
  ASSUME Threads, NEW t \in Thread, Close(t)
  PROVE  Moves
<1> DEFINE x == Top(t)
<1>1. /\ thread[t] # <<>> /\ x \in Frames /\ x.run \in Run
      /\ x.first \in BOOLEAN /\ x.op \in BOOLEAN /\ x.at \in Cursor(x.run)
      /\ x.why \in Reasons /\ x.end \in Lifecycle
  BY TopFrame, FrameFields DEF Close, Is
<1>2. /\ "trace" \in PCs \ {"seats", "call"} /\ "request" \in Quiet \ OnStep
      /\ Shape("trace", x.at, "cancelled", x.why) /\ "cancelled" \in Lifecycle
  BY DEF PCs, OnStep, Lifecycle, Terminal, Shape, Quiet
<1>3. CASE x.end = "waiting"
  <2>1. Become(t, [x EXCEPT !.pc = "trace", !.end = "cancelled"])
    BY <1>3 DEF Close
  <2>2. [x EXCEPT !.pc = "trace", !.end = "cancelled"]
        = Frame(x.run, "trace", x.at, "cancelled", x.why, x.first, x.op)
    BY <1>1, FrameEnded, Zenon
  <2>3. Become(t, Frame(x.run, "trace", x.at, "cancelled", x.why, x.first, x.op))
    BY <2>1, <2>2, Zenon
  <2> QED
    BY <1>1, <1>2, <2>3, FrameMoves
<1>4. CASE x.end # "waiting"
  <2>1. Go(t, "request")
    BY <1>4 DEF Close, Go
  <2> QED
    BY <1>1, <1>2, <2>1, GoQuiet
<1> QED
  BY <1>3, <1>4

\* The actions of a thread, but for the ones that release what was held.
LEMMA ThreadMoves ==
  ASSUME Types, Threads, NEW t \in Thread, Move(t), ~Released(t)
  PROVE  Moves
<1> DEFINE x == Top(t)
<1> USE DEF Is
<1>1. thread[t] # <<>>
  BY DEF Move, Unrequest, Begins, Control, Clear, Begin, Model, Wait, Write, Call, AskGate,
         ResolveSeats, AskReview, StillOpen, Released, Refused, Spent, Delegate, FindDelegate,
         Settle, Record, Trace, Push, Wake, Recheck, Return, Attach, Attached, RequestPause,
         Close, RequestCancel, CancelChildren, AtStep
<1>2. /\ x \in Frames /\ x.run \in Run /\ Shape(x.pc, x.at, x.end, x.why) /\ (x.pc \in OnStep => x.at # 0)
      /\ x.at # 0 => x.at \in DOMAIN Flow[x.run]
  BY <1>1, TopFrame, FrameFields
<1>3. RowsOK
  BY DEF Types
<1>4. /\ {"step", "call", "attach", "record", "settle", "unrequest", "start", "begin",
         "seats", "recheck", "control", "attached"} \subseteq OnStep /\ OnStep \subseteq PCs
      /\ {"start", "control", "trace", "step", "call", "seats", "record", "push", "wake", "attach",
          "recheck", "return", "attached", "children"} \subseteq PCs
      /\ {"trace", "push", "wake", "return", "children"} \cap OnStep = {}
      /\ {"start", "control", "step", "attached", "children", "wake", "attach", "recheck",
          "return"} \subseteq Quiet
      /\ {"none", "error", "waiting", "completed"} \subseteq Lifecycle \ {"running"}
      /\ Reasons = {"none", "operator", "question", "child", "wait"}
  BY DEF OnStep, PCs, Lifecycle, Reasons, Terminal, Quiet
<1>5. ASSUME Unrequest(t) \/ Begins(t) \/ Begin(t) \/ Attach(t) \/ RequestCancel(t)
      PROVE  Moves
  <2>1. \E pc \in {"start", "control", "step", "attached", "children"} :
          Go(t, pc) /\ x.pc \in OnStep \cup {"request"} /\ (pc # "children" => x.pc \in OnStep)
    BY <1>4, <1>5 DEF Unrequest, Begins, Begin, Attach, RequestCancel
  <2> QED
    BY <1>1, <1>2, <1>4, <2>1, GoQuiet
<1>20. ASSUME Clear(t) \/ Settle(t) \/ Trace(t) PROVE Moves
  <2>1. \/ Go(t, "trace") /\ x.pc = "clear"
        \/ Go(t, "push") /\ x.pc = "trace"
        \/ Go(t, "record") /\ x.pc = "settle"
    BY <1>20 DEF Clear, Settle, Trace
  <2>2. \E pc \in {"trace", "push", "record"} : Go(t, pc) /\ Shape(pc, x.at, x.end, x.why)
    BY <1>2, <1>4, <2>1 DEF Shape, OnStep
  <2> QED
    BY <1>1, <1>4, <2>2, GoMoves
<1>6. CASE Control(t)
  BY <1>3, <1>6, ControlMoves
<1>7. ASSUME NEW end \in Lifecycle \ {"running"}, NEW why \in Reasons, why # "none" => end = "waiting",
             x.pc \in {"step", "call", "seats"}, Become(t, After(x, end, why))
      PROVE  Moves
  BY <1>1, <1>4, <1>7, AfterMoves
<1>8. ASSUME Model(t) \/ Wait(t) \/ Call(t) \/ AskGate(t) \/ AskReview(t) \/ StillOpen(t)
             \/ Refused(t) \/ Spent(t)
      PROVE  Moves
  <2>1. /\ x.pc \in {"step", "call", "seats"}
        /\ \/ \E end \in {"none", "error", "completed"} : Become(t, After(x, end, "none"))
           \/ \E why \in {"question", "wait"} : Become(t, After(x, "waiting", why))
    BY <1>8 DEF Model, Wait, Call, AskGate, AskReview, StillOpen, Refused, Spent, AtStep,
                Ends, Parks
  <2> QED
    BY <1>4, <1>7, <2>1
<1>9. CASE Write(t)
  <2>1. Here(t) \notin Question
    BY <1>9 DEF Write, AtStep, Here, Question
  <2>2. Go(t, "call") /\ Shape("call", x.at, x.end, x.why)
    BY <1>2, <1>4, <1>9 DEF Write, AtStep, Shape
  <2> QED
    BY <1>1, <1>4, <2>1, <2>2, GoMoves
<1>10. CASE ResolveSeats(t)
  <2>1. Go(t, "seats") /\ Shape("seats", x.at, x.end, x.why) /\ Kind(x.run, x.at) = "review"
    BY <1>2, <1>4, <1>10 DEF ResolveSeats, AtStep, Shape
  <2> QED
    BY <1>1, <1>4, <2>1, GoMoves
<1>11. CASE Delegate(t)
  <2> DEFINE c == Child[x.run]
             g == RunOne(c, 1, FALSE)
             f == [x EXCEPT !.pc = "nested"]
  <2>1. CallOut(t, f, g) /\ Kind(x.run, x.at) = "agent" /\ x.pc = "step"
    BY <1>11 DEF Delegate, AtStep
  <2>2. c \in Run
    BY <1>2, <1>4, <2>1, FlowAssumption DEF Kind
  <2>3. g \in Frames /\ Held(g)
    BY <2>2, RunOneFrame, Runs
  <2>4. f \in Frames /\ f.pc = "nested"
    <3>1. "nested" \in PCs \ {"seats", "call"} /\ Shape("nested", x.at, x.end, x.why)
      BY <1>2, <1>4, <2>1 DEF PCs, OnStep, Shape
    <3>2. f \in Frames /\ f = Frame(x.run, "nested", x.at, x.end, x.why, x.first, x.op)
      BY <1>2, <3>1, GoFrame
    <3> QED
      BY <3>2 DEF Frame
  <2> QED
    BY <1>1, <2>1, <2>3, <2>4, CallOutMoves
<1>12. CASE FindDelegate(t)
  <2>1. Become(t, Delegated(x, row[Child[x.run]].status)) /\ x.pc = "step"
    BY <1>12 DEF FindDelegate, AtStep
  <2> QED
    BY <1>1, <1>2, <1>4, <2>1, DelegatedIsFrame, BecomeMoves DEF Held
<1>13. CASE Record(t)
  BY <1>13, RecordMoves
<1>14. CASE Push(t)
  <2> DEFINE pc == IF x.end \in Terminal THEN "wake"
                   ELSE CASE x.why = "question" -> "attach"
                          [] x.why = "child"    -> "recheck"
                          [] OTHER              -> "return"
  <2>1. Go(t, pc) /\ x.pc = "push"
    BY <1>14 DEF Push
  <2>2. pc \in {"wake", "attach", "recheck", "return"}
    OBVIOUS
  <2>3. pc \in OnStep => x.at # 0
    <3>1. CASE x.end \in Terminal
      BY <1>4, <3>1
    <3>2. CASE x.end \notin Terminal
      <4>1. x.end = "waiting"
        BY <1>2, <2>1, <3>2 DEF Shape
      <4> QED
        BY <1>2, <4>1 DEF Shape
    <3> QED
      BY <3>1, <3>2
  <2> HIDE DEF pc
  <2> QED
    BY <1>1, <1>4, <2>1, <2>2, <2>3, GoQuiet
<1>15. CASE Wake(t) \/ Recheck(t)
  BY <1>1, <1>3, <1>15, WakeRecheck
<1>16. CASE Return(t) \/ RequestPause(t)
  BY <1>1, <1>16, ReturnsMoves DEF Return, RequestPause
<1>17. CASE Attached(t)
  BY <1>17, AttachedMoves
<1>18. CASE Close(t)
  BY <1>18, CloseMoves
<1>19. CASE CancelChildren(t)
  <2>1. Child[x.run] # 0 => Child[x.run] \in Run
    BY <1>2, FlowAssumption
  <2> QED
    BY <1>1, <1>3, <1>19, <2>1, CancelsFrame, BecomeMoves, ReturnsMoves DEF CancelChildren
<1> QED
  BY <1>5, <1>6, <1>8, <1>9, <1>20, <1>10, <1>11, <1>12, <1>13, <1>14, <1>15, <1>16, <1>17, <1>18,
     <1>19 DEF Move

\* The one action that lets a call out: a review's, with its agreement.
LEMMA ReleasedThreads ==
  ASSUME Threads, NEW t \in Thread, Released(t)
  PROVE  /\ Threads' /\ Here(t) \in Question
         /\ \A q \in Question : Calls(q)' \subseteq Calls(q) \cup {t}
         /\ \A q \in Question : q # Here(t) \/ ~IsReview(q) => Calls(q)' \subseteq Calls(q)
<1> DEFINE x == Top(t)
           q0 == Here(t)
<1>1. thread[t] # <<>> /\ x \in Frames /\ x.pc = "step" /\ x.at # 0 /\ q0 \in At
  BY TopFrame, FrameFields DEF Released, AtStep, Is, OnStep, Here
<1>2. q0 \in Question
  BY <1>1 DEF Released, AtStep, Question, Here
<1>3. CASE ~IsReview(q0)
  <2>1. Become(t, After(x, "none", "none"))
    BY <1>3 DEF Released, Ends
  <2>2. Moves
    BY <1>1, <2>1, AfterMoves DEF Lifecycle, Reasons, OnStep
  <2> QED
    BY <1>2, <1>3, <2>2 DEF Moves, Threads
<1>4. CASE IsReview(q0)
  <2> DEFINE f == [x EXCEPT !.pc = "call"]
             s == <<f>> \o Tail(thread[t])
  <2>1. f \in Frames
    BY <1>1, GoFrame DEF PCs, OnStep, Shape, Frames
  <2>2. thread' = [thread EXCEPT ![t] = s]
    BY <1>4 DEF Released, Go, Become
  <2>3. s \in Stacks
    BY <1>1, <2>1, Popped, Pushed DEF Threads
  <2> HIDE DEF s
  <2>4. /\ thread' \in [Thread -> Stacks]
        /\ \A u \in Thread \ {t} : thread'[u] = thread[u]
    BY <2>2, <2>3 DEF Threads
  <2>5. \A q \in Question : Calls(q)' \subseteq Calls(q) \cup {t}
    BY <2>4 DEF Calls, Is, Here, Top
  <2>6. \A q \in Question : t \in Calls(q)' => q = q0
    <3>1. Head(s) = f /\ thread'[t] = s
      BY <1>1, <2>1, <2>2, Popped, Pushed DEF Threads, s
    <3>2. f.run = x.run /\ f.at = x.at
      BY <1>1 DEF Frames, FrameType
    <3> HIDE DEF f
    <3> QED
      BY <3>1, <3>2 DEF Calls, Here, Top
  <2> QED
    BY <1>2, <1>4, <2>4, <2>5, <2>6 DEF Threads
<1> QED
  BY <1>3, <1>4

\* The rest of Next: operators, answers, the sweep, a crash and its recovery.
Outside ==
  \/ \E r \in Run : Start(r) \/ Pause(r) \/ Resume(r) \/ Cancel(r)
  \/ \E q \in Question : \/ \E outcome \in {"yes", "no"} : Answer(q, outcome)
                         \/ Sweep(q) \/ SweepResumes(q)
  \/ Crash \/ Recover

LEMMA ResumesMoves ==
  ASSUME Threads, NEW q \in Question, Resumes(q)
  PROVE  Moves
<1>1. q[1] \in Run /\ q[2] \in DOMAIN Flow[q[1]]
  BY DEF Question, At
<1>2. RunOne(q[1], q[2], TRUE) \in Frames /\ Held(RunOne(q[1], q[2], TRUE))
  BY <1>1, RunOneFrame
<1>3. CASE question[q].resume
  BY <1>2, <1>3, SpawnMoves DEF Resumes
<1>4. CASE ~question[q].resume
  BY <1>4 DEF Resumes, Moves, Threads, Calls, Is, Here, Top
<1> QED
  BY <1>3, <1>4

LEMMA OutsideMoves ==
  ASSUME Types, Threads, Outside
  PROVE  Moves
<1>0. RowsOK
  BY DEF Types
<1>1. ASSUME NEW r \in Run, Start(r) PROVE Moves
  BY <1>1, Runs, RunOneFrame, SpawnMoves DEF Start
<1>2. ASSUME NEW r \in Run, Pause(r) PROVE Moves
  <2> DEFINE f == [Frame0 EXCEPT !.run = r, !.pc = "pausing", !.op = TRUE]
  <2>1. ASSUME NEW g, g = f PROVE g \in Frames /\ Held(g)
    <3>1. g = Frame(r, "pausing", 0, "none", "none", FALSE, TRUE)
      BY <2>1, Frame0IsBlank DEF Blank, Frame
    <3>2. g \in Frames
      BY <3>1, FrameTyped DEF PCs, OnStep, Shape, Lifecycle, Reasons, Cursor
    <3> QED
      BY <3>1, <3>2 DEF Held, Frame
  <2>2. f \in Frames /\ Held(f)
    BY <2>1, Zenon
  <2>3. Spawn(f)
    BY <1>2 DEF Pause
  <2> HIDE DEF f
  <2> QED
    BY <2>2, <2>3, SpawnMoves
<1>3. ASSUME NEW r \in Run, Resume(r) PROVE Moves
  BY <1>0, <1>3, ResumeClaimedFrame, SpawnMoves DEF Resume
<1>4. ASSUME NEW r \in Run, Cancel(r) PROVE Moves
  BY <1>0, <1>4, CancelsFrame, SpawnMoves DEF Cancel
<1>5. ASSUME NEW q \in Question, NEW outcome \in {"yes", "no"}, Answer(q, outcome) PROVE Moves
  BY <1>5, ResumesMoves DEF Answer
<1>6. ASSUME NEW q \in Question, Sweep(q) PROVE Moves
  BY <1>6 DEF Sweep, Moves, Threads, Calls, Is, Here, Top
<1>7. ASSUME NEW q \in Question, SweepResumes(q) PROVE Moves
  BY <1>7, ResumesMoves DEF SweepResumes
<1>8. CASE Crash
  <2>1. thread' = [t \in Thread |-> <<>>] /\ <<>> \in Stacks
    BY <1>8 DEF Crash, Stacks
  <2> QED
    BY <2>1 DEF Moves, Calls, Is
<1>9. CASE Recover
  <2>1. PICK b \in boot :
          Spawn(IF trace[b.run] \in Terminal
                THEN [RunOne(b.run, 0, FALSE) EXCEPT !.pc = "trace", !.end = trace[b.run]]
                ELSE IF InFlight(b) \/ b.row.cursor = 0
                THEN [RunOne(b.run, 0, FALSE) EXCEPT !.pc = "trace", !.end = "error"]
                ELSE RunOne(b.run, b.row.cursor, TRUE))
    BY <1>9 DEF Recover
  <2>2. b.run \in Run /\ b.row.cursor \in Cursor(b.run) /\ trace \in [Run -> Lifecycle]
    BY DEF Types, Rest, Rows
  <2>3. ASSUME NEW end \in Lifecycle, end \in Terminal,
               Spawn([RunOne(b.run, 0, FALSE) EXCEPT !.pc = "trace", !.end = end])
        PROVE  Moves
    <3> DEFINE f == [RunOne(b.run, 0, FALSE) EXCEPT !.pc = "trace", !.end = end]
               g == RunOne(b.run, 0, FALSE)
    <3>1. g \in [run : {b.run}, pc : {"start"}, at : {0}, end : {"none"}, why : {"none"},
                 first : {FALSE}, op : {FALSE}]
      BY Frame0IsBlank DEF RunOne, Blank
    <3>2. f = [g EXCEPT !.pc = "trace", !.end = end]
      OBVIOUS
    <3> HIDE DEF f, g
    <3>3. f = Frame(b.run, "trace", 0, end, "none", FALSE, FALSE)
      BY <3>1, <3>2 DEF Frame
    <3>4. f \in Frames
      BY <2>2, <2>3, <3>3, FrameTyped DEF PCs, OnStep, Shape, Terminal, Reasons, Cursor
    <3>5. Held(f)
      BY <3>3 DEF Held, Frame
    <3> QED
      BY <2>3, <3>4, <3>5, SpawnMoves DEF f
  <2>4. CASE trace[b.run] \in Terminal
    BY <2>1, <2>2, <2>3, <2>4
  <2>5. CASE trace[b.run] \notin Terminal /\ (InFlight(b) \/ b.row.cursor = 0)
    BY <2>1, <2>3, <2>5 DEF Lifecycle, Terminal
  <2>6. CASE trace[b.run] \notin Terminal /\ ~(InFlight(b) \/ b.row.cursor = 0)
    <3>1. Spawn(RunOne(b.run, b.row.cursor, TRUE)) /\ b.row.cursor \in DOMAIN Flow[b.run]
      BY <2>1, <2>2, <2>6 DEF Cursor
    <3> QED
      BY <2>2, <3>1, RunOneFrame, SpawnMoves
  <2> QED
    BY <2>4, <2>5, <2>6
<1> QED
  BY <1>1, <1>2, <1>3, <1>4, <1>5, <1>6, <1>7, <1>8, <1>9 DEF Outside
-----------------------------------------------------------------------------
(* Types are kept.                                                         *)
LEMMA RowsStep ==
  ASSUME Types, Threads, Next
  PROVE  RowsOK'
<1>0. RowsOK
  BY DEF Types
<1>1. CASE UNCHANGED row
  BY <1>0, <1>1 DEF RowsOK
<1>2. ASSUME NEW r \in Run, NEW i \in Cursor(r), NEW request \in {"none", "pause", "cancel"}
      PROVE  {StartRun(row[r]), SetAttempt(row[r], i), Request(row[r], request),
              Claimed(row[r])} \subseteq Rows(r)
  <2>1. row[r] \in Rows(r) /\ "none" \in Reasons /\ "none" \in Lifecycle
    BY <1>0 DEF RowsOK, Reasons, Lifecycle
  <2> QED
    BY <1>2, <2>1, StoreRows
<1>3. ASSUME NEW t \in Thread, Move(t), ~ UNCHANGED row PROVE RowsOK'
  <2> DEFINE x == Top(t)
             r == x.run
  <2>1. \/ Unrequest(t) \/ Begins(t) \/ Clear(t) \/ Begin(t) \/ Settle(t)
        \/ RequestPause(t) \/ RequestCancel(t) \/ Record(t) \/ Push(t) \/ Wake(t) \/ Recheck(t)
    BY <1>3 DEF Move, Control, Model, Wait, Write, Call, AskGate, ResolveSeats, AskReview,
                StillOpen, Released, Refused, Spent, Delegate, FindDelegate, Trace, Return,
                Attach, Attached, Close, CancelChildren
  <2>2. thread[t] # <<>>
    BY <2>1 DEF Unrequest, Begins, Clear, Begin, Settle, RequestPause, RequestCancel, Record,
                Push, Wake, Recheck, Is
  <2>3. x \in Frames
    BY <2>2, TopFrame
  <2>4. /\ r \in Run /\ x.at \in Cursor(r) /\ 0 \in Cursor(r) /\ row[r] \in Rows(r)
        /\ Shape(x.pc, x.at, x.end, x.why) /\ x.end \in Lifecycle /\ x.why \in Reasons
    BY <1>0, <2>3, FrameFields DEF RowsOK, Cursor
  <2>5. CASE Unrequest(t) \/ Begins(t) \/ Clear(t) \/ Begin(t) \/ Settle(t)
             \/ RequestPause(t) \/ RequestCancel(t)
    <3>1. \E w \in Rows(r) : SetRow(r, w)
      BY <1>2, <2>4, <2>5
         DEF Unrequest, Begins, Clear, Begin, Settle, RequestPause, RequestCancel
    <3> QED
      BY <1>0, <2>4, <3>1, SetRowOK
  <2>6. CASE Record(t)
    <3> DEFINE next == IF x.end = "waiting" THEN x.at ELSE NextStep(x)
    <3>1. SetRow(r, Checkpoint(row[r], next, x.why)) /\ x.pc = "record"
      BY <2>6 DEF Record, Is
    <3>2. next \in Cursor(r)
      <4>1. CASE NextStep(x) = 0
        BY <2>4, <4>1
      <4>2. CASE NextStep(x) # 0
        <5>1. x.end = "none" /\ NextStep(x) = x.at + 1 /\ x.at < Len(Flow[r])
          BY <4>2 DEF NextStep
        <5>2. x.at \in 0 .. Len(Flow[r]) /\ DOMAIN Flow[r] = 1 .. Len(Flow[r])
              /\ Len(Flow[r]) \in Nat
          BY <2>4, Runs DEF Cursor
        <5>3. NextStep(x) \in Cursor(r)
          BY <5>1, <5>2 DEF Cursor
        <5> QED
          BY <5>1, <5>3
      <4> QED
        BY <4>1, <4>2
    <3>3. x.why # "none" => next # 0
      BY <2>4, <3>1 DEF Shape, OnStep
    <3> HIDE DEF next
    <3>4. Checkpoint(row[r], next, x.why) \in Rows(r)
      BY <2>4, <3>2, <3>3, StoreRows
    <3> QED
      BY <1>0, <2>4, <3>1, <3>4, SetRowOK
  <2>7. CASE Push(t)
    <3> DEFINE i == IF x.end = "waiting" THEN x.at ELSE 0
    <3>1. SetRow(r, AppendRun(row[r], x.end, i, x.why))
      BY <2>7 DEF Push
    <3>2. i \in Cursor(r) /\ (x.end = "waiting" => i # 0)
      BY <2>4 DEF Shape
    <3> HIDE DEF i
    <3>3. AppendRun(row[r], x.end, i, x.why) \in Rows(r)
      BY <2>4, <3>2, StoreRows
    <3> QED
      BY <1>0, <2>4, <3>1, <3>3, SetRowOK
  <2>8. CASE Wake(t) \/ Recheck(t)
    BY <1>0, <2>8, WakeRecheck
  <2> QED
    BY <2>1, <2>5, <2>6, <2>7, <2>8
<1>4. ASSUME NEW r \in Run, Resume(r) PROVE RowsOK'
  <2>1. SetRow(r, Claimed(row[r])) /\ Claimed(row[r]) \in Rows(r)
    BY <1>2, <1>4 DEF Resume, Cursor
  <2> QED
    BY <1>0, <2>1, SetRowOK
<1>5. ASSUME Outside, \A r \in Run : ~Resume(r) PROVE UNCHANGED row
  BY <1>5 DEF Outside, Start, Pause, Cancel, Answer, Sweep, SweepResumes, Crash, Recover
<1> QED
  BY <1>1, <1>3, <1>4, <1>5 DEF Next, Outside

Value(status, outcome, resume) == [status |-> status, outcome |-> outcome, resume |-> resume]
LEMMA QuestionDecided ==
  ASSUME NEW v \in QuestionType, NEW s, NEW o
  PROVE  [v EXCEPT !.status = s, !.outcome = o] = Value(s, o, v.resume)
<1>1. ASSUME NEW g, g = [v EXCEPT !.status = s, !.outcome = o]
      PROVE  g = Value(s, o, v.resume)
  BY <1>1 DEF QuestionType, Value
<1> QED
  BY <1>1, Zenon

LEMMA QuestionsStep ==
  ASSUME Types, Threads, Next
  PROVE  QuestionsOK'
<1> USE DEF Value
<1>0. QuestionsOK
  BY DEF Types
<1>1. CASE UNCHANGED question
  BY <1>0, <1>1 DEF QuestionsOK
<1>2. ASSUME NEW q, NEW v, q \in Question => v \in QuestionType /\ Decisions(v),
             SetQuestion(q, v)
      PROVE  QuestionsOK'
  BY <1>0, <1>2 DEF QuestionsOK, SetQuestion
<1>3. ASSUME NEW q \in Question
      PROVE  /\ question[q] \in QuestionType /\ Decisions(question[q])
             /\ question[q].status = "pending" => question[q].outcome = "none"
  BY <1>0 DEF QuestionsOK, Decisions
<1> DEFINE Ending(s, o) == /\ s \in {"answered", "timed_out", "cancelled", "consumed"}
                           /\ o \in {"yes", "no", "timed_out", "cancelled"}
                           /\ s = "answered" => o \in {"yes", "no"}
                           /\ s = "timed_out" => o = "timed_out"
                           /\ s = "cancelled" => o = "cancelled"
<1>4. ASSUME NEW q \in Question, NEW s, NEW o, Ending(s, o)
      PROVE  /\ [question[q] EXCEPT !.status = s, !.outcome = o] \in QuestionType
             /\ Decisions([question[q] EXCEPT !.status = s, !.outcome = o])
  <2>1. Value(s, o, question[q].resume) \in QuestionType /\ Decisions(Value(s, o, question[q].resume))
    BY <1>3, <1>4 DEF QuestionType, Decisions
  <2>2. [question[q] EXCEPT !.status = s, !.outcome = o] = Value(s, o, question[q].resume)
    BY <1>3, QuestionDecided, Zenon
  <2> HIDE DEF Value
  <2> QED
    BY <2>1, <2>2, Zenon
<1>16. /\ Ending("consumed", "timed_out") /\ Ending("cancelled", "cancelled")
       /\ Ending("timed_out", "timed_out") /\ Ending("answered", "yes") /\ Ending("answered", "no")
  OBVIOUS
<1> HIDE DEF Ending
<1>5. ASSUME NEW q \in Question, NEW v, v = [question[q] EXCEPT !.status = "consumed"]
      PROVE  v \in QuestionType /\ Decisions(v)
  <2>1. v = Value("consumed", question[q].outcome, question[q].resume)
    BY <1>3, <1>5 DEF QuestionType
  <2> QED
    BY <1>3, <2>1 DEF QuestionType, Decisions
<1>6. ASSUME NEW q \in Question, NEW v, v = [question[q] EXCEPT !.resume = TRUE]
      PROVE  v \in QuestionType /\ Decisions(v)
  <2>1. v = Value(question[q].status, question[q].outcome, TRUE)
    BY <1>3, <1>6 DEF QuestionType
  <2> QED
    BY <1>3, <2>1 DEF QuestionType, Decisions
<1>7. Asked \in QuestionType /\ Decisions(Asked)
  <2>1. Asked = Value("pending", "none", FALSE)
    <3>1. Unasked \in [status : {"none"}, outcome : {"none"}, resume : {FALSE}]
      BY DEF Unasked
    <3>2. Asked = [Unasked EXCEPT !.status = "pending"]
      BY DEF Asked
    <3> QED
      BY <3>1, <3>2
  <2> QED
    BY <2>1 DEF QuestionType, Decisions
<1>8. ASSUME NEW t \in Thread, AskGate(t) \/ AskReview(t) PROVE QuestionsOK'
  BY <1>2, <1>7, <1>8 DEF AskGate, AskReview
<1>9. ASSUME NEW t \in Thread, StillOpen(t) \/ Released(t) \/ Refused(t), ~ UNCHANGED question
      PROVE  QuestionsOK'
  <2> DEFINE q == Here(t)
  <2>1. q \in Question
    <3>1. thread[t] # <<>> /\ Top(t).pc = "step" /\ Kind(Top(t).run, Top(t).at) \in {"human", "review"}
      BY <1>9 DEF StillOpen, Released, Refused, AtStep, Is
    <3>2. q \in At
      BY <3>1, TopFrame, FrameFields DEF Here, OnStep
    <3> QED
      BY <3>1, <3>2 DEF Question, Here
  <2>2. \/ SetQuestion(q, [question[q] EXCEPT !.status = "consumed", !.outcome = "timed_out"])
        \/ SetQuestion(q, [question[q] EXCEPT !.status = "consumed"])
    BY <1>9 DEF StillOpen, Released, Refused, Spend
  <2> HIDE DEF q
  <2>3. CASE SetQuestion(q, [question[q] EXCEPT !.status = "consumed", !.outcome = "timed_out"])
    <3> DEFINE v == [question[q] EXCEPT !.status = "consumed", !.outcome = "timed_out"]
    <3>1. v \in QuestionType /\ Decisions(v)
      <4> HIDE DEF q
      <4> QED
        BY <1>4, <1>16, <2>1, Zenon
    <3> HIDE DEF v
    <3> QED
      BY <1>2, <2>3, <3>1 DEF v
  <2>4. CASE SetQuestion(q, [question[q] EXCEPT !.status = "consumed"])
    <3> DEFINE v == [question[q] EXCEPT !.status = "consumed"]
    <3>1. v \in QuestionType /\ Decisions(v)
      BY <1>5, <2>1
    <3> HIDE DEF v
    <3> QED
      BY <1>2, <2>4, <3>1 DEF v
  <2> QED
    BY <2>2, <2>3, <2>4
<1>10. ASSUME NEW t \in Thread, Attach(t) PROVE QuestionsOK'
  <2> DEFINE q == Here(t)
             v == [question[q] EXCEPT !.resume = TRUE]
  <2>1. SetQuestion(q, v)
    BY <1>10 DEF Attach
  <2>2. q \in Question => v \in QuestionType /\ Decisions(v)
    BY <1>6
  <2> HIDE DEF q, v
  <2> QED
    BY <1>2, <2>1, <2>2
<1>11. ASSUME NEW q \in Question, NEW s, NEW o, Ending(s, o),
              SetQuestion(q, [question[q] EXCEPT !.status = s, !.outcome = o])
       PROVE  QuestionsOK'
  <2> DEFINE v == [question[q] EXCEPT !.status = s, !.outcome = o]
  <2>1. v \in QuestionType /\ Decisions(v)
    BY <1>4, <1>11, Zenon
  <2>2. SetQuestion(q, v)
    BY <1>11
  <2> HIDE DEF v
  <2> QED
    BY <1>2, <2>1, <2>2
<1>12. ASSUME NEW q \in Question, NEW outcome \in {"yes", "no"},
              Answer(q, outcome) \/ Sweep(q)
       PROVE  QuestionsOK'
  <2>1. \/ SetQuestion(q, [question[q] EXCEPT !.status = "answered", !.outcome = outcome])
        \/ SetQuestion(q, [question[q] EXCEPT !.status = "timed_out", !.outcome = "timed_out"])
    BY <1>12, Zenon DEF Answer, Sweep
  <2>2. Ending("answered", outcome)
    BY <1>16
  <2> QED
    BY <1>11, <1>16, <2>1, <2>2, Zenon
<1>13. ASSUME NEW t \in Thread, Close(t) PROVE QuestionsOK'
  <2> DEFINE Closed(q) == [question[q] EXCEPT !.status = "cancelled", !.outcome = "cancelled"]
             Hit(q) == q[1] = Top(t).run /\ question[q].status = "pending"
  <2>1. question' = [q \in Question |-> IF Hit(q) THEN Closed(q) ELSE question[q]]
    BY <1>13 DEF Close
  <2>2. ASSUME NEW q \in Question PROVE Closed(q) \in QuestionType /\ Decisions(Closed(q))
    BY <1>4, <1>16, <2>2, Zenon
  <2> HIDE DEF Closed, Hit
  <2> QED
    BY <1>3, <2>1, <2>2 DEF QuestionsOK
<1>14. ASSUME NEW t \in Thread, Move(t), ~ UNCHANGED question
       PROVE  \/ AskGate(t) \/ AskReview(t) \/ StillOpen(t) \/ Released(t) \/ Refused(t)
              \/ Attach(t) \/ Close(t)
  BY <1>14 DEF Move, Unrequest, Begins, Control, Clear, Begin, Model, Wait, Write, Call,
         ResolveSeats, Spent, Delegate, FindDelegate, Settle, Record, Trace, Push, Wake, Recheck,
         Return, Attached, RequestPause, RequestCancel, CancelChildren
<1>15. ASSUME Outside, ~ UNCHANGED question
       PROVE  \E q \in Question, outcome \in {"yes", "no"} : Answer(q, outcome) \/ Sweep(q)
  BY <1>15 DEF Outside, Start, Pause, Resume, Cancel, SweepResumes, Crash, Recover
<1> QED
  BY <1>1, <1>8, <1>9, <1>10, <1>12, <1>13, <1>14, <1>15 DEF Next, Outside

LEMMA CountersStep ==
  ASSUME Types, Threads, Next
  PROVE  Counters'
<1> USE DEF Types, Counters
<1>1. CASE UNCHANGED <<done, agreed>>
  BY <1>1
<1>2. ASSUME NEW a, done' = [done EXCEPT ![a] = @ + 1], UNCHANGED agreed PROVE Counters'
  <2>1. ASSUME NEW b \in At PROVE done[b] \in Nat /\ done[b] + 1 \in Nat
    OBVIOUS
  <2>2. done' = [b \in At |-> IF b = a THEN done[b] + 1 ELSE done[b]]
    BY <1>2
  <2> QED
    BY <1>2, <2>1, <2>2
<1>3. ASSUME NEW q, agreed' = [agreed EXCEPT ![q] = @ + 1], UNCHANGED done PROVE Counters'
  <2>1. ASSUME NEW b \in Question PROVE agreed[b] \in Nat /\ agreed[b] + 1 \in Nat
    OBVIOUS
  <2>2. agreed' = [b \in Question |-> IF b = q THEN agreed[b] + 1 ELSE agreed[b]]
    BY <1>3
  <2> QED
    BY <1>3, <2>1, <2>2
<1>4. ASSUME NEW t \in Thread, Move(t), ~ UNCHANGED <<done, agreed>>
      PROVE  \E a : done' = [done EXCEPT ![a] = @ + 1] /\ UNCHANGED agreed
  <2>1. Call(t) \/ Released(t)
    BY <1>4 DEF Move, Unrequest, Begins, Control, Clear, Begin, Model, Wait, Write, AskGate,
         ResolveSeats, AskReview, StillOpen, Refused, Spent, Delegate, FindDelegate, Settle,
         Record, Trace, Push, Wake, Recheck, Return, Attach, Attached, RequestPause, Close,
         RequestCancel, CancelChildren, history
  <2> QED
    BY <1>4, <2>1 DEF Call, Released, history
<1>5. ASSUME Outside, ~ UNCHANGED <<done, agreed>>
      PROVE  \E q : agreed' = [agreed EXCEPT ![q] = @ + 1] /\ UNCHANGED done
  BY <1>5 DEF Outside, Start, Pause, Resume, Cancel, Answer, Sweep, SweepResumes, Crash, Recover,
              history
<1> QED
  BY <1>1, <1>2, <1>3, <1>4, <1>5 DEF Next, Outside

LEMMA RestStep ==
  ASSUME Types, Threads, Next
  PROVE  Rest'
<1> USE DEF Types, Rest
<1>1. ASSUME NEW t \in Thread, Move(t) PROVE Rest'
  <2>1. /\ UNCHANGED <<sweeping, boot, torn, requests, crashes>>
        /\ UNCHANGED trace \/ Trace(t)
        /\ UNCHANGED stale \/ Push(t) \/ Delegate(t)
    <3>1. CASE Push(t)
      BY <3>1 DEF Push, faults
    <3>2. CASE Delegate(t)
      <4>1. UNCHANGED <<trace, sweeping, torn>> /\ UNCHANGED faults
        BY <3>2 DEF Delegate
      <4> QED
        BY <3>2, <4>1 DEF faults
    <3>3. CASE ~Push(t) /\ ~Delegate(t)
      BY <1>1, <3>3 DEF Move, Unrequest, Begins, Control, Clear, Begin, Model, Wait, Write, Call,
           AskGate, ResolveSeats, AskReview, StillOpen, Released, Refused, Spent, FindDelegate,
           Settle, Record, Trace, Wake, Recheck, Return, Attach, Attached, RequestPause,
           Close, RequestCancel, CancelChildren, history, faults
    <3> QED
      BY <3>1, <3>2, <3>3
  <2>2. ASSUME thread[t] # <<>> PROVE Top(t).run \in Run /\ Top(t).end \in Lifecycle
    BY <2>2, TopFrame, FrameFields
  <2>3. trace' \in [Run -> Lifecycle]
    BY <2>1, <2>2 DEF Trace, Is
  <2>4. stale' \subseteq Run
    <3>1. CASE UNCHANGED stale \/ Push(t)
      BY <2>2, <3>1 DEF Push, Is
    <3>2. CASE Delegate(t)
      <4>1. Child[Top(t).run] \in Run
        BY <3>2, TopFrame, FrameFields, FlowAssumption DEF Delegate, AtStep, Is, Kind, OnStep
      <4> QED
        BY <3>2, <4>1 DEF Delegate
    <3> QED
      BY <2>1, <3>1, <3>2
  <2> QED
    BY <2>1, <2>3, <2>4
<1>2. CASE Crash
  <2>1. torn' \subseteq At
    <3>1. ASSUME NEW t \in Thread, Untold(t) PROVE Here(t) \in At
      BY <3>1, TopFrame, FrameFields DEF Untold, Is, Here, OnStep
    <3> QED
      BY <1>2, <3>1 DEF Crash
  <2>2. boot' \subseteq [run : Run, row : RowType(Step)] /\ \A b \in boot' : b.row \in Rows(b.run)
    BY <1>2 DEF Crash, RowsOK
  <2>3. crashes' \in 0 .. MaxCrashes
    BY <1>2, BoundAssumption DEF Crash
  <2> QED
    BY <1>2, <2>1, <2>2, <2>3 DEF Crash
<1>3. CASE Recover
  BY <1>3 DEF Recover, history
<1>4. ASSUME NEW r \in Run, Start(r) \/ Pause(r) \/ Resume(r) \/ Cancel(r) PROVE Rest'
  <2>1. /\ UNCHANGED <<trace, sweeping, boot, torn, stale, crashes>>
        /\ UNCHANGED requests \/ (requests < MaxRequests /\ requests' = requests + 1)
    BY <1>4 DEF Start, Pause, Resume, Cancel, Ask, history, faults
  <2>2. requests' \in 0 .. MaxRequests
    BY <2>1, BoundAssumption
  <2> QED
    BY <2>1, <2>2
<1>5. ASSUME NEW q \in Question, NEW outcome, Answer(q, outcome) \/ Sweep(q) \/ SweepResumes(q)
      PROVE  Rest'
  BY <1>5 DEF Answer, Sweep, SweepResumes, history, faults
<1> QED
  BY <1>1, <1>2, <1>3, <1>4, <1>5 DEF Next

LEMMA TypesStep ==
  ASSUME Types, Threads, [Next]_vars
  PROVE  Types' /\ Threads'
<1>1. CASE Next
  <2>1. Threads'
    <3>1. ASSUME NEW t \in Thread, Move(t) PROVE Threads'
      BY <3>1, ThreadMoves, ReleasedThreads DEF Moves, Threads
    <3>2. CASE Outside
      BY <3>2, OutsideMoves DEF Moves, Threads
    <3> QED
      BY <1>1, <3>1, <3>2 DEF Next, Outside
  <2> QED
    BY <1>1, <2>1, RowsStep, QuestionsStep, CountersStep, RestStep DEF Types
<1>2. CASE UNCHANGED vars
  BY <1>2 DEF vars, Types, Threads, RowsOK, QuestionsOK, Counters, Rest
<1> QED
  BY <1>1, <1>2

LEMMA TypesInit ==
  ASSUME Init
  PROVE  Types /\ Threads
<1>1. RowsOK
  <2>1. ASSUME NEW r \in Run PROVE NoRow \in Rows(r)
    BY DEF NoRow, Rows, RowType, Lifecycle, Reasons, Cursor
  <2>2. NoRow \in RowType(Step)
    BY DEF NoRow, RowType, Lifecycle, Reasons
  <2> QED
    BY <2>1, <2>2 DEF Init, RowsOK
<1>2. QuestionsOK
  BY DEF Init, QuestionsOK, QuestionType, Unasked, Decisions
<1>3. Counters /\ Rest
  BY BoundAssumption DEF Init, Counters, Rest, Lifecycle
<1>4. Threads
  BY DEF Init, Threads, Stacks
<1> QED
  BY <1>1, <1>2, <1>3, <1>4 DEF Types

\* Whatever the flows and whoever starts, answers, pauses, cancels or crashes
\* them, the store, the questions and the calls in flight keep their types
\* (flows.ts, flowStore.ts), and a waiting row always says where to go on.
THEOREM RunsAreWellFormed ==
  Spec => [](TypeOK /\ \A r \in Run : row[r].status = "waiting" => row[r].cursor \in DOMAIN Flow[r])
<1>1. Types /\ Threads => TypeOK
  <2>1. ASSUME Threads, NEW t \in Thread, NEW i \in DOMAIN thread[t]
        PROVE  thread[t][i] \in FrameType
    <3>1. thread[t] \in Seq(Frames)
      BY <2>1 DEF Threads, Stacks
    <3>2. thread[t][i] \in Frames
      BY <2>1, <3>1
    <3> QED
      BY <3>2 DEF Frames
  <2> QED
    BY <2>1 DEF Types, RowsOK, QuestionsOK, Counters, Rest, TypeOK
<1>2. Types => \A r \in Run : row[r].status = "waiting" => row[r].cursor \in DOMAIN Flow[r]
  BY DEF Types, RowsOK, Rows, Cursor
<1>3. Init => Types /\ Threads
  BY TypesInit
<1>4. Types /\ Threads /\ [Next]_vars => (Types /\ Threads)'
  BY TypesStep
<1> QED
  BY <1>1, <1>2, <1>3, <1>4, PTL DEF Spec
-----------------------------------------------------------------------------
(* Questions are decided once.                                             *)
Asks == <<[q \in Question |-> question[q].outcome], agreed, [q \in Question |-> done[q]]>>

LEMMA CallsAreFinite ==
  ASSUME NEW q
  PROVE  IsFiniteSet(Calls(q)) /\ Cardinality(Calls(q)) \in Nat
<1>1. IsFiniteSet(Thread)
  BY BoundAssumption, FS_Interval DEF Thread
<1>2. Calls(q) \subseteq Thread
  BY DEF Calls
<1> QED
  BY <1>1, <1>2, FS_Subset, FS_CardinalityType

\* Steps that call nothing and decide nothing.
LEMMA CalmOwes ==
  ASSUME Types, Owed, Threads', NEW q \in Question,
         Calls(q)' \subseteq Calls(q), Unread(q)' <= Unread(q), done'[q] = done[q],
         agreed'[q] \in Nat, agreed'[q] >= agreed[q]
  PROVE  done'[q] + Cardinality(Calls(q)') + Unread(q)' <= agreed'[q]
<1>1. /\ IsFiniteSet(Calls(q)) /\ Cardinality(Calls(q)) \in Nat /\ Cardinality(Calls(q)') \in Nat
      /\ Cardinality(Calls(q)') <= Cardinality(Calls(q))
  BY CallsAreFinite, FS_Subset, FS_CardinalityType
<1>2. done[q] \in Nat /\ agreed[q] \in Nat /\ q \in At
  BY DEF Types, Counters, Question
<1>3. Unread(q) \in {0, 1} /\ Unread(q)' \in {0, 1}
  BY DEF Unread
<1>4. done[q] + Cardinality(Calls(q)) + Unread(q) <= agreed[q]
  BY DEF Owed
<1> HIDE DEF Unread
<1> QED
  BY <1>1, <1>2, <1>3, <1>4

LEMMA CalmStep ==
  ASSUME Types, Owed, Moves, UNCHANGED <<done, agreed>>,
         \A q \in Question : Unread(q)' <= Unread(q)
  PROVE  Owed'
<1>1. Threads' /\ \A q \in Question : agreed[q] \in Nat
  BY DEF Moves, Threads, Types, Counters
<1> QED
  BY <1>1, CalmOwes DEF Moves, Owed

LEMMA OnceDecide ==
  ASSUME NEW Q \in SUBSET Question, NEW d \in {"yes", "no", "timed_out", "cancelled"},
         \A q \in Q : question[q].outcome = "none",
         \A q \in Question : question'[q].outcome = IF q \in Q THEN d ELSE question[q].outcome,
         agreed' = [q \in Question |-> IF q \in Q /\ d = "yes" THEN agreed[q] + 1 ELSE agreed[q]],
         UNCHANGED done
  PROVE  Once!Next
<1>1. Once!Decide(Q, d)
  BY DEF Once!Decide
<1> QED
  BY <1>1 DEF Once!Next

LEMMA OnceAskAgain ==
  ASSUME NEW q0 \in Reviews, UNCHANGED <<agreed, done>>,
         \A q \in Question : question'[q].outcome = IF q = q0 THEN "none" ELSE question[q].outcome
  PROVE  Once!Next
<1>1. Once!AskAgain(q0)
  BY DEF Once!AskAgain, Reviews
<1> QED
  BY <1>1 DEF Once!Next

LEMMA OnceRelease ==
  ASSUME Types, NEW q0 \in Question, done' = [done EXCEPT ![q0] = @ + 1], UNCHANGED agreed,
         \A q \in Question : question'[q].outcome = question[q].outcome,
         done[q0] < agreed[q0]
  PROVE  Once!Next
<1>1. \A q \in Question : q \in At /\ done'[q] = IF q = q0 THEN done[q] + 1 ELSE done[q]
  BY DEF Types, Counters, Question
<1>2. Once!Release(q0)
  BY <1>1 DEF Once!Release
<1> QED
  BY <1>2 DEF Once!Next

\* A step that leaves the decisions, and what is owed, as they are.
Same == /\ UNCHANGED <<done, agreed>>
        /\ \A q \in Question : /\ question'[q].outcome = question[q].outcome
                              /\ Unread(q)' <= Unread(q)
LEMMA SameStutters ==
  ASSUME Same
  PROVE  UNCHANGED Asks
BY DEF Same, Asks

LEMMA NothingAsked ==
  ASSUME UNCHANGED <<question, done, agreed>>
  PROVE  Same
BY DEF Same, Unread

\* The question a call is at.
LEMMA AtQuestion ==
  ASSUME Threads, NEW t \in Thread, AtStep(t, {"human", "review"}) \/ Is(t, "seats")
  PROVE  /\ thread[t] # <<>> /\ Here(t) \in Question
         /\ Is(t, "seats") => Here(t) \in Reviews
<1>1. thread[t] # <<>> /\ Top(t) \in Frames /\ Top(t).pc \in OnStep
  BY TopFrame DEF AtStep, Is, OnStep
<1>2. Here(t) \in At
  BY <1>1, FrameFields DEF Here
<1>3. Is(t, "seats") => Kind(Top(t).run, Top(t).at) = "review"
  BY <1>1 DEF Is, Frames
<1> QED
  BY <1>1, <1>2, <1>3 DEF AtStep, Question, Reviews, IsReview, Here

\* Reading a decision leaves it as it is.
LEMMA SpendKeeps ==
  ASSUME Types, NEW t \in Thread, NEW q0 \in Question, q0 = Here(t),
         NEW outcomes, Spend(t, outcomes)
  PROVE  /\ \A q \in Question : question'[q].outcome = question[q].outcome
         /\ \A q \in Question \ {q0} : Unread(q)' = Unread(q)
         /\ Unread(q0)' = 0
         /\ question[q0].outcome = "yes" => Unread(q0) = 1
<1>1. /\ question' = [question EXCEPT ![q0] = [question[q0] EXCEPT !.status = "consumed"]]
      /\ question \in [Question -> QuestionType] /\ q0 \in Question
      /\ question[q0].status \in {"answered", "timed_out", "cancelled"}
      /\ Decisions(question[q0])
  BY DEF Types, QuestionsOK, Spend, SetQuestion
<1> DEFINE v == [question[q0] EXCEPT !.status = "consumed"]
<1>2. v.status = "consumed" /\ v.outcome = question[q0].outcome
  BY <1>1 DEF QuestionType
<1>3. question[q0].outcome = "yes" => question[q0].status = "answered"
  BY <1>1 DEF Decisions
<1>4. \A q \in Question : question'[q] = IF q = q0 THEN v ELSE question[q]
  BY <1>1
<1> HIDE DEF v
<1>5. /\ \A q \in Question : question'[q].outcome = question[q].outcome
      /\ \A q \in Question \ {q0} : Unread(q)' = Unread(q)
      /\ Unread(q0)' = 0 /\ (question[q0].outcome = "yes" => Unread(q0) = 1)
  <2>1. \A q \in Question : question'[q].outcome = question[q].outcome
    BY <1>2, <1>4
  <2>2. \A q \in Question \ {q0} : Unread(q)' = Unread(q)
    BY <1>4 DEF Unread
  <2>3. question'[q0] = v /\ Unread(q0)' = 0
    BY <1>1, <1>2, <1>4 DEF Unread
  <2>4. question[q0].outcome = "yes" => Unread(q0) = 1
    BY <1>3 DEF Unread
  <2> QED
    BY <2>1, <2>2, <2>3, <2>4
<1> QED
  BY <1>5

LEMMA ReleasedOnce ==
  ASSUME FlowInv, NEW t \in Thread, Released(t)
  PROVE  Owed' /\ [Once!Next]_Asks
<1>1. Types /\ Threads /\ Owed
  BY DEF FlowInv
<1>0. PICK q0 \in Question : q0 = Here(t)
  BY <1>1, ReleasedThreads
<1>2. /\ q0 \in Question /\ Threads'
      /\ \A q \in Question : Calls(q)' \subseteq Calls(q) \cup {t}
      /\ \A q \in Question : q # q0 \/ ~IsReview(q) => Calls(q)' \subseteq Calls(q)
  BY <1>0, <1>1, ReleasedThreads
<1>3. /\ Spend(t, {"yes"}) /\ question[q0].outcome = "yes" /\ UNCHANGED agreed
      /\ IF IsReview(q0) THEN UNCHANGED done ELSE done' = [done EXCEPT ![q0] = @ + 1]
  BY <1>0 DEF Released, Spend, history
<1>4. /\ \A q \in Question : question'[q].outcome = question[q].outcome
      /\ \A q \in Question \ {q0} : Unread(q)' = Unread(q)
      /\ Unread(q0)' = 0 /\ Unread(q0) = 1
  BY <1>0, <1>1, <1>3, SpendKeeps
<1>5. /\ \A q \in Question : q \in At /\ done[q] \in Nat /\ agreed[q] \in Nat
      /\ \A q \in Question : done'[q] = IF ~IsReview(q0) /\ q = q0 THEN done[q] + 1 ELSE done[q]
  BY <1>1, <1>3 DEF Types, Counters, Question
<1>6. /\ IsFiniteSet(Calls(q0)) /\ Cardinality(Calls(q0)) \in Nat
      /\ Cardinality(Calls(q0)') \in Nat
      /\ Cardinality(Calls(q0)') <= Cardinality(Calls(q0)) + (IF IsReview(q0) THEN 1 ELSE 0)
  <2>1. IsFiniteSet(Calls(q0)) /\ Cardinality(Calls(q0)) \in Nat
    BY CallsAreFinite
  <2>2. CASE IsReview(q0)
    <3>1. /\ IsFiniteSet(Calls(q0) \cup {t})
          /\ Cardinality(Calls(q0) \cup {t}) <= Cardinality(Calls(q0)) + 1
      <4>1. /\ IsFiniteSet(Calls(q0) \cup {t})
            /\ \/ Cardinality(Calls(q0) \cup {t}) = Cardinality(Calls(q0))
               \/ Cardinality(Calls(q0) \cup {t}) = Cardinality(Calls(q0)) + 1
        BY <2>1, FS_AddElement
      <4> QED
        BY <2>1, <4>1
    <3>2. Calls(q0)' \subseteq Calls(q0) \cup {t}
      BY <1>2, <2>2
    <3> QED
      BY <2>1, <2>2, <3>1, <3>2, FS_Subset, FS_CardinalityType
  <2>3. CASE ~IsReview(q0)
    <3>1. Calls(q0)' \subseteq Calls(q0)
      BY <1>2, <2>3
    <3> QED
      BY <2>1, <2>3, <3>1, FS_Subset, FS_CardinalityType
  <2> QED
    BY <2>1, <2>2, <2>3
<1>7. done[q0] + Cardinality(Calls(q0)) + 1 <= agreed[q0]
  BY <1>1, <1>2, <1>4 DEF Owed
<1>8. Owed'
  <2>1. ASSUME NEW q \in Question, q # q0
        PROVE  done'[q] + Cardinality(Calls(q)') + Unread(q)' <= agreed'[q]
    <3>1. Unread(q)' = Unread(q) /\ Unread(q) \in {0, 1}
      BY <1>4, <2>1 DEF Unread
    <3>2. Calls(q)' \subseteq Calls(q)
      BY <1>2, <2>1
    <3>3. done'[q] = done[q] /\ agreed'[q] = agreed[q] /\ agreed[q] \in Nat
      BY <1>3, <1>5, <2>1
    <3> QED
      BY <1>1, <1>2, <3>1, <3>2, <3>3, CalmOwes
  <2>2. done'[q0] + Cardinality(Calls(q0)') + Unread(q0)' <= agreed'[q0]
    BY <1>2, <1>3, <1>4, <1>5, <1>6, <1>7
  <2>3. ASSUME NEW q \in Question
        PROVE  done'[q] + Cardinality(Calls(q)') + Unread(q)' <= agreed'[q]
    <3>1. CASE q = q0
      BY <2>2, <3>1, Zenon
    <3>2. CASE q # q0
      BY <2>1, <3>2
    <3> QED
      BY <3>1, <3>2
  <2> QED
    BY <2>3 DEF Owed
<1>9. [Once!Next]_Asks
  <2>1. CASE IsReview(q0)
    BY <1>3, <1>4, <1>5, <2>1 DEF Asks
  <2>2. CASE ~IsReview(q0)
    <3>1. done[q0] < agreed[q0]
      BY <1>2, <1>5, <1>6, <1>7
    <3> QED
      BY <1>1, <1>2, <1>3, <1>4, <2>2, <3>1, OnceRelease
  <2> QED
    BY <2>1, <2>2
<1> QED
  BY <1>8, <1>9

LEMMA CalledOnce ==
  ASSUME FlowInv, NEW t \in Thread, Call(t)
  PROVE  Owed' /\ [Once!Next]_Asks
<1>1. Types /\ Threads /\ Owed
  BY DEF FlowInv
<1>2. PICK a : a = Here(t)
  OBVIOUS
<1>3. /\ thread[t] # <<>> /\ Top(t) \in Frames /\ Top(t).pc = "call" /\ Top(t).at # 0 /\ a \in At
  BY <1>1, <1>2, TopFrame, FrameFields DEF Call, Is, OnStep, Here
<1>4. /\ done' = [done EXCEPT ![a] = @ + 1] /\ UNCHANGED <<question, agreed>>
      /\ \E end \in {"none", "error"} : Become(t, After(Top(t), end, "none"))
  BY <1>2 DEF Call, Ends, history
<1>5. Moves /\ Threads' /\ \A q \in Question : t \notin Calls(q)'
  <2>1. PICK end \in {"none", "error"} : Become(t, After(Top(t), end, "none"))
    BY <1>4
  <2> DEFINE f == After(Top(t), end, "none")
  <2>2. f \in Frames /\ f.pc \in {"settle", "record"}
    BY <1>3, AfterIsFrame DEF Lifecycle, Terminal, Reasons
  <2>3. thread' = [thread EXCEPT ![t] = <<f>> \o Tail(thread[t])]
    BY <2>1 DEF Become
  <2>4. Become(t, f)
    BY <2>1
  <2> HIDE DEF f
  <2>5. thread'[t] = <<f>> \o Tail(thread[t]) /\ Head(thread'[t]) = f
    BY <1>1, <1>3, <2>2, <2>3, Popped, Pushed DEF Threads
  <2>6. Moves
    BY <1>1, <1>3, <2>2, <2>4, BecomeMoves DEF Held
  <2> QED
    BY <2>2, <2>5, <2>6 DEF Moves, Threads, Calls, Is, Top
<1>6. \A q \in Question : q \in At /\ done[q] \in Nat /\ agreed[q] \in Nat
                       /\ done'[q] = IF q = a THEN done[q] + 1 ELSE done[q]
  BY <1>1, <1>4 DEF Types, Counters, Question
<1>7. \A q \in Question : Unread(q)' = Unread(q) /\ Unread(q) \in {0, 1}
  BY <1>4 DEF Unread
<1>8. ASSUME NEW q \in Question, q # a
      PROVE  done'[q] + Cardinality(Calls(q)') + Unread(q)' <= agreed'[q]
  <2>1. /\ Calls(q)' \subseteq Calls(q) /\ done'[q] = done[q] /\ agreed'[q] = agreed[q]
        /\ agreed[q] \in Nat /\ Unread(q)' <= Unread(q)
    BY <1>4, <1>5, <1>6, <1>7, <1>8 DEF Moves
  <2> QED
    BY <1>1, <1>5, <2>1, CalmOwes
<1>9. CASE a \notin Question
  <2>1. Owed'
    BY <1>8, <1>9 DEF Owed
  <2>2. UNCHANGED Asks
    BY <1>4, <1>6, <1>9 DEF Asks
  <2> QED
    BY <2>1, <2>2
<1>10. CASE a \in Question
  <2>1. /\ Calls(a)' \subseteq Calls(a) \ {t} /\ t \in Calls(a)
    BY <1>2, <1>3, <1>5, <1>10 DEF Moves, Calls, Is
  <2>2. /\ IsFiniteSet(Calls(a)) /\ Cardinality(Calls(a)) \in Nat
        /\ IsFiniteSet(Calls(a) \ {t}) /\ Cardinality(Calls(a) \ {t}) = Cardinality(Calls(a)) - 1
    BY <2>1, CallsAreFinite, FS_RemoveElement
  <2>3. /\ Cardinality(Calls(a)') \in Nat
        /\ Cardinality(Calls(a)') <= Cardinality(Calls(a)) - 1
    BY <2>1, <2>2, FS_Subset, FS_CardinalityType
  <2>4. done[a] + Cardinality(Calls(a)) + Unread(a) <= agreed[a]
    BY <1>1, <1>10 DEF Owed
  <2>5. done'[a] + Cardinality(Calls(a)') + Unread(a)' <= agreed'[a]
    BY <1>4, <1>6, <1>7, <1>10, <2>2, <2>3, <2>4
  <2>6. Owed'
    <3>1. ASSUME NEW q \in Question
          PROVE  done'[q] + Cardinality(Calls(q)') + Unread(q)' <= agreed'[q]
      <4>1. CASE q = a
        BY <2>5, <4>1, Zenon
      <4>2. CASE q # a
        BY <1>8, <4>2
      <4> QED
        BY <4>1, <4>2
    <3> QED
      BY <3>1 DEF Owed
  <2>7. done[a] < agreed[a]
    BY <1>6, <1>7, <1>10, <2>2, <2>3, <2>4
  <2>8. Once!Next
    BY <1>1, <1>4, <1>10, <2>7, OnceRelease
  <2> QED
    BY <2>6, <2>8
<1> QED
  BY <1>9, <1>10

\* The other steps of a thread: they ask, find a question open or decided, or
\* go by it.
LEMMA AsksOnce ==
  ASSUME FlowInv, NEW t \in Thread, Move(t), ~Released(t), ~Call(t)
  PROVE  Owed' /\ [Once!Next]_Asks
<1>1. Types /\ Threads /\ Owed /\ QuestionsOK
  BY DEF FlowInv, Types
<1>2. Moves
  BY <1>1, ThreadMoves
<1>3. UNCHANGED <<done, agreed>>
  BY DEF Move, Unrequest, Begins, Control, Clear, Begin, Model, Wait, Write, AskGate,
     ResolveSeats, AskReview, StillOpen, Refused, Spent, Delegate, FindDelegate, Settle,
     Record, Trace, Push, Wake, Recheck, Return, Attach, Attached, RequestPause, Close,
     RequestCancel, CancelChildren, history
<1>4. ASSUME Same PROVE Owed' /\ [Once!Next]_Asks
  BY <1>1, <1>2, <1>3, <1>4, CalmStep, SameStutters DEF Same
<1>5. CASE UNCHANGED question
  BY <1>3, <1>4, <1>5, NothingAsked
<1>6. ASSUME ~ UNCHANGED question
      PROVE  AskGate(t) \/ AskReview(t) \/ StillOpen(t) \/ Refused(t) \/ Attach(t) \/ Close(t)
  BY <1>6 DEF Move, Unrequest, Begins, Control, Clear, Begin, Model, Wait, Write, Call,
         ResolveSeats, Spent, Delegate, FindDelegate, Settle, Record, Trace, Push, Wake, Recheck,
         Return, Attached, RequestPause, RequestCancel, CancelChildren
<1>7. Asked.outcome = "none" /\ Asked.status = "pending"
  BY DEF Asked, Unasked
<1>8. CASE AskGate(t)
  <2>1. PICK q0 \in Question : q0 = Here(t)
    BY <1>1, <1>8, AtQuestion DEF AskGate, AtStep
  <2>2. /\ question' = [question EXCEPT ![q0] = Asked] /\ question[q0].outcome = "none"
        /\ question \in [Question -> QuestionType]
    BY <1>1, <1>8, <2>1 DEF AskGate, SetQuestion, QuestionsOK, Decisions
  <2>3. \A q \in Question : question'[q] = IF q = q0 THEN Asked ELSE question[q]
    BY <2>2
  <2>4. Same
    BY <1>3, <1>7, <2>2, <2>3 DEF Same, Unread
  <2> QED
    BY <1>4, <2>4
<1>9. CASE AskReview(t)
  <2>1. PICK q0 \in Reviews : q0 = Here(t)
    BY <1>1, <1>9, AtQuestion DEF AskReview
  <2>2. \A q \in Question : question'[q] = IF q = q0 THEN Asked ELSE question[q]
    BY <1>1, <1>9, <2>1 DEF AskReview, SetQuestion, QuestionsOK
  <2>3. \A q \in Question : Unread(q)' <= Unread(q)
    BY <1>7, <2>2 DEF Unread
  <2>4. Owed'
    BY <1>1, <1>2, <1>3, <2>3, CalmStep
  <2>5. Once!Next
    BY <1>3, <1>7, <2>1, <2>2, OnceAskAgain
  <2> QED
    BY <2>4, <2>5
<1>10. CASE StillOpen(t) /\ ~ UNCHANGED question
  <2>1. PICK q0 \in Question : q0 = Here(t)
    BY <1>1, <1>10, AtQuestion DEF StillOpen
  <2> DEFINE v == [question[q0] EXCEPT !.status = "consumed", !.outcome = "timed_out"]
  <2>2. SetQuestion(q0, v) /\ question[q0].status = "pending"
    BY <1>10, <2>1 DEF StillOpen
  <2>3. v = Value("consumed", "timed_out", question[q0].resume)
    BY <1>1, QuestionDecided, Zenon DEF QuestionsOK
  <2> HIDE DEF v
  <2>4. /\ \A q \in Question : question'[q] = IF q = q0 THEN v ELSE question[q]
        /\ v.status = "consumed" /\ v.outcome = "timed_out" /\ question[q0].outcome = "none"
    BY <1>1, <2>2, <2>3 DEF SetQuestion, QuestionsOK, Decisions, Value
  <2>5. \A q \in Question : Unread(q)' <= Unread(q)
    BY <2>4 DEF Unread
  <2>6. Owed'
    BY <1>1, <1>2, <1>3, <2>5, CalmStep
  <2>7. Once!Next
    <3>1. /\ {q0} \in SUBSET Question /\ "timed_out" \in {"yes", "no", "timed_out", "cancelled"}
          /\ \A q \in {q0} : question[q].outcome = "none"
          /\ \A q \in Question : question'[q].outcome
                = IF q \in {q0} THEN "timed_out" ELSE question[q].outcome
          /\ agreed' = [q \in Question |->
                IF q \in {q0} /\ "timed_out" = "yes" THEN agreed[q] + 1 ELSE agreed[q]]
      BY <1>1, <1>3, <2>4 DEF Types, Counters
    <3> QED
      BY <1>3, <3>1, OnceDecide
  <2> QED
    BY <2>6, <2>7
<1>11. CASE Refused(t)
  <2>1. PICK q0 \in Question : q0 = Here(t)
    BY <1>1, <1>11, AtQuestion DEF Refused
  <2>2. /\ \A q \in Question : question'[q].outcome = question[q].outcome
        /\ \A q \in Question \ {q0} : Unread(q)' = Unread(q)
        /\ Unread(q0)' = 0
    BY <1>1, <1>11, <2>1, SpendKeeps DEF Refused
  <2>3. \A q \in Question : Unread(q) \in {0, 1}
    BY DEF Unread
  <2>4. \A q \in Question : Unread(q)' <= Unread(q)
    BY <2>2, <2>3
  <2> QED
    BY <1>3, <1>4, <2>2, <2>4 DEF Same
<1>12. CASE Attach(t)
  <2>1. PICK q0 : q0 = Here(t)
    OBVIOUS
  <2>2. question' = [question EXCEPT ![q0] = [question[q0] EXCEPT !.resume = TRUE]]
    BY <1>12, <2>1 DEF Attach, SetQuestion
  <2>3. ASSUME NEW q \in Question
        PROVE  question'[q].outcome = question[q].outcome /\ question'[q].status = question[q].status
    BY <1>1, <2>2 DEF QuestionsOK, QuestionType
  <2>4. Same
    BY <1>3, <2>3 DEF Same, Unread
  <2> QED
    BY <1>4, <2>4
<1>13. CASE Close(t)
  <2> DEFINE Closed(q) == [question[q] EXCEPT !.status = "cancelled", !.outcome = "cancelled"]
  <2>1. PICK r : r = Top(t).run
    OBVIOUS
  <2>2. PICK Q \in SUBSET Question : \A q \in Question :
          q \in Q <=> (q[1] = r /\ question[q].status = "pending")
    <3>1. {q \in Question : q[1] = r /\ question[q].status = "pending"} \in SUBSET Question
      OBVIOUS
    <3> QED
      BY <3>1
  <2>3. \A q \in Question : Closed(q) = Value("cancelled", "cancelled", question[q].resume)
    BY <1>1, QuestionDecided, Zenon DEF QuestionsOK
  <2>4. \A q \in Question : question'[q] = IF q \in Q THEN Closed(q) ELSE question[q]
    BY <1>13, <2>1, <2>2 DEF Close
  <2> HIDE DEF Closed
  <2>5. \A q \in Question : q \in Q => question[q].outcome = "none"
    BY <1>1, <2>2 DEF QuestionsOK, Decisions
  <2>6. \A q \in Question : /\ question'[q].outcome = IF q \in Q THEN "cancelled" ELSE question[q].outcome
                          /\ question'[q].status = IF q \in Q THEN "cancelled" ELSE question[q].status
    BY <2>3, <2>4 DEF Value
  <2>7. \A q \in Question : Unread(q)' <= Unread(q)
    BY <2>6 DEF Unread
  <2>8. Owed'
    BY <1>1, <1>2, <1>3, <2>7, CalmStep
  <2>9. Once!Next
    <3>1. /\ "cancelled" \in {"yes", "no", "timed_out", "cancelled"}
          /\ \A q \in Q : question[q].outcome = "none"
          /\ agreed' = [q \in Question |->
                IF q \in Q /\ "cancelled" = "yes" THEN agreed[q] + 1 ELSE agreed[q]]
      BY <1>1, <1>3, <2>5 DEF Types, Counters
    <3> QED
      BY <1>3, <2>6, <3>1, OnceDecide
  <2> QED
    BY <2>8, <2>9
<1> QED
  BY <1>5, <1>6, <1>8, <1>9, <1>10, <1>11, <1>12, <1>13

LEMMA OutsideOnce ==
  ASSUME FlowInv, Outside
  PROVE  Owed' /\ [Once!Next]_Asks
<1>1. Types /\ Threads /\ Owed /\ QuestionsOK /\ Counters
  BY DEF FlowInv, Types
<1>2. Moves
  BY <1>1, OutsideMoves
<1>3. CASE UNCHANGED <<question, done, agreed>>
  BY <1>1, <1>2, <1>3, NothingAsked, CalmStep, SameStutters DEF Same
<1>4. ASSUME ~ UNCHANGED <<question, done, agreed>>
      PROVE  \E q \in Question, outcome \in {"yes", "no"} : Answer(q, outcome) \/ Sweep(q)
  BY <1>4 DEF Outside, Start, Pause, Resume, Cancel, SweepResumes, Crash, Recover, history
<1>5. ASSUME NEW q0 \in Question, NEW s \in {"answered", "timed_out"},
             NEW d \in {"yes", "no", "timed_out"},
             question[q0].status = "pending", UNCHANGED done,
             SetQuestion(q0, [question[q0] EXCEPT !.status = s, !.outcome = d]),
             agreed' = IF d = "yes" THEN [agreed EXCEPT ![q0] = @ + 1] ELSE agreed
      PROVE  Owed' /\ [Once!Next]_Asks
  <2> DEFINE v == [question[q0] EXCEPT !.status = s, !.outcome = d]
  <2>1. v = Value(s, d, question[q0].resume)
    BY <1>1, QuestionDecided, Zenon DEF QuestionsOK
  <2>2. SetQuestion(q0, v)
    BY <1>5
  <2> HIDE DEF v
  <2>3. /\ \A q \in Question : question'[q] = IF q = q0 THEN v ELSE question[q]
        /\ v.status = s /\ v.outcome = d /\ question[q0].outcome = "none"
    BY <1>1, <1>5, <2>1, <2>2 DEF SetQuestion, QuestionsOK, Decisions, Value
  <2>4. agreed' = [q \in Question |-> IF q \in {q0} /\ d = "yes" THEN agreed[q] + 1 ELSE agreed[q]]
    <3>1. CASE d = "yes"
      BY <1>1, <1>5, <3>1 DEF Counters
    <3>2. CASE d # "yes"
      BY <1>1, <1>5, <3>2 DEF Counters
    <3> QED
      BY <3>1, <3>2
  <2>5. Once!Next
    <3>1. /\ {q0} \in SUBSET Question /\ d \in {"yes", "no", "timed_out", "cancelled"}
          /\ \A q \in {q0} : question[q].outcome = "none"
          /\ \A q \in Question : question'[q].outcome
                = IF q \in {q0} THEN d ELSE question[q].outcome
      BY <2>3
    <3> QED
      BY <1>5, <2>4, <3>1, OnceDecide
  <2>6. ASSUME NEW q \in Question
        PROVE  done'[q] + Cardinality(Calls(q)') + Unread(q)' <= agreed'[q]
    <3>1. /\ Calls(q)' \subseteq Calls(q) /\ done'[q] = done[q] /\ agreed[q] \in Nat /\ Threads'
      BY <1>1, <1>2, <1>5 DEF Moves, Threads, Counters
    <3>2. CASE q = q0 /\ d = "yes"
      <4>1. /\ Cardinality(Calls(q)) \in Nat /\ Cardinality(Calls(q)') \in Nat
            /\ Cardinality(Calls(q)') <= Cardinality(Calls(q))
        BY <3>1, CallsAreFinite, FS_Subset, FS_CardinalityType
      <4>2. Unread(q) = 0 /\ Unread(q)' \in {0, 1}
        BY <1>5, <3>2 DEF Unread
      <4>3. done[q] + Cardinality(Calls(q)) + Unread(q) <= agreed[q] /\ done[q] \in Nat
        BY <1>1 DEF Owed, Counters, Question
      <4>4. agreed'[q] = agreed[q] + 1
        BY <2>4, <3>2
      <4> QED
        BY <3>1, <4>1, <4>2, <4>3, <4>4
    <3>3. CASE ~(q = q0 /\ d = "yes")
      <4>1. agreed'[q] = agreed[q]
        BY <2>4, <3>3
      <4>2. Unread(q)' <= Unread(q)
        BY <2>3, <3>3 DEF Unread
      <4> QED
        BY <1>1, <3>1, <4>1, <4>2, CalmOwes
    <3> QED
      BY <3>2, <3>3
  <2> QED
    BY <2>5, <2>6 DEF Owed
<1>6. ASSUME NEW q \in Question, NEW outcome \in {"yes", "no"}, Answer(q, outcome) \/ Sweep(q)
      PROVE  Owed' /\ [Once!Next]_Asks
  <2>1. CASE Answer(q, outcome)
    <3>1. /\ question[q].status = "pending" /\ UNCHANGED done
          /\ SetQuestion(q, [question[q] EXCEPT !.status = "answered", !.outcome = outcome])
          /\ agreed' = IF outcome = "yes" THEN [agreed EXCEPT ![q] = @ + 1] ELSE agreed
      BY <2>1 DEF Answer
    <3>2. "answered" \in {"answered", "timed_out"} /\ outcome \in {"yes", "no", "timed_out"}
      OBVIOUS
    <3> QED
      BY <1>5, <3>1, <3>2, Zenon
  <2>2. CASE Sweep(q)
    <3>1. /\ question[q].status = "pending" /\ UNCHANGED done
          /\ SetQuestion(q, [question[q] EXCEPT !.status = "timed_out", !.outcome = "timed_out"])
          /\ agreed' = IF "timed_out" = "yes" THEN [agreed EXCEPT ![q] = @ + 1] ELSE agreed
      BY <2>2 DEF Sweep, history
    <3>2. "timed_out" \in {"answered", "timed_out"} /\ "timed_out" \in {"yes", "no", "timed_out"}
      OBVIOUS
    <3> QED
      BY <1>5, <3>1, <3>2, Zenon
  <2> QED
    BY <1>6, <2>1, <2>2
<1> QED
  BY <1>3, <1>4, <1>6

LEMMA OwedStep ==
  ASSUME FlowInv, [Next]_vars
  PROVE  FlowInv' /\ [Once!Next]_Asks
<1>1. Types' /\ Threads'
  BY TypesStep DEF FlowInv
<1>2. CASE Next
  <2>1. ASSUME NEW t \in Thread, Move(t) PROVE Owed' /\ [Once!Next]_Asks
    BY <2>1, ReleasedOnce, CalledOnce, AsksOnce
  <2>2. Owed' /\ [Once!Next]_Asks
    BY <1>2, <2>1, OutsideOnce DEF Next, Outside
  <2> QED
    BY <1>1, <2>2 DEF FlowInv
<1>3. CASE UNCHANGED vars
  <2>1. Owed'
    BY <1>3 DEF FlowInv, vars, Owed, Calls, Unread, Is, Here, Top
  <2> QED
    BY <1>1, <1>3, <2>1 DEF FlowInv, vars, Asks
<1> QED
  BY <1>2, <1>3

LEMMA OwedInit ==
  ASSUME Init
  PROVE  FlowInv /\ Once!Init
<1>1. Types /\ Threads
  BY TypesInit
<1>2. Owed
  <2>1. ASSUME NEW q \in Question
        PROVE  done[q] = 0 /\ Calls(q) = {} /\ Unread(q) = 0 /\ agreed[q] = 0
    BY DEF Init, Calls, Is, Unread, Unasked, Question
  <2> QED
    BY <2>1, FS_EmptySet DEF Owed
<1>3. Once!Init
  BY DEF Init, Once!Init, Unasked, Question
<1> QED
  BY <1>1, <1>2, <1>3 DEF FlowInv

\* Whatever the threads, the answers, the sweep and the crashes do to them, the
\* gates and the reviews implement OneAnswer: decided once, never changed, and
\* at most one call, or one step past a gate, for each yes (dualControl.ts
\* check and observe, humanGates.ts gate and observe).
THEOREM QuestionsAreDecidedOnce == Spec => ImplementsOneAnswer
<1>1. Init => FlowInv /\ Once!Init
  BY OwedInit
<1>2. FlowInv /\ [Next]_vars => FlowInv' /\ [Once!Next]_Asks
  BY OwedStep
<1> QED
  BY <1>1, <1>2, PTL DEF Spec, ImplementsOneAnswer, Once!Spec, Asks
-----------------------------------------------------------------------------
(* Who is late starts the resume.  As long as the process lives, a run     *)
(* parked on a question that was decided, or on a run that ended, has a    *)
(* call that still writes its row, or somebody about to notice.            *)
FramesOf(s) == {s[i] : i \in DOMAIN s}
Flying == UNION {FramesOf(thread[t]) : t \in Thread}

\* Where a call will still write the row of its run.
Onward == {"unrequest", "start", "control", "clear", "begin", "step", "seats", "call",
           "nested", "settle", "record", "trace", "push"}

LEMMA PushedFrames ==
  ASSUME NEW S, NEW u \in Seq(S), NEW f
  PROVE  FramesOf(<<f>> \o u) = {f} \cup FramesOf(u) /\ <<f>> \o u \in Seq(S \cup {f})
<1> DEFINE s == <<f>> \o u
<1>1. u \in Seq(S \cup {f}) /\ <<f>> \in Seq(S \cup {f})
  OBVIOUS
<1>2. /\ Len(u) \in Nat /\ DOMAIN u = 1 .. Len(u) /\ DOMAIN s = 1 .. (1 + Len(u))
      /\ s[1] = f /\ \A i \in 1 .. Len(u) : s[i + 1] = u[i]
  BY <1>1
<1>3. \A i \in 2 .. (1 + Len(u)) : i - 1 \in 1 .. Len(u) /\ s[i] = u[i - 1]
  BY <1>2
<1>6. s \in Seq(S \cup {f})
  BY <1>1
<1> HIDE DEF s
<1>4. FramesOf(s) \subseteq {f} \cup FramesOf(u)
  <2>1. ASSUME NEW i \in DOMAIN s PROVE s[i] \in {f} \cup FramesOf(u)
    <3>1. i = 1 \/ i \in 2 .. (1 + Len(u))
      BY <1>2
    <3> QED
      BY <3>1, <1>2, <1>3 DEF FramesOf
  <2> QED
    BY <2>1 DEF FramesOf
<1>5. {f} \cup FramesOf(u) \subseteq FramesOf(s)
  <2>1. 1 \in DOMAIN s /\ \A i \in DOMAIN u : i + 1 \in DOMAIN s
    BY <1>2
  <2> QED
    BY <2>1, <1>2 DEF FramesOf
<1> QED
  BY <1>4, <1>5, <1>6 DEF s

LEMMA StackFrames ==
  /\ FramesOf(<<>>) = {}
  /\ \A s \in Stacks : s # <<>> => FramesOf(s) = {Head(s)} \cup FramesOf(Tail(s))
  /\ \A s \in Stacks : FramesOf(s) \subseteq Frames
<1>1. FramesOf(<<>>) = {}
  BY DEF FramesOf
<1>3. ASSUME NEW s \in Stacks, s # <<>>
      PROVE  FramesOf(s) = {Head(s)} \cup FramesOf(Tail(s))
  <2>1. s \in Seq(Frames) /\ Head(s) \in Frames /\ Tail(s) \in Unders
    BY <1>3, Popped DEF Stacks
  <2>2. s = <<Head(s)>> \o Tail(s)
    BY <1>3, <2>1
  <2>3. FramesOf(<<Head(s)>> \o Tail(s)) = {Head(s)} \cup FramesOf(Tail(s))
    BY <2>1, PushedFrames DEF Unders
  <2> QED
    BY <2>2, <2>3, Zenon
<1>4. \A s \in Stacks : FramesOf(s) \subseteq Frames
  BY DEF Stacks, FramesOf
<1> QED
  BY <1>1, <1>3, <1>4

\* Only the calls of X are gone, or went on from the run they waited for.
Survive(X) ==
  \A f \in Flying : \/ f \in X \/ f \in Flying'
                    \/ f.pc = "nested" /\ \E g \in Flying' : /\ g.run = f.run
                                                            /\ g.pc \in {"settle", "record"}
\* A call that came back to an agent step.
CameBack(g) == \E f \in Flying, end \in Lifecycle : f.pc = "nested" /\ g = Delegated(f, end)

LEMMA StackChanged ==
  ASSUME Threads, NEW t \in Thread, NEW s, thread' = [thread EXCEPT ![t] = s]
  PROVE  /\ FramesOf(s) \subseteq Flying' /\ Flying' \subseteq Flying \cup FramesOf(s)
         /\ \A f \in Flying : f \in FramesOf(thread[t]) \/ f \in Flying'
<1>1. \A u \in Thread : thread'[u] = IF u = t THEN s ELSE thread[u]
  BY DEF Threads
<1>2. Flying' = UNION {FramesOf(thread'[u]) : u \in Thread}
  BY DEF Flying, FramesOf
<1> QED
  BY <1>1, <1>2 DEF Flying

LEMMA Flights ==
  ASSUME Threads
  PROVE  /\ Flying \subseteq Frames
         /\ \A t \in Thread : thread[t] # <<>> =>
              /\ FramesOf(thread[t]) = {Top(t)} \cup FramesOf(Under(t))
              /\ FramesOf(thread[t]) \subseteq Flying
              /\ Top(t) \in Flying /\ Top(t) \in Frames
BY StackFrames DEF Threads, Flying, Top, Under

LEMMA BecomeFlies ==
  ASSUME Threads, NEW t \in Thread, thread[t] # <<>>, NEW f, Become(t, f)
  PROVE  f \in Flying' /\ Flying' \subseteq Flying \cup {f} /\ Survive({Top(t)})
<1> DEFINE s == <<f>> \o Under(t)
<1>1. FramesOf(s) = {f} \cup FramesOf(Under(t))
  BY Popped, PushedFrames DEF Threads, Under, Unders
<1>2. thread' = [thread EXCEPT ![t] = s]
  BY DEF Become, Under
<1> HIDE DEF s
<1> QED
  BY <1>1, <1>2, StackChanged, Flights DEF Survive

LEMMA CallOutFlies ==
  ASSUME Threads, NEW t \in Thread, thread[t] # <<>>, NEW f, NEW g, CallOut(t, f, g)
  PROVE  /\ g \in Flying' /\ Flying' \subseteq Flying \cup {f, g} /\ Survive({Top(t)})
         /\ f.pc = "nested" => f \in Flying'
<1> DEFINE S == {h \in Frames : h.pc \in {"nested", "return", "children"}}
<1>0. Under(t) \in Seq(S) /\ FramesOf(thread[t]) = {Top(t)} \cup FramesOf(Under(t))
  BY Popped, Flights DEF Threads, Under, Unders
<1> HIDE DEF S
<1>1. CASE f.pc = "return" /\ Under(t) = <<>>
  <2>1. thread' = [thread EXCEPT ![t] = <<g>>]
    BY <1>1 DEF CallOut
  <2>2. FramesOf(<<g>>) = {g} /\ FramesOf(Under(t)) = {}
    BY <1>1, StackFrames DEF FramesOf
  <2> QED
    BY <1>0, <1>1, <2>1, <2>2, StackChanged, Flights DEF Survive
<1>2. CASE ~(f.pc = "return" /\ Under(t) = <<>>)
  <2> DEFINE u == <<f>> \o Under(t)
             s == <<g>> \o u
  <2>1. FramesOf(u) = {f} \cup FramesOf(Under(t)) /\ u \in Seq(S \cup {f})
    BY <1>0, PushedFrames
  <2>2. thread' = [thread EXCEPT ![t] = s]
    BY <1>2 DEF CallOut
  <2> HIDE DEF u
  <2>3. FramesOf(s) = {g} \cup FramesOf(u)
    BY <2>1, PushedFrames
  <2> HIDE DEF s
  <2> QED
    BY <1>0, <2>1, <2>2, <2>3, StackChanged, Flights DEF Survive
<1> QED
  BY <1>1, <1>2

LEMMA AfterFields ==
  ASSUME NEW x \in Frames, NEW end, NEW why
  PROVE  /\ After(x, end, why).run = x.run /\ After(x, end, why).at = x.at
         /\ After(x, end, why).why = why /\ After(x, end, why).pc \in {"settle", "record"}
<1> DEFINE pc == IF HasEffect(x.run, x.at) THEN "settle" ELSE "record"
<1>1. x \in FrameType
  BY DEF Frames
<1>2. ASSUME NEW g, g = [x EXCEPT !.end = end, !.why = why, !.pc = pc]
      PROVE  g.run = x.run /\ g.at = x.at /\ g.why = why /\ g.pc = pc
  BY <1>1, <1>2 DEF FrameType
<1>3. pc \in {"settle", "record"}
  OBVIOUS
<1>4. After(x, end, why) = [x EXCEPT !.end = end, !.why = why, !.pc = pc]
  BY DEF After
<1> HIDE DEF pc
<1> QED
  BY <1>2, <1>3, <1>4

LEMMA DelegatedFields ==
  ASSUME NEW x \in Frames, NEW end
  PROVE  Delegated(x, end).run = x.run /\ Delegated(x, end).pc \in {"settle", "record"}
BY AfterFields DEF Delegated

\* What is left of the stack of a call that returns.
LEMMA ReturnedFrames ==
  ASSUME Threads, NEW t \in Thread, thread[t] # <<>>
  PROVE  /\ \A f \in FramesOf(thread[t]) :
              \/ f = Top(t) \/ f \in FramesOf(Returned(t))
              \/ f.pc = "nested" /\ \E g \in FramesOf(Returned(t)) :
                                      g.run = f.run /\ g.pc \in {"settle", "record"}
         /\ \A g \in FramesOf(Returned(t)) : g \in FramesOf(thread[t]) \/ CameBack(g)
<1> DEFINE u == Under(t)
<1>1. /\ u \in Unders /\ FramesOf(thread[t]) = {Top(t)} \cup FramesOf(u)
      /\ FramesOf(thread[t]) \subseteq Flying /\ Top(t) \in Frames
  BY Popped, Flights DEF Threads, Under
<1>2. CASE u # <<>> /\ Head(u).pc = "nested"
  <2> DEFINE h == Head(u)
             g0 == Delegated(h, Top(t).end)
  <2>1. h \in Frames /\ Tail(u) \in Unders /\ h.at # 0 /\ FramesOf(u) = {h} \cup FramesOf(Tail(u))
    BY <1>1, <1>2, UnderIsStack, StackFrames DEF Frames, OnStep, Shape
  <2>2. g0 \in Frames /\ g0.run = h.run /\ g0.pc \in {"settle", "record"}
    BY <2>1, DelegatedIsFrame, DelegatedFields
  <2>3. Returned(t) = <<g0>> \o Tail(u)
    BY <1>2 DEF Returned
  <2>4. CameBack(g0)
    <3>1. Top(t).end \in Lifecycle
      BY <1>1, FrameFields
    <3> QED
      BY <1>1, <1>2, <2>1, <3>1 DEF CameBack
  <2> HIDE DEF g0
  <2>5. FramesOf(Returned(t)) = {g0} \cup FramesOf(Tail(u))
    BY <2>1, <2>3, PushedFrames DEF Unders
  <2> QED
    BY <1>1, <1>2, <2>1, <2>2, <2>4, <2>5
<1>3. CASE ~(u # <<>> /\ Head(u).pc = "nested")
  <2>1. Returned(t) = u
    BY <1>3 DEF Returned
  <2> QED
    BY <1>1, <2>1
<1> QED
  BY <1>2, <1>3

LEMMA ReturnsFlies ==
  ASSUME Threads, NEW t \in Thread, thread[t] # <<>>, Returns(t)
  PROVE  Survive({Top(t)}) /\ \A g \in Flying' : g \in Flying \/ CameBack(g)
<1>1. thread' = [thread EXCEPT ![t] = Returned(t)]
  BY DEF Returns
<1>2. FramesOf(Returned(t)) \subseteq Flying' /\ Flying' \subseteq Flying \cup FramesOf(Returned(t))
      /\ \A f \in Flying : f \in FramesOf(thread[t]) \/ f \in Flying'
  BY <1>1, StackChanged
<1>3. FramesOf(thread[t]) \subseteq Flying
  BY Flights
<1> QED
  BY <1>2, <1>3, ReturnedFrames DEF Survive

LEMMA SpawnFlies ==
  ASSUME Threads, NEW f, Spawn(f)
  PROVE  f \in Flying' /\ Flying' \subseteq Flying \cup {f} /\ Survive({})
<1>1. New \in Thread /\ thread[New] = <<>> /\ thread' = [thread EXCEPT ![New] = <<f>>]
  BY DEF Spawn, New, Free
<1>2. FramesOf(<<f>>) = {f} /\ FramesOf(<<>>) = {}
  BY DEF FramesOf
<1> QED
  BY <1>1, <1>2, StackChanged DEF Survive

\* The two stacks that change when a resume is started for a call that is
\* waited for.
LEMMA ForkFlies ==
  ASSUME Threads, NEW t \in Thread, thread[t] # <<>>, Free # {}, NEW f,
         thread' = [thread EXCEPT ![t] = Returned(t), ![New] = <<f>>]
  PROVE  /\ f \in Flying' /\ Survive({Top(t)})
         /\ \A g \in Flying' : g \in Flying \/ g = f \/ CameBack(g)
<1>1. New \in Thread /\ New # t /\ thread[New] = <<>>
  BY DEF New, Free
<1>2. \A u \in Thread : thread'[u] = IF u = New THEN <<f>>
                                   ELSE IF u = t THEN Returned(t) ELSE thread[u]
  BY <1>1 DEF Threads
<1>3. Flying' = UNION {FramesOf(thread'[u]) : u \in Thread}
  BY DEF Flying, FramesOf
<1>4. FramesOf(<<f>>) = {f} /\ FramesOf(<<>>) = {}
  BY DEF FramesOf
<1>5. FramesOf(Returned(t)) \subseteq Flying' /\ f \in Flying'
  BY <1>1, <1>2, <1>3, <1>4
<1>6. \A u \in Thread \ {t} : FramesOf(thread[u]) \subseteq Flying'
  BY <1>1, <1>2, <1>3, <1>4
<1>7. \A g \in Flying' : g = f \/ g \in FramesOf(Returned(t)) \/ g \in Flying
  BY <1>1, <1>2, <1>3, <1>4 DEF Flying
<1>8. \A g \in Flying : g \in FramesOf(thread[t]) \/ g \in Flying'
  BY <1>6 DEF Flying
<1>9. FramesOf(thread[t]) \subseteq Flying
  BY Flights
<1> QED
  BY <1>5, <1>7, <1>8, <1>9, ReturnedFrames DEF Survive

\* The frames a call starts with.
LEMMA FirstFrames ==
  ASSUME NEW r, NEW i, NEW b
  PROVE  /\ RunOne(r, i, b).run = r /\ RunOne(r, i, b).at = i
         /\ RunOne(r, i, b).pc = "start" /\ RunOne(r, i, b).why = "none"
         /\ ResumeClaimed(r).run = r /\ ResumeClaimed(r).pc = "unrequest"
         /\ ResumeClaimed(r).why = "none"
         /\ Cancels(r).run = r /\ Cancels(r).pc = "close" /\ Cancels(r).why = "none"
<1>1. ASSUME NEW j, NEW c, NEW g, g = RunOne(r, j, c)
      PROVE  g = Frame(r, "start", j, "none", "none", c, FALSE)
  BY <1>1, Frame0IsBlank DEF RunOne, Frame, Blank
<1>2. RunOne(r, i, b) = Frame(r, "start", i, "none", "none", b, FALSE)
  BY <1>1, Zenon
<1>3. /\ ResumeClaimed(r).run = r /\ ResumeClaimed(r).pc = "unrequest"
      /\ ResumeClaimed(r).why = "none"
  <2> DEFINE x == RunOne(r, row[r].cursor, TRUE)
  <2>1. x = Frame(r, "start", row[r].cursor, "none", "none", TRUE, FALSE)
    BY <1>1, Zenon
  <2>2. ResumeClaimed(r) = [x EXCEPT !.pc = "unrequest"]
    BY DEF ResumeClaimed
  <2> HIDE DEF x
  <2> QED
    BY <2>1, <2>2 DEF Frame
<1>4. Cancels(r) = Frame(r, "close", row[r].cursor, row[r].status, "none", FALSE, TRUE)
  <2>1. Cancels(r) = [Frame0 EXCEPT !.run = r, !.pc = "close", !.at = row[r].cursor,
                                    !.end = row[r].status, !.op = TRUE]
    BY DEF Cancels
  <2> QED
    BY <2>1, Frame0IsBlank DEF Frame, Blank
<1> QED
  BY <1>2, <1>3, <1>4 DEF Frame

\* What is parked on a delegated run, or waits in one, has delegated it.
Sound(f) == f.why = "child" \/ f.pc = "nested" => Child[f.run] # 0
ChildrenKnown == /\ \A r \in Run : row[r].pause = "child" => Child[r] # 0
                 /\ \A f \in Flying : Sound(f)

LEMMA PcChanged ==
  ASSUME NEW x \in Frames, NEW pc
  PROVE  LET f == [x EXCEPT !.pc = pc]
         IN  /\ f.run = x.run /\ f.at = x.at /\ f.why = x.why /\ f.pc = pc
             /\ Sound(x) /\ pc # "nested" => Sound(f)
<1>1. ASSUME NEW f, f = [x EXCEPT !.pc = pc]
      PROVE  f.run = x.run /\ f.at = x.at /\ f.why = x.why /\ f.pc = pc
  BY <1>1 DEF Frames, FrameType
<1> QED
  BY <1>1 DEF Sound

LEMMA CameBackSound ==
  ASSUME Threads, ChildrenKnown, NEW g, CameBack(g)
  PROVE  Sound(g)
<1>1. PICK f \in Flying, end \in Lifecycle : f.pc = "nested" /\ g = Delegated(f, end)
  BY DEF CameBack
<1>2. f \in Frames /\ Child[f.run] # 0
  BY <1>1, Flights DEF ChildrenKnown, Sound
<1> QED
  BY <1>1, <1>2, DelegatedFields DEF Sound

\* What a step of a call does to the calls in flight: nobody else is gone, what
\* is new is sound, and a call that was to write its row, and did not push it,
\* is still to write it.
FlightKept(x) ==
  /\ Survive({x}) /\ \A g \in Flying' : Sound(g)
  /\ x.pc \in Onward \ {"push"} => \E g \in Flying' : g.run = x.run /\ g.pc \in Onward

LEMMA BecomeFollows ==
  ASSUME Threads, ChildrenKnown, NEW t \in Thread, thread[t] # <<>>, NEW f, Become(t, f),
         Sound(f), Top(t).pc \in Onward \ {"push"} => f.run = Top(t).run /\ f.pc \in Onward
  PROVE  FlightKept(Top(t))
BY BecomeFlies DEF FlightKept, ChildrenKnown

LEMMA GoFollows ==
  ASSUME Threads, ChildrenKnown, NEW t \in Thread, thread[t] # <<>>, NEW pc, Go(t, pc),
         pc # "nested", Top(t).pc \in Onward \ {"push"} => pc \in Onward
  PROVE  FlightKept(Top(t))
<1>1. Top(t) \in Frames /\ Sound(Top(t))
  BY Flights DEF ChildrenKnown
<1> DEFINE f == [Top(t) EXCEPT !.pc = pc]
<1>2. f.run = Top(t).run /\ f.pc = pc /\ Sound(f)
  BY <1>1, PcChanged
<1>3. Become(t, f)
  BY DEF Go
<1> HIDE DEF f
<1> QED
  BY <1>2, <1>3, BecomeFollows

LEMMA AfterFollows ==
  ASSUME Threads, ChildrenKnown, NEW t \in Thread, thread[t] # <<>>, NEW end, NEW why,
         why # "child", Become(t, After(Top(t), end, why))
  PROVE  FlightKept(Top(t))
<1>1. Top(t) \in Frames
  BY Flights
<1> DEFINE f == After(Top(t), end, why)
<1>2. f.run = Top(t).run /\ f.pc \in {"settle", "record"} /\ f.why = why
  BY <1>1, AfterFields
<1> HIDE DEF f
<1>3. Sound(f) /\ f.pc \in Onward
  BY <1>2 DEF Sound, Onward
<1> QED
  BY <1>2, <1>3, BecomeFollows DEF f

\* The wake-up of run p, or of nobody.
LEMMA WakeUpFollows ==
  ASSUME Threads, ChildrenKnown, NEW t \in Thread, thread[t] # <<>>, NEW pc, pc # "nested",
         Top(t).pc \notin Onward,
         \/ UNCHANGED row /\ Become(t, [Top(t) EXCEPT !.pc = pc])
         \/ \E p \in Run : WakeUp(t, p, [Top(t) EXCEPT !.pc = pc])
  PROVE  FlightKept(Top(t))
<1> DEFINE f == [Top(t) EXCEPT !.pc = pc]
<1>1. Sound(f)
  BY Flights, PcChanged DEF ChildrenKnown
<1>2. CASE Become(t, f)
  BY <1>1, <1>2, BecomeFollows
<1>3. CASE \E p \in Run : CallOut(t, f, ResumeClaimed(p))
  <2>1. PICK p \in Run : CallOut(t, f, ResumeClaimed(p))
    BY <1>3
  <2>2. Sound(ResumeClaimed(p))
    BY FirstFrames DEF Sound
  <2> HIDE DEF f
  <2> QED
    BY <1>1, <2>1, <2>2, CallOutFlies DEF FlightKept, ChildrenKnown
<1> QED
  BY <1>2, <1>3 DEF WakeUp

LEMMA FrameSound ==
  ASSUME NEW r, NEW pc, NEW i, NEW end, NEW why, NEW first, NEW op,
         why = "child" \/ pc = "nested" => Child[r] # 0
  PROVE  /\ Frame(r, pc, i, end, why, first, op).run = r
         /\ Frame(r, pc, i, end, why, first, op).pc = pc
         /\ Sound(Frame(r, pc, i, end, why, first, op))
BY DEF Frame, Sound

LEMMA ControlFollows ==
  ASSUME Threads, ChildrenKnown, NEW t \in Thread, Control(t)
  PROVE  FlightKept(Top(t))
<1> DEFINE x == Top(t)
           request == row[x.run].request
<1>1. thread[t] # <<>> /\ x \in Frames /\ Sound(x) /\ x.pc = "control"
  BY Flights DEF Control, Is, ChildrenKnown
<1>2. CASE request = "pause"
  <2>1. Become(t, [x EXCEPT !.pc = "clear", !.end = "waiting", !.why = "operator"])
    BY <1>2 DEF Control
  <2>2. [x EXCEPT !.pc = "clear", !.end = "waiting", !.why = "operator"]
        = Frame(x.run, "clear", x.at, "waiting", "operator", x.first, x.op)
    BY <1>1, FramePaused, Zenon
  <2> DEFINE f == Frame(x.run, "clear", x.at, "waiting", "operator", x.first, x.op)
  <2>3. Become(t, f)
    BY <2>1, <2>2, Zenon
  <2>4. f.run = x.run /\ f.pc = "clear" /\ Sound(f)
    BY FrameSound
  <2> HIDE DEF f
  <2> QED
    BY <1>1, <2>3, <2>4, BecomeFollows DEF Onward
<1>3. CASE request = "cancel"
  <2>1. Become(t, [x EXCEPT !.pc = "clear", !.end = "cancelled"])
    BY <1>3 DEF Control
  <2>2. [x EXCEPT !.pc = "clear", !.end = "cancelled"]
        = Frame(x.run, "clear", x.at, "cancelled", x.why, x.first, x.op)
    BY <1>1, FrameEnded, Zenon
  <2> DEFINE f == Frame(x.run, "clear", x.at, "cancelled", x.why, x.first, x.op)
  <2>3. Become(t, f)
    BY <2>1, <2>2, Zenon
  <2>4. f.run = x.run /\ f.pc = "clear" /\ Sound(f)
    BY <1>1, FrameSound DEF Sound
  <2> HIDE DEF f
  <2> QED
    BY <1>1, <2>3, <2>4, BecomeFollows DEF Onward
<1>4. CASE request \notin {"pause", "cancel"}
  <2> DEFINE pc == IF HasEffect(x.run, x.at) THEN "begin" ELSE "step"
  <2>1. Go(t, pc)
    BY <1>4 DEF Control, Go
  <2>2. pc \in {"begin", "step"}
    OBVIOUS
  <2> HIDE DEF pc
  <2> QED
    BY <1>1, <2>1, <2>2, GoFollows DEF Onward
<1> QED
  BY <1>2, <1>3, <1>4

LEMMA RecordFollows ==
  ASSUME Threads, ChildrenKnown, NEW t \in Thread, Record(t)
  PROVE  FlightKept(Top(t))
<1> DEFINE x == Top(t)
           next == IF x.end = "waiting" THEN x.at ELSE NextStep(x)
           end == IF x.end = "none" THEN "completed" ELSE x.end
<1>1. thread[t] # <<>> /\ x \in Frames /\ Sound(x) /\ x.pc = "record"
  BY Flights DEF Record, Is, ChildrenKnown
<1>2. \E f : /\ Become(t, f)
             /\ \/ f = Frame(x.run, "control", next, x.end, x.why, FALSE, x.op)
                \/ f = Frame(x.run, "trace", x.at, end, x.why, x.first, x.op)
  <2>1. CASE NextStep(x) # 0
    <3>1. Become(t, [x EXCEPT !.at = next, !.pc = "control", !.first = FALSE])
      BY <2>1 DEF Record
    <3> HIDE DEF next
    <3>2. [x EXCEPT !.at = next, !.pc = "control", !.first = FALSE]
          = Frame(x.run, "control", next, x.end, x.why, FALSE, x.op)
      BY <1>1, FrameAdvanced, Zenon
    <3> QED
      BY <3>1, <3>2, Zenon
  <2>2. CASE NextStep(x) = 0
    <3>1. Become(t, [x EXCEPT !.pc = "trace", !.end = end])
      BY <2>2 DEF Record
    <3> HIDE DEF end
    <3>2. [x EXCEPT !.pc = "trace", !.end = end]
          = Frame(x.run, "trace", x.at, end, x.why, x.first, x.op)
      BY <1>1, FrameEnded, Zenon
    <3> QED
      BY <3>1, <3>2, Zenon
  <2> QED
    BY <2>1, <2>2
<1>3. PICK f : /\ Become(t, f)
               /\ \/ f = Frame(x.run, "control", next, x.end, x.why, FALSE, x.op)
                  \/ f = Frame(x.run, "trace", x.at, end, x.why, x.first, x.op)
  BY <1>2
<1> HIDE DEF next, end
<1>4. f.run = x.run /\ f.pc \in {"control", "trace"} /\ Sound(f)
  <2>1. x.why = "child" => Child[x.run] # 0
    BY <1>1 DEF Sound
  <2>2. CASE f = Frame(x.run, "trace", x.at, end, x.why, x.first, x.op)
    BY <2>1, <2>2, FrameSound
  <2>3. CASE f = Frame(x.run, "control", next, x.end, x.why, FALSE, x.op)
    <3>1. ASSUME NEW first, f = Frame(x.run, "control", next, x.end, x.why, first, x.op)
          PROVE  f.run = x.run /\ f.pc = "control" /\ Sound(f)
      BY <2>1, <3>1, FrameSound
    <3> QED
      BY <2>3, <3>1, Zenon
  <2> QED
    BY <1>3, <2>2, <2>3
<1> QED
  BY <1>1, <1>3, <1>4, BecomeFollows DEF Onward

LEMMA CloseFollows ==
  ASSUME Threads, ChildrenKnown, NEW t \in Thread, Close(t)
  PROVE  FlightKept(Top(t))
<1> DEFINE x == Top(t)
<1>1. thread[t] # <<>> /\ x \in Frames /\ Sound(x) /\ x.pc = "close"
  BY Flights DEF Close, Is, ChildrenKnown
<1>2. CASE x.end = "waiting"
  <2>1. Become(t, [x EXCEPT !.pc = "trace", !.end = "cancelled"])
    BY <1>2 DEF Close
  <2>2. [x EXCEPT !.pc = "trace", !.end = "cancelled"]
        = Frame(x.run, "trace", x.at, "cancelled", x.why, x.first, x.op)
    BY <1>1, FrameEnded, Zenon
  <2> DEFINE f == Frame(x.run, "trace", x.at, "cancelled", x.why, x.first, x.op)
  <2>3. Become(t, f)
    BY <2>1, <2>2, Zenon
  <2>4. Sound(f)
    BY <1>1, FrameSound DEF Sound
  <2> HIDE DEF f
  <2> QED
    BY <1>1, <2>3, <2>4, BecomeFollows DEF Onward
<1>3. CASE x.end # "waiting"
  <2>1. Go(t, "request")
    BY <1>3 DEF Close, Go
  <2> QED
    BY <1>1, <2>1, GoFollows DEF Onward
<1> QED
  BY <1>2, <1>3

LEMMA DelegateFollows ==
  ASSUME Threads, ChildrenKnown, NEW t \in Thread, Delegate(t) \/ FindDelegate(t)
  PROVE  FlightKept(Top(t))
<1> DEFINE x == Top(t)
<1>1. /\ thread[t] # <<>> /\ x \in Frames /\ x.pc = "step" /\ x.run \in Run /\ x.at # 0
      /\ x.at \in DOMAIN Flow[x.run] /\ Kind(x.run, x.at) = "agent"
  BY Flights, FrameFields DEF Delegate, FindDelegate, AtStep, Is, OnStep
<1>2. Child[x.run] # 0
  BY <1>1, FlowAssumption DEF Kind
<1>3. CASE Delegate(t)
  <2> DEFINE f == [x EXCEPT !.pc = "nested"]
             g == RunOne(Child[x.run], 1, FALSE)
  <2>1. CallOut(t, f, g)
    BY <1>3 DEF Delegate
  <2>2. f.run = x.run /\ f.pc = "nested" /\ Sound(f)
    BY <1>1, <1>2, PcChanged DEF Sound
  <2>3. Sound(g)
    <3>1. ASSUME NEW b, NEW h, h = RunOne(Child[x.run], 1, b)
          PROVE  h.pc = "start" /\ h.why = "none"
      BY <3>1, FirstFrames
    <3>2. g.pc = "start" /\ g.why = "none"
      BY <3>1, Zenon
    <3> HIDE DEF g
    <3> QED
      BY <3>2 DEF Sound
  <2> HIDE DEF f, g
  <2>4. Flying' \subseteq Flying \cup {f, g} /\ Survive({x}) /\ f \in Flying'
    BY <1>1, <2>1, <2>2, CallOutFlies
  <2>5. f.pc \in Onward
    BY <2>2 DEF Onward
  <2> QED
    BY <2>2, <2>3, <2>4, <2>5 DEF FlightKept, ChildrenKnown
<1>4. CASE FindDelegate(t)
  <2> DEFINE f == Delegated(x, row[Child[x.run]].status)
  <2>1. Become(t, f)
    BY <1>4 DEF FindDelegate
  <2>2. f.run = x.run /\ f.pc \in {"settle", "record"}
    BY <1>1, DelegatedFields
  <2> HIDE DEF f
  <2> QED
    BY <1>1, <1>2, <2>1, <2>2, BecomeFollows DEF Onward, Sound
<1> QED
  BY <1>3, <1>4

LEMMA ReleasedFollows ==
  ASSUME Threads, ChildrenKnown, NEW t \in Thread, Released(t)
  PROVE  FlightKept(Top(t))
<1>1. thread[t] # <<>> /\ Top(t).pc = "step"
  BY DEF Released, AtStep, Is
<1>2. CASE IsReview(Here(t))
  BY <1>1, <1>2, GoFollows DEF Released, Onward
<1>3. CASE ~IsReview(Here(t))
  BY <1>1, <1>3, AfterFollows DEF Released, Ends
<1> QED
  BY <1>2, <1>3

LEMMA AttachedFollows ==
  ASSUME Threads, ChildrenKnown, NEW t \in Thread, Attached(t)
  PROVE  /\ FlightKept(Top(t))
         /\ Decided(Here(t)) => \E g \in Flying' : g.run = Top(t).run /\ g.pc \in Onward
<1> DEFINE x == Top(t)
           f == RunOne(x.run, x.at, TRUE)
<1>1. thread[t] # <<>> /\ x.pc = "attached" /\ x.pc \notin Onward
  BY DEF Attached, Is, Onward
<1>2. f.run = x.run /\ f.pc \in Onward /\ Sound(f)
  <2>1. ASSUME NEW b, NEW g, g = RunOne(x.run, x.at, b)
        PROVE  g.run = x.run /\ g.pc = "start" /\ g.why = "none"
    BY <2>1, FirstFrames
  <2>2. f.run = x.run /\ f.pc = "start" /\ f.why = "none"
    BY <2>1, Zenon
  <2> HIDE DEF f
  <2> QED
    BY <2>2 DEF Onward, Sound
<1>3. CASE ~Decided(Here(t))
  BY <1>1, <1>3, ReturnsFlies, CameBackSound DEF Attached, FlightKept, ChildrenKnown
<1>4. CASE Decided(Here(t)) /\ Under(t) = <<>>
  <2>1. Become(t, f)
    BY <1>4 DEF Attached
  <2> HIDE DEF f
  <2> QED
    BY <1>1, <1>2, <2>1, BecomeFlies, BecomeFollows
<1>5. CASE Decided(Here(t)) /\ Under(t) # <<>>
  <2>1. Free # {} /\ thread' = [thread EXCEPT ![t] = Returned(t), ![New] = <<f>>]
    BY <1>5 DEF Attached
  <2> HIDE DEF f
  <2> QED
    BY <1>1, <1>2, <2>1, ForkFlies, CameBackSound DEF FlightKept, ChildrenKnown
<1> QED
  BY <1>3, <1>4, <1>5

LEMMA MoveFollows ==
  ASSUME Threads, ChildrenKnown, NEW t \in Thread, Move(t)
  PROVE  FlightKept(Top(t))
<1> DEFINE x == Top(t)
<1>1. CASE Control(t) \/ Record(t) \/ Close(t) \/ Delegate(t) \/ FindDelegate(t)
           \/ Released(t) \/ Attached(t)
  BY <1>1, ControlFollows, RecordFollows, CloseFollows, DelegateFollows, ReleasedFollows,
     AttachedFollows
<1>2. CASE Unrequest(t) \/ Begins(t) \/ Begin(t) \/ Clear(t) \/ Settle(t) \/ Trace(t)
           \/ Write(t) \/ ResolveSeats(t) \/ Attach(t) \/ RequestCancel(t)
  <2>1. /\ thread[t] # <<>>
        /\ \/ \E pc \in {"start", "control", "step", "trace", "push", "record", "call", "seats"} :
                Go(t, pc)
           \/ x.pc \notin Onward /\ \E pc \in {"attached", "children"} : Go(t, pc)
    BY <1>2 DEF Unrequest, Begins, Begin, Clear, Settle, Trace, Write, ResolveSeats, Attach,
                RequestCancel, AtStep, Is, Onward
  <2>2. {"start", "control", "step", "trace", "push", "record", "call", "seats"}
          \subseteq Onward \ {"nested"}
    BY DEF Onward
  <2> QED
    BY <2>1, <2>2, GoFollows
<1>3. CASE Push(t)
  <2>1. /\ thread[t] # <<>> /\ x.pc = "push"
        /\ \E pc \in {"wake", "attach", "recheck", "return"} : Go(t, pc)
    BY <1>3 DEF Push, Is
  <2> QED
    BY <2>1, GoFollows
<1>4. CASE Model(t) \/ Wait(t) \/ Call(t) \/ AskGate(t) \/ AskReview(t) \/ StillOpen(t)
           \/ Refused(t) \/ Spent(t)
  <2>1. /\ thread[t] # <<>>
        /\ \/ \E end \in {"none", "error", "completed"} : Become(t, After(x, end, "none"))
           \/ \E why \in {"question", "wait"} : Become(t, After(x, "waiting", why))
    BY <1>4 DEF Model, Wait, Call, AskGate, AskReview, StillOpen, Refused, Spent, AtStep,
                Ends, Parks, Is
  <2> QED
    BY <2>1, AfterFollows
<1>5. CASE Wake(t) \/ Recheck(t)
  <2>1. thread[t] # <<>> /\ x.pc \notin Onward /\ x \in Frames /\ x.run \in Run
    BY <1>5, Flights, FrameFields DEF Wake, Recheck, Is, Onward
  <2>2. \E pc \in {"children", "return"} :
          \/ UNCHANGED row /\ Become(t, [x EXCEPT !.pc = pc])
          \/ \E p \in Run : WakeUp(t, p, [x EXCEPT !.pc = pc])
    BY <1>5, <2>1 DEF Wake, Recheck, Parents
  <2>3. PICK pc \in {"children", "return"} :
          \/ UNCHANGED row /\ Become(t, [x EXCEPT !.pc = pc])
          \/ \E p \in Run : WakeUp(t, p, [x EXCEPT !.pc = pc])
    BY <2>2
  <2> QED
    BY <2>1, <2>3, WakeUpFollows
<1>6. CASE Return(t) \/ RequestPause(t) \/ CancelChildren(t)
  <2>1. thread[t] # <<>> /\ x.pc \notin Onward
    BY <1>6 DEF Return, RequestPause, CancelChildren, Is, Onward
  <2>2. CASE Returns(t)
    BY <2>1, <2>2, ReturnsFlies, CameBackSound DEF FlightKept, ChildrenKnown
  <2>3. CASE ~Returns(t)
    <3> DEFINE c == Child[x.run]
    <3>1. Become(t, Cancels(c))
      BY <1>6, <2>3 DEF Return, RequestPause, CancelChildren
    <3>2. Sound(Cancels(c))
      BY FirstFrames DEF Sound
    <3> QED
      BY <2>1, <3>1, <3>2, BecomeFollows
  <2> QED
    BY <2>2, <2>3
<1> QED
  BY <1>1, <1>2, <1>3, <1>4, <1>5, <1>6 DEF Move

LEMMA OutsideFollows ==
  ASSUME Threads, ChildrenKnown, Outside, ~Crash, ~Recover
  PROVE  Survive({}) /\ \A g \in Flying' : Sound(g)
<1>1. ASSUME NEW f, Spawn(f), f.why = "none", f.pc # "nested"
      PROVE  Survive({}) /\ \A g \in Flying' : Sound(g)
  BY <1>1, SpawnFlies DEF ChildrenKnown, Sound
<1>2. ASSUME UNCHANGED thread PROVE Survive({}) /\ \A g \in Flying' : Sound(g)
  <2>1. Flying' = Flying
    BY <1>2 DEF Flying, FramesOf
  <2> QED
    BY <2>1 DEF Survive, ChildrenKnown
<1>3. ASSUME NEW r, NEW i, NEW b, NEW f, f = RunOne(r, i, b)
      PROVE  f.why = "none" /\ f.pc # "nested"
  BY <1>3, FirstFrames
<1>4. ASSUME NEW r \in Run, Start(r)
      PROVE  Survive({}) /\ \A g \in Flying' : Sound(g)
  <2>1. Spawn(RunOne(r, 1, FALSE))
    BY <1>4 DEF Start
  <2>2. \E f : Spawn(f) /\ f.why = "none" /\ f.pc # "nested"
    BY <1>3, <2>1, Zenon
  <2> QED
    BY <1>1, <2>2
<1>5. ASSUME NEW r \in Run, Pause(r)
      PROVE  Survive({}) /\ \A g \in Flying' : Sound(g)
  <2> DEFINE f == [Frame0 EXCEPT !.run = r, !.pc = "pausing", !.op = TRUE]
  <2>1. ASSUME NEW g, g = f PROVE g.why = "none" /\ g.pc # "nested"
    BY <2>1, Frame0IsBlank DEF Blank
  <2>2. Spawn(f) /\ f.why = "none" /\ f.pc # "nested"
    BY <1>5, <2>1, Zenon DEF Pause
  <2> HIDE DEF f
  <2> QED
    BY <1>1, <2>2
<1>6. ASSUME NEW r \in Run, Resume(r) \/ Cancel(r)
      PROVE  Survive({}) /\ \A g \in Flying' : Sound(g)
  <2>1. ResumeClaimed(r).why = "none" /\ ResumeClaimed(r).pc # "nested"
    BY FirstFrames
  <2>2. Cancels(r).why = "none" /\ Cancels(r).pc # "nested"
    BY FirstFrames
  <2> QED
    BY <1>1, <1>6, <2>1, <2>2 DEF Resume, Cancel
<1>7. ASSUME NEW q \in Question, Resumes(q) \/ UNCHANGED thread
      PROVE  Survive({}) /\ \A g \in Flying' : Sound(g)
  <2>1. CASE UNCHANGED thread
    BY <1>2, <2>1
  <2>2. CASE Spawn(RunOne(q[1], q[2], TRUE))
    <3>1. \E f : Spawn(f) /\ f.why = "none" /\ f.pc # "nested"
      BY <1>3, <2>2, Zenon
    <3> QED
      BY <1>1, <3>1
  <2> QED
    BY <1>7, <2>1, <2>2 DEF Resumes
<1>8. ASSUME NEW q \in Question, NEW outcome \in {"yes", "no"}, Answer(q, outcome)
      PROVE  Resumes(q) \/ UNCHANGED thread
  BY <1>8 DEF Answer
<1>9. ASSUME NEW q \in Question, Sweep(q) \/ SweepResumes(q)
      PROVE  Resumes(q) \/ UNCHANGED thread
  BY <1>9 DEF Sweep, SweepResumes
<1> QED
  BY <1>4, <1>5, <1>6, <1>7, <1>8, <1>9 DEF Outside

\* Whoever is there for a run, and for a question.
Has(r, pcs)   == \E f \in Flying : f.run = r /\ f.pc \in pcs
HasAt(q, pcs) == \E f \in Flying : f.run = q[1] /\ f.at = q[2] /\ f.pc \in pcs

LEMMA HasKept ==
  ASSUME NEW X, Survive(X), NEW r, NEW pcs, \A x \in X : x.run # r \/ x.pc \notin pcs,
         {"settle", "record"} \subseteq pcs \/ "nested" \notin pcs, Has(r, pcs)
  PROVE  Has(r, pcs)'
<1>1. PICK f \in Flying : f.run = r /\ f.pc \in pcs
  BY DEF Has
<1>2. \E g \in Flying' : g.run = r /\ g.pc \in pcs
  BY <1>1 DEF Survive
<1> QED
  BY <1>2 DEF Has

LEMMA HasAtKept ==
  ASSUME NEW X, Survive(X), NEW r, NEW i, NEW p, p # "nested",
         \A x \in X : x.run # r \/ x.pc # p, HasAt(<<r, i>>, {p})
  PROVE  HasAt(<<r, i>>, {p})'
<1>1. PICK f \in Flying : f.run = r /\ f.at = i /\ f.pc = p
  BY DEF HasAt
<1>2. f \in Flying'
  BY <1>1 DEF Survive
<1> QED
  BY <1>1, <1>2 DEF HasAt

LEMMA HasAtKeptButOne ==
  ASSUME NEW x, Survive({x}), NEW r, NEW i, NEW p, p # "nested",
         x.run # r \/ x.pc # p, HasAt(<<r, i>>, {p})
  PROVE  HasAt(<<r, i>>, {p})'
<1>1. PICK f \in Flying : f.run = r /\ f.at = i /\ f.pc = p
  BY DEF HasAt
<1>2. f # x /\ f.pc # "nested"
  BY <1>1
<1>3. f \in Flying'
  BY <1>2 DEF Survive
<1> QED
  BY <1>1, <1>3 DEF HasAt

\* Whom a run is parked on, and who tells it.
Parked(r, why) == row[r].status = "waiting" /\ row[r].pause = why
AsksAt(q) == Parked(q[1], "question") /\ row[q[1]].cursor = q[2]
Heard(r) ==
  Parked(r, "child") /\ row[Child[r]].status \in Terminal
  => Has(r, Onward) \/ Has(r, {"recheck"}) \/ Has(Child[r], {"wake"})
WillAttach(q) ==
  AsksAt(q) /\ question[q].status \in {"pending", "answered", "timed_out"}
  => question[q].resume \/ Has(q[1], Onward) \/ HasAt(q, {"attach"})
Noticed(q) ==
  AsksAt(q) /\ question[q].status \in {"answered", "timed_out"}
  => q \in sweeping \/ Has(q[1], Onward) \/ HasAt(q, {"attach"}) \/ HasAt(q, {"attached"})
Awake == /\ boot = {} /\ \A p, q \in sweeping : p = q
         /\ ChildrenKnown
         /\ \A r \in Run : Heard(r)
         /\ \A q \in Question : WillAttach(q) /\ Noticed(q)

\* The steps that nobody parked depends on: the calls of X that they end are
\* none that would tell, a row is as it was but for what it was asked, or runs
\* on, and a question is as it was or cancelled.
Minded == Onward \cup {"recheck", "wake", "attach", "attached"}
SameOrRuns(r) ==
  \/ row'[r].status = "running"
  \/ /\ row'[r].status = row[r].status /\ row'[r].pause = row[r].pause
     /\ row'[r].cursor = row[r].cursor
LEMMA CalmKeeps ==
  ASSUME Awake, NEW X, Survive(X), \A x \in X : x.pc \notin Minded,
         \A g \in Flying' : Sound(g),
         \A r \in Run : SameOrRuns(r) /\ row'[r].pause \in {row[r].pause, "none"},
         \A q \in Question : question'[q] = question[q] \/ question'[q].status = "cancelled",
         UNCHANGED <<sweeping, boot>>
  PROVE  Awake'
<1>1. ChildrenKnown'
  <2>1. \A r \in Run : row'[r].pause = "child" => Child[r] # 0
    BY DEF Awake, ChildrenKnown
  <2> QED
    BY <2>1 DEF ChildrenKnown, Sound
<1>2. ASSUME NEW r
      PROVE  /\ Has(r, Onward) => Has(r, Onward)'
             /\ Has(r, {"recheck"}) => Has(r, {"recheck"})'
             /\ Has(r, {"wake"}) => Has(r, {"wake"})'
             /\ \A i : /\ HasAt(<<r, i>>, {"attach"}) => HasAt(<<r, i>>, {"attach"})'
                       /\ HasAt(<<r, i>>, {"attached"}) => HasAt(<<r, i>>, {"attached"})'
  <2>1. \A x \in X : x.pc \notin Onward /\ x.pc \notin {"recheck"} /\ x.pc \notin {"wake"}
                     /\ x.pc \notin {"attach", "attached"}
    BY DEF Minded
  <2>2. {"settle", "record"} \subseteq Onward
    BY DEF Onward
  <2>3. Has(r, Onward) => Has(r, Onward)'
    BY <2>1, <2>2, HasKept
  <2>4. /\ Has(r, {"recheck"}) => Has(r, {"recheck"})'
        /\ Has(r, {"wake"}) => Has(r, {"wake"})'
    BY <2>1, HasKept
  <2>5. \A i : \A p \in {"attach", "attached"} : HasAt(<<r, i>>, {p}) => HasAt(<<r, i>>, {p})'
    <3>1. ASSUME NEW i, NEW p \in {"attach", "attached"}, HasAt(<<r, i>>, {p})
          PROVE  HasAt(<<r, i>>, {p})'
      BY <2>1, <3>1, HasAtKept
    <3> QED
      BY <3>1
  <2> QED
    BY <2>3, <2>4, <2>5
<1>3. ASSUME NEW r \in Run PROVE Heard(r)'
  <2>1. CASE ~Parked(r, "child")'
    BY <2>1 DEF Heard
  <2>2. CASE Parked(r, "child")'
    <3>1. Parked(r, "child")
      BY <2>2 DEF Parked, SameOrRuns
    <3>2. Child[r] \in Run
      BY <3>1, FlowAssumption DEF Parked, Awake, ChildrenKnown
    <3>3. row'[Child[r]].status \in Terminal => row[Child[r]].status \in Terminal
      BY <3>2 DEF SameOrRuns, Terminal
    <3> QED
      BY <1>2, <3>1, <3>3 DEF Heard, Awake
  <2> QED
    BY <2>1, <2>2
<1>4. ASSUME NEW q \in Question PROVE WillAttach(q)' /\ Noticed(q)'
  <2>1. q = <<q[1], q[2]>> /\ q[1] \in Run
    BY DEF Question, At
  <2>2. CASE question'[q].status = "cancelled" \/ ~AsksAt(q)'
    BY <2>2 DEF WillAttach, Noticed
  <2>3. CASE question'[q] = question[q] /\ AsksAt(q)'
    <3>1. AsksAt(q)
      BY <2>1, <2>3 DEF AsksAt, Parked, SameOrRuns
    <3>2. /\ HasAt(q, {"attach"}) => HasAt(q, {"attach"})'
          /\ HasAt(q, {"attached"}) => HasAt(q, {"attached"})'
      BY <1>2, <2>1
    <3> QED
      BY <1>2, <2>3, <3>1, <3>2 DEF WillAttach, Noticed, Awake
  <2> QED
    BY <2>2, <2>3
<1> QED
  BY <1>1, <1>3, <1>4 DEF Awake

LEMMA Written ==
  ASSUME NEW r \in Run, NEW w \in Rows(r)
  PROVE  /\ StartRun(w).status = "running" /\ StartRun(w).pause = "none"
         /\ \A i : /\ SetAttempt(w, i).status = w.status /\ SetAttempt(w, i).pause = w.pause
                   /\ SetAttempt(w, i).cursor = w.cursor
         /\ \A request : /\ Request(w, request).status = w.status
                         /\ Request(w, request).pause = w.pause
                         /\ Request(w, request).cursor = w.cursor
         /\ \A i, why : /\ Checkpoint(w, i, why).status \in {"running", "waiting"}
                        /\ Checkpoint(w, i, why).pause = why
         /\ \A status, i, why : /\ AppendRun(w, status, i, why).status = status
                                /\ AppendRun(w, status, i, why).pause = why
                                /\ AppendRun(w, status, i, why).cursor = i
         /\ Claimed(w).status = "running" /\ Claimed(w).pause = w.pause
<1>1. w \in RowType(Step)
  BY DEF Rows
<1>2. /\ StartRun(w).status = "running" /\ StartRun(w).pause = "none"
      /\ Claimed(w).status = "running" /\ Claimed(w).pause = w.pause
  BY <1>1 DEF RowType, StartRun, Claimed
<1>3. ASSUME NEW i
      PROVE  /\ SetAttempt(w, i).status = w.status /\ SetAttempt(w, i).pause = w.pause
             /\ SetAttempt(w, i).cursor = w.cursor
  BY <1>1 DEF RowType, SetAttempt
<1>4. ASSUME NEW request
      PROVE  /\ Request(w, request).status = w.status /\ Request(w, request).pause = w.pause
             /\ Request(w, request).cursor = w.cursor
  BY <1>1 DEF RowType, Request
<1>5. ASSUME NEW i, NEW why
      PROVE  /\ Checkpoint(w, i, why).status \in {"running", "waiting"}
             /\ Checkpoint(w, i, why).pause = why
  <2> DEFINE status == IF why = "none" THEN "running" ELSE "waiting"
  <2>1. Checkpoint(w, i, why) = [w EXCEPT !.status = status, !.cursor = i,
                                         !.pause = why, !.attempt = 0]
    BY DEF Checkpoint
  <2>2. status \in {"running", "waiting"}
    OBVIOUS
  <2> HIDE DEF status
  <2> QED
    BY <1>1, <2>1, <2>2 DEF RowType
<1>6. ASSUME NEW status, NEW i, NEW why
      PROVE  /\ AppendRun(w, status, i, why).status = status
             /\ AppendRun(w, status, i, why).pause = why
             /\ AppendRun(w, status, i, why).cursor = i
  BY <1>1 DEF RowType, AppendRun
<1> QED
  BY <1>2, <1>3, <1>4, <1>5, <1>6

LEMMA RowSet ==
  ASSUME RowsOK, NEW r \in Run, NEW w, SetRow(r, w)
  PROVE  row'[r] = w /\ \A s \in Run \ {r} : row'[s] = row[s]
BY DEF RowsOK, SetRow

\* A step of a call that will still write its row settles its own run and its
\* own questions, and touches no other.
LEMMA OnwardKeeps ==
  ASSUME Awake, NEW x, x.run \in Run, FlightKept(x), x.pc \in Onward \ {"push"},
         \A r \in Run \ {x.run} : row'[r] = row[r],
         row'[x.run].status \in Terminal => row[x.run].status \in Terminal,
         row'[x.run].pause = "child" => Child[x.run] # 0,
         \A q \in Question : q[1] # x.run => question'[q] = question[q],
         UNCHANGED <<sweeping, boot>>
  PROVE  Awake'
<1>1. ChildrenKnown'
  <2>1. \A r \in Run : row'[r].pause = "child" => Child[r] # 0
    BY DEF Awake, ChildrenKnown
  <2> QED
    BY <2>1 DEF ChildrenKnown, Sound, FlightKept
<1>2. Has(x.run, Onward)'
  BY DEF FlightKept, Has
<1>3. /\ x.pc \in Onward /\ x.pc \notin {"recheck", "wake", "attach", "attached"}
      /\ Survive({x}) /\ {"settle", "record"} \subseteq Onward
  BY DEF Onward, FlightKept
<1>4. ASSUME NEW r
      PROVE  /\ Has(r, Onward) => Has(r, Onward)'
             /\ Has(r, {"recheck"}) => Has(r, {"recheck"})'
             /\ Has(r, {"wake"}) => Has(r, {"wake"})'
             /\ \A i : /\ HasAt(<<r, i>>, {"attach"}) => HasAt(<<r, i>>, {"attach"})'
                       /\ HasAt(<<r, i>>, {"attached"}) => HasAt(<<r, i>>, {"attached"})'
  <2>1. CASE r # x.run
    <3>1. Has(r, Onward) => Has(r, Onward)'
      BY <1>3, <2>1, HasKept
    <3>2. /\ Has(r, {"recheck"}) => Has(r, {"recheck"})'
          /\ Has(r, {"wake"}) => Has(r, {"wake"})'
      BY <1>3, HasKept
    <3>3. \A i : \A p \in {"attach", "attached"} : HasAt(<<r, i>>, {p}) => HasAt(<<r, i>>, {p})'
      <4>1. ASSUME NEW i, NEW p \in {"attach", "attached"}, HasAt(<<r, i>>, {p})
            PROVE  HasAt(<<r, i>>, {p})'
        BY <1>3, <2>1, <4>1, HasAtKeptButOne
      <4> QED
        BY <4>1
    <3> QED
      BY <3>1, <3>2, <3>3
  <2>2. CASE r = x.run
    <3>2. /\ Has(r, {"recheck"}) => Has(r, {"recheck"})'
          /\ Has(r, {"wake"}) => Has(r, {"wake"})'
      BY <1>3, HasKept
    <3>3. \A i : \A p \in {"attach", "attached"} : HasAt(<<r, i>>, {p}) => HasAt(<<r, i>>, {p})'
      <4>1. ASSUME NEW i, NEW p \in {"attach", "attached"}, HasAt(<<r, i>>, {p})
            PROVE  HasAt(<<r, i>>, {p})'
        <5>1. p # "nested" /\ x.pc # p
          BY <1>3
        <5> QED
          BY <1>3, <4>1, <5>1, HasAtKeptButOne
      <4> QED
        BY <4>1
    <3> QED
      BY <1>2, <2>2, <3>2, <3>3
  <2> QED
    BY <2>1, <2>2
<1>5. ASSUME NEW r \in Run PROVE Heard(r)'
  <2>1. CASE r = x.run \/ ~Parked(r, "child")'
    BY <1>2, <2>1 DEF Heard
  <2>2. CASE r # x.run /\ Parked(r, "child")'
    <3>1. Parked(r, "child")
      BY <2>2 DEF Parked
    <3>2. Child[r] \in Run
      BY <3>1, FlowAssumption DEF Parked, Awake, ChildrenKnown
    <3>3. row'[Child[r]].status \in Terminal => row[Child[r]].status \in Terminal
      BY <3>2
    <3> QED
      BY <1>4, <3>1, <3>3 DEF Heard, Awake
  <2> QED
    BY <2>1, <2>2
<1>6. ASSUME NEW q \in Question PROVE WillAttach(q)' /\ Noticed(q)'
  <2>1. q = <<q[1], q[2]>> /\ q[1] \in Run
    BY DEF Question, At
  <2>2. CASE q[1] = x.run \/ ~AsksAt(q)'
    BY <1>2, <2>2 DEF WillAttach, Noticed
  <2>3. CASE q[1] # x.run /\ AsksAt(q)'
    <3>1. AsksAt(q) /\ question'[q] = question[q]
      BY <2>1, <2>3 DEF AsksAt, Parked
    <3>2. /\ HasAt(q, {"attach"}) => HasAt(q, {"attach"})'
          /\ HasAt(q, {"attached"}) => HasAt(q, {"attached"})'
      BY <1>4, <2>1
    <3> QED
      BY <1>4, <3>1, <3>2 DEF WillAttach, Noticed, Awake
  <2> QED
    BY <2>2, <2>3
<1> QED
  BY <1>1, <1>5, <1>6 DEF Awake

OnwardMove(t) ==
  \/ Unrequest(t) \/ Begins(t) \/ Control(t) \/ Clear(t) \/ Begin(t)
  \/ Model(t) \/ Wait(t) \/ Write(t) \/ Call(t)
  \/ AskGate(t) \/ ResolveSeats(t) \/ AskReview(t) \/ StillOpen(t)
  \/ Released(t) \/ Refused(t) \/ Spent(t)
  \/ Delegate(t) \/ FindDelegate(t)
  \/ Settle(t) \/ Record(t) \/ Trace(t)

LEMMA OnwardMoves ==
  ASSUME Types, Threads, Awake, NEW t \in Thread, OnwardMove(t)
  PROVE  Awake'
<1> DEFINE x == Top(t)
<1>1. Move(t) /\ FlightKept(x)
  <2>1. Move(t)
    BY DEF OnwardMove, Move
  <2> QED
    BY <2>1, MoveFollows DEF Awake
<1>2. /\ thread[t] # <<>>
      /\ x.pc \in {"unrequest", "start", "control", "clear", "begin", "step", "call", "seats",
                  "settle", "record", "trace"}
      /\ UNCHANGED <<sweeping, boot>>
  BY DEF OnwardMove, Unrequest, Begins, Control, Clear, Begin, Model, Wait, Write, Call, AskGate,
         ResolveSeats, AskReview, StillOpen, Released, Refused, Spent, Delegate, FindDelegate,
         Settle, Record, Trace, AtStep, Is, faults
<1>3. x.pc \in Onward \ {"push"}
  BY <1>2 DEF Onward
<1>4. x \in Frames /\ x.run \in Run /\ Sound(x) /\ RowsOK /\ row[x.run] \in Rows(x.run)
  BY <1>2, Flights, FrameFields DEF Awake, ChildrenKnown, Types, RowsOK
<1>5. \A q \in Question : q[1] # x.run => question'[q] = question[q]
  <2>1. UNCHANGED question \/ \E v : SetQuestion(Here(t), v)
    BY DEF OnwardMove, Unrequest, Begins, Control, Clear, Begin, Model, Wait, Write, Call, AskGate,
         ResolveSeats, AskReview, StillOpen, Released, Refused, Spent, Spend, Delegate, FindDelegate,
         Settle, Record, Trace
  <2>2. Here(t)[1] = x.run
    BY DEF Here
  <2> QED
    BY <2>1, <2>2 DEF SetQuestion, Types, QuestionsOK
<1>6. /\ \A r \in Run \ {x.run} : row'[r] = row[r]
      /\ row'[x.run].status \in Terminal => row[x.run].status \in Terminal
      /\ row'[x.run].pause = "child" => Child[x.run] # 0
  <2>0. row[x.run].pause = "child" => Child[x.run] # 0
    BY <1>4 DEF Awake, ChildrenKnown
  <2>1. CASE UNCHANGED row
    BY <2>0, <2>1
  <2>2. CASE Begins(t)
    BY <1>4, <2>2, RowSet, Written DEF Begins, Terminal
  <2>3. CASE Unrequest(t) \/ Clear(t) \/ Begin(t) \/ Settle(t)
    <3>1. \/ \E i : SetRow(x.run, SetAttempt(row[x.run], i))
          \/ \E request : SetRow(x.run, Request(row[x.run], request))
      BY <2>3 DEF Unrequest, Clear, Begin, Settle
    <3> QED
      BY <1>4, <2>0, <3>1, RowSet, Written
  <2>4. CASE Record(t)
    <3>1. \E i : SetRow(x.run, Checkpoint(row[x.run], i, x.why))
      BY <2>4 DEF Record
    <3>2. PICK i : SetRow(x.run, Checkpoint(row[x.run], i, x.why))
      BY <3>1
    <3>3. /\ row'[x.run] = Checkpoint(row[x.run], i, x.why)
          /\ \A r \in Run \ {x.run} : row'[r] = row[r]
      BY <1>4, <3>2, RowSet
    <3>4. row'[x.run].status \in {"running", "waiting"} /\ row'[x.run].pause = x.why
      BY <1>4, <3>3, Written
    <3> QED
      BY <1>4, <3>3, <3>4 DEF Sound, Terminal
  <2> QED
    BY <2>1, <2>2, <2>3, <2>4 DEF OnwardMove, Control, Model, Wait, Write, Call, AskGate,
         ResolveSeats, AskReview, StillOpen, Released, Refused, Spent, Delegate, FindDelegate, Trace
<1> HIDE DEF x
<1> QED
  BY <1>1, <1>2, <1>3, <1>4, <1>5, <1>6, OnwardKeeps

\* A call that pushes the end of its stretch tells whoever depends on it next.
LEMMA PushKeeps ==
  ASSUME Types, Threads, Awake, NEW t \in Thread, Push(t)
  PROVE  Awake'
<1> DEFINE x == Top(t)
           cursor == IF x.end = "waiting" THEN x.at ELSE 0
           pc == IF x.end \in Terminal THEN "wake"
                 ELSE CASE x.why = "question" -> "attach"
                        [] x.why = "child"    -> "recheck"
                        [] OTHER              -> "return"
           g == [x EXCEPT !.pc = pc]
<1>1. /\ thread[t] # <<>> /\ x.pc = "push" /\ UNCHANGED <<question, sweeping, boot>>
      /\ SetRow(x.run, AppendRun(row[x.run], x.end, cursor, x.why)) /\ Become(t, g)
  BY DEF Push, Is, Go, faults
<1>2. /\ x \in Frames /\ x.run \in Run /\ Sound(x) /\ RowsOK /\ row[x.run] \in Rows(x.run)
      /\ x.end \in Terminal \cup {"waiting"}
  <2>1. x \in Frames /\ Sound(x) /\ RowsOK
    BY <1>1, Flights DEF Awake, ChildrenKnown, Types
  <2>2. x.run \in Run /\ Shape(x.pc, x.at, x.end, x.why)
    BY <2>1, FrameFields
  <2> QED
    BY <1>1, <2>1, <2>2 DEF RowsOK, Shape
<1>3. /\ row'[x.run].status = x.end /\ row'[x.run].pause = x.why
      /\ x.end = "waiting" => row'[x.run].cursor = x.at
      /\ \A r \in Run \ {x.run} : row'[r] = row[r]
  <2> HIDE DEF g, pc
  <2>1. /\ row'[x.run] = AppendRun(row[x.run], x.end, cursor, x.why)
        /\ \A r \in Run \ {x.run} : row'[r] = row[r]
    BY <1>1, <1>2, RowSet
  <2>2. x.end = "waiting" => cursor = x.at
    OBVIOUS
  <2> HIDE DEF cursor
  <2> QED
    BY <1>2, <2>1, <2>2, Written
<1>4. Survive({x}) /\ (\A f \in Flying' : Sound(f)) /\ g \in Flying'
  <2>1. FlightKept(x)
    BY MoveFollows DEF Awake, Move
  <2>2. g \in Flying'
    <3> HIDE DEF g
    <3> QED
      BY <1>1, BecomeFlies
  <2> QED
    BY <2>1, <2>2 DEF FlightKept
<1>5. g.run = x.run /\ g.at = x.at /\ g.pc = pc
  <2> HIDE DEF pc
  <2> QED
    BY <1>2, PcChanged
<1>6. /\ x.end \in Terminal => pc = "wake"
      /\ x.end = "waiting" /\ x.why = "question" => pc = "attach"
      /\ x.end = "waiting" /\ x.why = "child" => pc = "recheck"
  BY DEF Terminal
<1> HIDE DEF g, pc, cursor
<1>7. ChildrenKnown'
  <2>1. \A r \in Run : row'[r].pause = "child" => Child[r] # 0
    BY <1>2, <1>3 DEF Awake, ChildrenKnown, Sound
  <2> QED
    BY <1>4, <2>1 DEF ChildrenKnown, Sound
<1>8. ASSUME NEW r, r # x.run
      PROVE  /\ Has(r, Onward) => Has(r, Onward)'
             /\ Has(r, {"recheck"}) => Has(r, {"recheck"})'
             /\ Has(r, {"wake"}) => Has(r, {"wake"})'
             /\ \A i : /\ HasAt(<<r, i>>, {"attach"}) => HasAt(<<r, i>>, {"attach"})'
                       /\ HasAt(<<r, i>>, {"attached"}) => HasAt(<<r, i>>, {"attached"})'
  <2>1. {"settle", "record"} \subseteq Onward
    BY DEF Onward
  <2>2. Has(r, Onward) => Has(r, Onward)'
    BY <1>4, <1>8, <2>1, HasKept
  <2>3. /\ Has(r, {"recheck"}) => Has(r, {"recheck"})'
        /\ Has(r, {"wake"}) => Has(r, {"wake"})'
    BY <1>4, <1>8, HasKept
  <2>4. \A i : \A p \in {"attach", "attached"} : HasAt(<<r, i>>, {p}) => HasAt(<<r, i>>, {p})'
    <3>1. ASSUME NEW i, NEW p \in {"attach", "attached"}, HasAt(<<r, i>>, {p})
          PROVE  HasAt(<<r, i>>, {p})'
      BY <1>4, <1>8, <3>1, HasAtKeptButOne
    <3> QED
      BY <3>1
  <2> QED
    BY <2>2, <2>3, <2>4
<1>9. ASSUME NEW r \in Run PROVE Heard(r)'
  <2>1. CASE ~(Parked(r, "child")' /\ row'[Child[r]].status \in Terminal)
    BY <2>1 DEF Heard
  <2>2. CASE r = x.run /\ Parked(r, "child")'
    <3>1. g.pc = "recheck"
      BY <1>2, <1>3, <1>5, <1>6, <2>2 DEF Parked, Terminal
    <3>2. Has(r, {"recheck"})'
      BY <1>4, <1>5, <2>2, <3>1 DEF Has
    <3> QED
      BY <3>2 DEF Heard
  <2>3. CASE Child[r] = x.run /\ row'[x.run].status \in Terminal
    <3>1. g.pc = "wake"
      BY <1>3, <1>5, <1>6, <2>3
    <3>2. Has(Child[r], {"wake"})'
      BY <1>4, <1>5, <2>3, <3>1 DEF Has
    <3> QED
      BY <3>2 DEF Heard
  <2>4. CASE /\ Parked(r, "child")' /\ row'[Child[r]].status \in Terminal
             /\ r # x.run /\ Child[r] # x.run
    <3>1. Parked(r, "child")
      BY <1>3, <2>4 DEF Parked
    <3>2. Child[r] \in Run
      BY <3>1, FlowAssumption DEF Parked, Awake, ChildrenKnown
    <3>3. row[Child[r]].status \in Terminal
      BY <1>3, <2>4, <3>2
    <3>4. Has(r, Onward) \/ Has(r, {"recheck"}) \/ Has(Child[r], {"wake"})
      BY <3>1, <3>3 DEF Heard, Awake
    <3>5. (Has(r, Onward) \/ Has(r, {"recheck"}) \/ Has(Child[r], {"wake"}))'
      BY <1>8, <2>4, <3>4
    <3> QED
      BY <3>5 DEF Heard
  <2> QED
    BY <2>1, <2>2, <2>3, <2>4
<1>10. ASSUME NEW q \in Question PROVE WillAttach(q)' /\ Noticed(q)'
  <2>1. q = <<q[1], q[2]>> /\ q[1] \in Run
    BY DEF Question, At
  <2>2. CASE ~AsksAt(q)'
    BY <2>2 DEF WillAttach, Noticed
  <2>3. CASE q[1] = x.run /\ AsksAt(q)'
    <3>1. x.end = "waiting" /\ x.why = "question" /\ x.at = q[2]
      BY <1>3, <2>3 DEF AsksAt, Parked
    <3>2. HasAt(q, {"attach"})'
      BY <1>4, <1>5, <1>6, <2>3, <3>1 DEF HasAt
    <3> QED
      BY <3>2 DEF WillAttach, Noticed
  <2>4. CASE q[1] # x.run /\ AsksAt(q)'
    <3>1. AsksAt(q)
      BY <1>3, <2>1, <2>4 DEF AsksAt, Parked
    <3>2. /\ HasAt(q, {"attach"}) => HasAt(q, {"attach"})'
          /\ HasAt(q, {"attached"}) => HasAt(q, {"attached"})'
          /\ Has(q[1], Onward) => Has(q[1], Onward)'
      BY <1>8, <2>1, <2>4
    <3> QED
      BY <1>1, <3>1, <3>2 DEF WillAttach, Noticed, Awake
  <2> QED
    BY <2>2, <2>3, <2>4
<1> QED
  BY <1>1, <1>7, <1>9, <1>10 DEF Awake

\* The wake-up of the run that waits for the one a call worked: nobody is left
\* parked on it.  Run p is the one that may be parked.
LEMMA TellKeeps ==
  ASSUME Awake, RowsOK, NEW x, Survive({x}), \A g \in Flying' : Sound(g),
         x.pc \in {"wake", "recheck"}, NEW P \in SUBSET Run,
         \A r \in Run : Parked(r, "child") /\ row[Child[r]].status \in Terminal
           /\ \/ r = x.run /\ x.pc = "recheck"
              \/ Child[r] = x.run /\ x.pc = "wake"
           => r \in P,
         \A r \in Run \ P : row'[r] = row[r],
         \A r \in P : \/ row'[r].status = "running" /\ row'[r].pause = row[r].pause
                      \/ row[r].status # "waiting" /\ row'[r] = row[r],
         UNCHANGED <<question, sweeping, boot>>
  PROVE  Awake'
<1>1. ChildrenKnown'
  <2>1. \A r \in Run : row'[r].pause = "child" => Child[r] # 0
    BY DEF Awake, ChildrenKnown
  <2> QED
    BY <2>1 DEF ChildrenKnown, Sound
<1>2. ASSUME NEW r
      PROVE  /\ Has(r, Onward) => Has(r, Onward)'
             /\ ~(r = x.run /\ x.pc = "recheck") => (Has(r, {"recheck"}) => Has(r, {"recheck"})')
             /\ ~(r = x.run /\ x.pc = "wake") => (Has(r, {"wake"}) => Has(r, {"wake"})')
             /\ \A i : /\ HasAt(<<r, i>>, {"attach"}) => HasAt(<<r, i>>, {"attach"})'
                       /\ HasAt(<<r, i>>, {"attached"}) => HasAt(<<r, i>>, {"attached"})'
  <2>1. x.pc \notin Onward /\ {"settle", "record"} \subseteq Onward
    BY DEF Onward
  <2>2. Has(r, Onward) => Has(r, Onward)'
    BY <2>1, HasKept
  <2>3. ASSUME ~(r = x.run /\ x.pc = "recheck"), Has(r, {"recheck"}) PROVE Has(r, {"recheck"})'
    BY <2>3, HasKept
  <2>4. ASSUME ~(r = x.run /\ x.pc = "wake"), Has(r, {"wake"}) PROVE Has(r, {"wake"})'
    BY <2>4, HasKept
  <2>5. \A i : \A p \in {"attach", "attached"} : HasAt(<<r, i>>, {p}) => HasAt(<<r, i>>, {p})'
    <3>1. ASSUME NEW i, NEW p \in {"attach", "attached"}, HasAt(<<r, i>>, {p})
          PROVE  HasAt(<<r, i>>, {p})'
      <4>1. p # "nested" /\ x.pc # p
        OBVIOUS
      <4> QED
        BY <3>1, <4>1, HasAtKeptButOne
    <3> QED
      BY <3>1
  <2> QED
    BY <2>2, <2>3, <2>4, <2>5
<1>3. ASSUME NEW r \in Run PROVE Heard(r)'
  <2>1. CASE ~(Parked(r, "child")' /\ row'[Child[r]].status \in Terminal)
    BY <2>1 DEF Heard
  <2>2. CASE Parked(r, "child")' /\ row'[Child[r]].status \in Terminal
    <3>1. r \notin P /\ Parked(r, "child")
      BY <2>2 DEF Parked
    <3>2. Child[r] \in Run
      BY <3>1, FlowAssumption DEF Parked, Awake, ChildrenKnown
    <3>3. row[Child[r]].status \in Terminal
      BY <2>2, <3>2 DEF Terminal
    <3>4. Has(r, Onward) \/ Has(r, {"recheck"}) \/ Has(Child[r], {"wake"})
      BY <3>1, <3>3 DEF Heard, Awake
    <3>5. (Has(r, Onward) \/ Has(r, {"recheck"}) \/ Has(Child[r], {"wake"}))'
      BY <1>2, <3>1, <3>3, <3>4
    <3> QED
      BY <3>5 DEF Heard
  <2> QED
    BY <2>1, <2>2
<1>4. ASSUME NEW q \in Question PROVE WillAttach(q)' /\ Noticed(q)'
  <2>1. q = <<q[1], q[2]>> /\ q[1] \in Run
    BY DEF Question, At
  <2>2. CASE ~AsksAt(q)'
    BY <2>2 DEF WillAttach, Noticed
  <2>3. CASE AsksAt(q)'
    <3>1. AsksAt(q)
      BY <2>1, <2>3 DEF AsksAt, Parked
    <3>2. /\ HasAt(q, {"attach"}) => HasAt(q, {"attach"})'
          /\ HasAt(q, {"attached"}) => HasAt(q, {"attached"})'
          /\ Has(q[1], Onward) => Has(q[1], Onward)'
      BY <1>2, <2>1
    <3> QED
      BY <3>1, <3>2 DEF WillAttach, Noticed, Awake
  <2> QED
    BY <2>2, <2>3
<1> QED
  BY <1>1, <1>3, <1>4 DEF Awake

LEMMA NobodyToTellKeeps ==
  ASSUME Awake, RowsOK, NEW x, Survive({x}), \A g \in Flying' : Sound(g),
         x.pc \in {"wake", "recheck"},
         \A r \in Run : Parked(r, "child") /\ row[Child[r]].status \in Terminal
           => /\ ~(r = x.run /\ x.pc = "recheck")
              /\ ~(Child[r] = x.run /\ x.pc = "wake"),
         UNCHANGED <<row, question, sweeping, boot>>
  PROVE  Awake'
<1> DEFINE P == {}
<1>1. P \in SUBSET Run
  OBVIOUS
<1>2. \A r \in Run : Parked(r, "child") /\ row[Child[r]].status \in Terminal
        /\ \/ r = x.run /\ x.pc = "recheck"
           \/ Child[r] = x.run /\ x.pc = "wake"
        => r \in P
  OBVIOUS
<1>3. \A r \in P : \/ row'[r].status = "running" /\ row'[r].pause = row[r].pause
                   \/ row[r].status # "waiting" /\ row'[r] = row[r]
  OBVIOUS
<1>4. \A r \in Run \ P : row'[r] = row[r]
  OBVIOUS
<1> HIDE DEF P
<1> QED
  BY <1>1, <1>2, <1>3, <1>4, TellKeeps

LEMMA WakeUpRows ==
  ASSUME RowsOK, NEW t \in Thread, NEW p \in Run, NEW f, WakeUp(t, p, f)
  PROVE  /\ \A r \in Run \ {p} : row'[r] = row[r]
         /\ \/ row'[p].status = "running" /\ row'[p].pause = row[p].pause
            \/ row[p].status # "waiting" /\ row'[p] = row[p]
<1>1. row[p] \in Rows(p)
  BY DEF RowsOK
<1>2. CASE MayClaim(row[p])
  <2>1. SetRow(p, Claimed(row[p]))
    BY <1>2 DEF WakeUp
  <2>2. row'[p] = Claimed(row[p]) /\ \A s \in Run \ {p} : row'[s] = row[s]
    BY <2>1, RowSet
  <2>3. Claimed(row[p]).status = "running" /\ Claimed(row[p]).pause = row[p].pause
    BY <1>1, Written
  <2> QED
    BY <2>2, <2>3
<1>3. CASE ~MayClaim(row[p])
  BY <1>3 DEF WakeUp, MayClaim
<1> QED
  BY <1>2, <1>3

LEMMA WakeKeeps ==
  ASSUME Types, Threads, Awake, NEW t \in Thread, Wake(t)
  PROVE  Awake'
<1> DEFINE x == Top(t)
           after == [x EXCEPT !.pc = IF x.op THEN "children" ELSE "return"]
<1>1. thread[t] # <<>> /\ x.pc = "wake" /\ UNCHANGED <<question, sweeping, boot>> /\ RowsOK
  BY DEF Wake, Is, faults, Types
<1>2. Survive({x}) /\ \A f \in Flying' : Sound(f)
  BY MoveFollows DEF Awake, Move, FlightKept
<1>3. CASE Parents(x.run) = {}
  <2>1. UNCHANGED row
    BY <1>3 DEF Wake
  <2>2. \A r \in Run : Child[r] # x.run
    BY <1>3 DEF Parents
  <2>3. \A r \in Run : /\ ~(r = x.run /\ x.pc = "recheck")
                       /\ ~(Child[r] = x.run /\ x.pc = "wake")
    BY <1>1, <2>2
  <2> HIDE DEF x
  <2> QED
    BY <1>1, <1>2, <2>1, <2>3, NobodyToTellKeeps
<1>4. CASE Parents(x.run) # {}
  <2>1. \E p \in Parents(x.run) : WakeUp(t, p, after)
    BY <1>4 DEF Wake
  <2>2. PICK p \in Parents(x.run) : WakeUp(t, p, after)
    BY <2>1
  <2>3. p \in Run /\ Child[p] = x.run
    BY DEF Parents
  <2>4. x.run # 0
    BY <1>1, Flights, FrameFields, Runs
  <2>5. \A r \in Run : Child[r] = x.run => r = p
    BY <2>3, <2>4, FlowAssumption
  <2> HIDE DEF after
  <2>6. /\ \A r \in Run \ {p} : row'[r] = row[r]
        /\ \/ row'[p].status = "running" /\ row'[p].pause = row[p].pause
           \/ row[p].status # "waiting" /\ row'[p] = row[p]
    BY <1>1, <2>2, <2>3, WakeUpRows
  <2> HIDE DEF x
  <2>7. {p} \in SUBSET Run
    BY <2>3
  <2> QED
    BY <1>1, <1>2, <2>5, <2>6, <2>7, TellKeeps
<1> QED
  BY <1>3, <1>4

LEMMA RecheckKeeps ==
  ASSUME Types, Threads, Awake, NEW t \in Thread, Recheck(t)
  PROVE  Awake'
<1> DEFINE x == Top(t)
           after == [x EXCEPT !.pc = "return"]
<1>1. thread[t] # <<>> /\ x.pc = "recheck" /\ UNCHANGED <<question, sweeping, boot>> /\ RowsOK
  BY DEF Recheck, Is, faults, Types
<1>2. Survive({x}) /\ \A f \in Flying' : Sound(f)
  BY MoveFollows DEF Awake, Move, FlightKept
<1>3. x.run \in Run
  BY <1>1, Flights, FrameFields
<1>4. CASE row[Child[x.run]].status \in Terminal
  <2>1. WakeUp(t, x.run, after)
    BY <1>4 DEF Recheck
  <2> HIDE DEF after
  <2>2. /\ \A r \in Run \ {x.run} : row'[r] = row[r]
        /\ \/ row'[x.run].status = "running" /\ row'[x.run].pause = row[x.run].pause
           \/ row[x.run].status # "waiting" /\ row'[x.run] = row[x.run]
    BY <1>1, <1>3, <2>1, WakeUpRows
  <2> HIDE DEF x
  <2>3. {x.run} \in SUBSET Run
    BY <1>3
  <2> QED
    BY <1>1, <1>2, <2>2, <2>3, TellKeeps
<1>5. CASE row[Child[x.run]].status \notin Terminal
  <2>1. UNCHANGED row
    BY <1>5 DEF Recheck
  <2>2. \A r \in Run : row[Child[r]].status \in Terminal
                       => /\ ~(r = x.run /\ x.pc = "recheck")
                          /\ ~(Child[r] = x.run /\ x.pc = "wake")
    BY <1>1, <1>5
  <2> HIDE DEF x
  <2> QED
    BY <1>1, <1>2, <2>1, <2>2, NobodyToTellKeeps
<1> QED
  BY <1>4, <1>5

\* A run is attached to its question, and its question is looked at again.
LEMMA NoticeKeeps ==
  ASSUME Awake, NEW x, Survive({x}), \A g \in Flying' : Sound(g),
         \/ /\ x.pc = "attach"
            /\ \E g \in Flying' : g.run = x.run /\ g.at = x.at /\ g.pc = "attached"
            /\ \A q \in Question : /\ question'[q].status = question[q].status
                                   /\ q = <<x.run, x.at>> => question'[q].resume
                                   /\ q # <<x.run, x.at>> => question'[q] = question[q]
         \/ /\ x.pc = "attached" /\ UNCHANGED question
            /\ \/ \E g \in Flying' : g.run = x.run /\ g.pc \in Onward
               \/ \A q \in Question : q = <<x.run, x.at>> =>
                                        question[q].status \notin {"answered", "timed_out"},
         UNCHANGED <<row, sweeping, boot>>
  PROVE  Awake'
<1>1. ChildrenKnown'
  BY DEF ChildrenKnown, Sound, Awake
<1>2. ASSUME NEW r
      PROVE  /\ Has(r, Onward) => Has(r, Onward)'
             /\ Has(r, {"recheck"}) => Has(r, {"recheck"})'
             /\ Has(r, {"wake"}) => Has(r, {"wake"})'
  <2>1. x.pc \notin Onward /\ {"settle", "record"} \subseteq Onward
    BY DEF Onward
  <2>2. Has(r, Onward) => Has(r, Onward)'
    BY <2>1, HasKept
  <2>3. /\ Has(r, {"recheck"}) => Has(r, {"recheck"})'
        /\ Has(r, {"wake"}) => Has(r, {"wake"})'
    BY HasKept
  <2> QED
    BY <2>2, <2>3
<1>3. ASSUME NEW r, NEW i, NEW p \in {"attach", "attached"},
             <<r, i>> # <<x.run, x.at>> \/ p # x.pc, HasAt(<<r, i>>, {p})
      PROVE  HasAt(<<r, i>>, {p})'
  <2>1. PICK f \in Flying : f.run = r /\ f.at = i /\ f.pc = p
    BY <1>3 DEF HasAt
  <2>2. f # x /\ f.pc # "nested"
    BY <1>3, <2>1
  <2>3. f \in Flying'
    BY <2>2 DEF Survive
  <2> QED
    BY <2>1, <2>3 DEF HasAt
<1>4. ASSUME NEW r \in Run PROVE Heard(r)'
  BY <1>2 DEF Heard, Parked, Awake
<1>5. ASSUME NEW q \in Question PROVE WillAttach(q)' /\ Noticed(q)'
  <2>1. q = <<q[1], q[2]>> /\ q[1] \in Run
    BY DEF Question, At
  <2>2. AsksAt(q)' <=> AsksAt(q)
    BY DEF AsksAt, Parked
  <2>3. WillAttach(q) /\ Noticed(q)
    BY DEF Awake
  <2>4. Has(q[1], Onward) => Has(q[1], Onward)'
    BY <1>2
  <2>5. CASE q # <<x.run, x.at>>
    <3>1. question'[q] = question[q]
      BY <2>5
    <3>2. /\ HasAt(q, {"attach"}) => HasAt(q, {"attach"})'
          /\ HasAt(q, {"attached"}) => HasAt(q, {"attached"})'
      BY <1>3, <2>1, <2>5
    <3> QED
      BY <2>2, <2>3, <2>4, <3>1, <3>2 DEF WillAttach, Noticed
  <2>6. CASE q = <<x.run, x.at>> /\ x.pc = "attach"
    <3>1. question'[q].resume
      BY <2>6
    <3>2. HasAt(q, {"attached"})'
      BY <2>6 DEF HasAt
    <3> QED
      BY <3>1, <3>2 DEF WillAttach, Noticed
  <2>7. CASE q = <<x.run, x.at>> /\ x.pc = "attached"
    <3>1. HasAt(q, {"attach"}) => HasAt(q, {"attach"})'
      BY <1>3, <2>1, <2>7
    <3>2. WillAttach(q)'
      BY <2>2, <2>3, <2>4, <2>7, <3>1 DEF WillAttach
    <3>3. CASE question[q].status \notin {"answered", "timed_out"}
      BY <2>7, <3>2, <3>3 DEF Noticed
    <3>4. CASE \E g \in Flying' : g.run = x.run /\ g.pc \in Onward
      <4>1. Has(q[1], Onward)'
        BY <2>7, <3>4 DEF Has
      <4> QED
        BY <3>2, <4>1 DEF Noticed
    <3> QED
      BY <2>7, <3>3, <3>4
  <2> QED
    BY <2>5, <2>6, <2>7
<1> QED
  BY <1>1, <1>4, <1>5 DEF Awake

LEMMA AttachKeeps ==
  ASSUME Types, Threads, Awake, NEW t \in Thread, Attach(t) \/ Attached(t)
  PROVE  Awake'
<1> DEFINE x == Top(t)
           g == [x EXCEPT !.pc = "attached"]
<1>1. /\ thread[t] # <<>> /\ x \in Frames /\ UNCHANGED <<row, sweeping, boot>>
      /\ Here(t) = <<x.run, x.at>>
  BY Flights DEF Attach, Attached, Is, Here, faults
<1>2. Survive({x}) /\ \A f \in Flying' : Sound(f)
  BY MoveFollows DEF Awake, Move, FlightKept
<1>3. CASE Attach(t)
  <2>1. /\ SetQuestion(Here(t), [question[Here(t)] EXCEPT !.resume = TRUE]) /\ Become(t, g)
        /\ x.pc = "attach"
    BY <1>3 DEF Attach, Go, Is
  <2>2. g.run = x.run /\ g.at = x.at /\ g.pc = "attached"
    BY <1>1, PcChanged
  <2> HIDE DEF g
  <2>3. g \in Flying'
    BY <1>1, <2>1, BecomeFlies
  <2>4. ASSUME NEW q \in Question
        PROVE  /\ question'[q].status = question[q].status
               /\ q = Here(t) => question'[q].resume
               /\ q # Here(t) => question'[q] = question[q]
    <3>1. question \in [Question -> QuestionType]
      BY DEF Types, QuestionsOK
    <3> DEFINE old == question[q]
               new == [old EXCEPT !.resume = TRUE]
    <3>2. question'[q] = IF q = Here(t) THEN new ELSE old
      BY <2>1, <3>1 DEF SetQuestion
    <3>3. old \in QuestionType
      BY <3>1
    <3> HIDE DEF old
    <3>4. new.status = old.status /\ new.resume
      BY <3>3 DEF QuestionType
    <3> HIDE DEF new
    <3> QED
      BY <3>2, <3>4 DEF old
  <2>5. \E f \in Flying' : f.run = x.run /\ f.at = x.at /\ f.pc = "attached"
    BY <2>2, <2>3
  <2> HIDE DEF x
  <2> QED
    BY <1>1, <1>2, <2>1, <2>4, <2>5, NoticeKeeps
<1>4. CASE Attached(t)
  <2>1. x.pc = "attached" /\ UNCHANGED question
    BY <1>4 DEF Attached, Is
  <2>2. CASE Decided(Here(t))
    <3>1. \E f \in Flying' : f.run = x.run /\ f.pc \in Onward
      BY <1>4, <2>2, AttachedFollows DEF Awake
    <3> HIDE DEF x
    <3> QED
      BY <1>1, <1>2, <2>1, <3>1, NoticeKeeps
  <2>3. CASE ~Decided(Here(t))
    <3>1. question[Here(t)].status \notin {"answered", "timed_out"}
      BY <2>3 DEF Decided
    <3> HIDE DEF x
    <3> QED
      BY <1>1, <1>2, <2>1, <3>1, NoticeKeeps
  <2> QED
    BY <2>2, <2>3
<1> QED
  BY <1>3, <1>4

LEMMA CalmMoves ==
  ASSUME Types, Threads, Awake, NEW t \in Thread,
         Return(t) \/ RequestPause(t) \/ Close(t) \/ RequestCancel(t) \/ CancelChildren(t)
  PROVE  Awake'
<1> DEFINE x == Top(t)
<1>1. /\ thread[t] # <<>> /\ UNCHANGED <<sweeping, boot>> /\ RowsOK
      /\ x.pc \in {"return", "pausing", "close", "request", "children"}
  BY DEF Return, RequestPause, Close, RequestCancel, CancelChildren, Is, faults, Types
<1>2. Survive({x}) /\ \A f \in Flying' : Sound(f)
  BY MoveFollows DEF Awake, Move, FlightKept
<1>3. x.run \in Run
  BY <1>1, Flights, FrameFields
<1>4. \A r \in Run : SameOrRuns(r) /\ row'[r].pause \in {row[r].pause, "none"}
  <2>1. CASE UNCHANGED row
    BY <2>1 DEF SameOrRuns
  <2>2. CASE RequestPause(t) \/ RequestCancel(t)
    <3>1. \E request : SetRow(x.run, Request(row[x.run], request))
      BY <2>2 DEF RequestPause, RequestCancel
    <3>2. PICK request : SetRow(x.run, Request(row[x.run], request))
      BY <3>1
    <3>3. /\ row'[x.run] = Request(row[x.run], request)
          /\ \A r \in Run \ {x.run} : row'[r] = row[r]
      BY <1>1, <1>3, <3>2, RowSet
    <3>4. row[x.run] \in Rows(x.run)
      BY <1>1, <1>3 DEF RowsOK
    <3>5. /\ row'[x.run].status = row[x.run].status /\ row'[x.run].pause = row[x.run].pause
          /\ row'[x.run].cursor = row[x.run].cursor
      BY <1>3, <3>3, <3>4, Written
    <3> QED
      BY <3>3, <3>5 DEF SameOrRuns
  <2> QED
    BY <2>1, <2>2 DEF Return, Close, CancelChildren
<1>5. \A q \in Question : question'[q] = question[q] \/ question'[q].status = "cancelled"
  <2>1. CASE UNCHANGED question
    BY <2>1
  <2>2. CASE Close(t)
    <3>1. ASSUME NEW q \in Question, question'[q] # question[q]
          PROVE  question'[q].status = "cancelled"
      <4>1. question'[q] = [question[q] EXCEPT !.status = "cancelled", !.outcome = "cancelled"]
        BY <2>2, <3>1 DEF Close
      <4>2. question[q] \in QuestionType
        BY DEF Types, QuestionsOK
      <4> QED
        BY <4>1, <4>2 DEF QuestionType
    <3> QED
      BY <3>1
  <2> QED
    BY <2>1, <2>2 DEF Return, RequestPause, RequestCancel, CancelChildren
<1>6. \A y \in {x} : y.pc \notin Minded
  BY <1>1 DEF Minded, Onward
<1> HIDE DEF x
<1> QED
  BY <1>1, <1>2, <1>4, <1>5, <1>6, CalmKeeps

LEMMA MoveKeeps ==
  ASSUME Types, Threads, Awake, NEW t \in Thread, Move(t)
  PROVE  Awake'
<1>1. \/ OnwardMove(t) \/ Push(t) \/ Wake(t) \/ Recheck(t)
      \/ Attach(t) \/ Attached(t)
      \/ Return(t) \/ RequestPause(t) \/ Close(t) \/ RequestCancel(t) \/ CancelChildren(t)
  BY DEF Move, OnwardMove
<1> QED
  BY <1>1, OnwardMoves, PushKeeps, WakeKeeps, RecheckKeeps, AttachKeeps, CalmMoves

LEMMA AllKept ==
  ASSUME Survive({}), NEW r
  PROVE  /\ Has(r, Onward) => Has(r, Onward)'
         /\ Has(r, {"recheck"}) => Has(r, {"recheck"})'
         /\ Has(r, {"wake"}) => Has(r, {"wake"})'
         /\ \A i : /\ HasAt(<<r, i>>, {"attach"}) => HasAt(<<r, i>>, {"attach"})'
                   /\ HasAt(<<r, i>>, {"attached"}) => HasAt(<<r, i>>, {"attached"})'
<1>1. {"settle", "record"} \subseteq Onward
  BY DEF Onward
<1>2. Has(r, Onward) => Has(r, Onward)'
  BY <1>1, HasKept
<1>3. /\ Has(r, {"recheck"}) => Has(r, {"recheck"})'
      /\ Has(r, {"wake"}) => Has(r, {"wake"})'
  BY HasKept
<1>4. ASSUME NEW i, NEW p \in {"attach", "attached"}, HasAt(<<r, i>>, {p})
      PROVE  HasAt(<<r, i>>, {p})'
  BY <1>4, HasAtKept
<1> QED
  BY <1>2, <1>3, <1>4

\* An answer, the sweep, and the resume the sweep starts: who decides the
\* question starts the resume, or the call that is parking the run has still
\* to look.
LEMMA DecideKeeps ==
  ASSUME Types, Awake, Survive({}), \A g \in Flying' : Sound(g), NEW d \in Question,
         \A q \in Question \ {d} : question'[q] = question[q],
         question'[d].resume = question[d].resume,
         question[d].status \in {"pending", "answered", "timed_out"}
           \/ question'[d].status \notin {"pending", "answered", "timed_out"},
         \A p, q \in sweeping' : p = q,
         \A q \in sweeping : q = d \/ q \in sweeping',
         \/ d \in sweeping'
         \/ \E g \in Flying' : g.run = d[1] /\ g.pc \in Onward
         \/ ~question[d].resume
         \/ question'[d].status \notin {"answered", "timed_out"},
         UNCHANGED <<row, boot>>
  PROVE  Awake'
<1>1. ChildrenKnown'
  BY DEF ChildrenKnown, Sound, Awake
<1>2. ASSUME NEW r \in Run PROVE Heard(r)'
  BY AllKept DEF Heard, Parked, Awake
<1>3. ASSUME NEW q \in Question PROVE WillAttach(q)' /\ Noticed(q)'
  <2>1. q = <<q[1], q[2]>> /\ q[1] \in Run
    BY DEF Question, At
  <2>2. AsksAt(q)' <=> AsksAt(q)
    BY DEF AsksAt, Parked
  <2>3. WillAttach(q) /\ Noticed(q)
    BY DEF Awake
  <2>4. /\ Has(q[1], Onward) => Has(q[1], Onward)'
        /\ HasAt(q, {"attach"}) => HasAt(q, {"attach"})'
        /\ HasAt(q, {"attached"}) => HasAt(q, {"attached"})'
    BY <2>1, AllKept
  <2>5. WillAttach(q)'
    <3>1. question'[q].resume = question[q].resume
      OBVIOUS
    <3>2. question'[q].status \in {"pending", "answered", "timed_out"}
          => question[q].status \in {"pending", "answered", "timed_out"}
      OBVIOUS
    <3> QED
      BY <2>2, <2>3, <2>4, <3>1, <3>2 DEF WillAttach
  <2>6. CASE q # d
    BY <2>2, <2>3, <2>4, <2>5, <2>6 DEF Noticed
  <2>7. CASE q = d
    <3>1. CASE d \in sweeping' \/ question'[d].status \notin {"answered", "timed_out"}
      BY <2>5, <2>7, <3>1 DEF Noticed
    <3>2. CASE \E g \in Flying' : g.run = d[1] /\ g.pc \in Onward
      BY <2>5, <2>7, <3>2 DEF Noticed, Has
    <3>3. CASE ~question[d].resume
      <4>1. ~question'[d].resume
        BY <3>3
      <4> QED
        BY <2>5, <2>7, <4>1 DEF Noticed, WillAttach
    <3> QED
      BY <3>1, <3>2, <3>3
  <2> QED
    BY <2>5, <2>6, <2>7
<1> QED
  BY <1>1, <1>2, <1>3 DEF Awake

LEMMA OutsideKeepsAwake ==
  ASSUME Types, Threads, Awake, Outside, ~Crash
  PROVE  Awake'
<1>0. ~Recover
  BY DEF Awake, Recover
<1>1. Survive({}) /\ \A g \in Flying' : Sound(g)
  BY <1>0, OutsideFollows DEF Awake
<1>2. ASSUME NEW q \in Question, Resumes(q), question[q].resume
      PROVE  \E g \in Flying' : g.run = q[1] /\ g.pc \in Onward
  <2>1. Spawn(RunOne(q[1], q[2], TRUE))
    BY <1>2 DEF Resumes
  <2>2. ASSUME NEW b, NEW g, g = RunOne(q[1], q[2], b)
        PROVE  g.run = q[1] /\ g.pc \in Onward
    BY <2>2, FirstFrames DEF Onward
  <2>3. \E g : Spawn(g) /\ g.run = q[1] /\ g.pc \in Onward
    BY <2>1, <2>2, Zenon
  <2> QED
    BY <2>3, SpawnFlies
<1>3. question \in [Question -> QuestionType]
  BY DEF Types, QuestionsOK
<1>4. ASSUME NEW r \in Run, Start(r) \/ Pause(r) \/ Resume(r) \/ Cancel(r)
      PROVE  Awake'
  <2>1. UNCHANGED <<question, sweeping, boot>>
    BY <1>4 DEF Start, Pause, Resume, Cancel, faults
  <2>2. \A s \in Run : SameOrRuns(s) /\ row'[s].pause \in {row[s].pause, "none"}
    <3>1. CASE UNCHANGED row
      BY <3>1 DEF SameOrRuns
    <3>2. CASE Resume(r)
      <4>1. row[r] \in Rows(r) /\ RowsOK /\ SetRow(r, Claimed(row[r]))
        BY <3>2 DEF Types, RowsOK, Resume
      <4>2. row'[r] = Claimed(row[r]) /\ \A s \in Run \ {r} : row'[s] = row[s]
        BY <4>1, RowSet
      <4>3. row'[r].status = "running" /\ row'[r].pause = row[r].pause
        BY <4>1, <4>2, Written
      <4> QED
        BY <4>2, <4>3 DEF SameOrRuns
    <3> QED
      BY <1>4, <3>1, <3>2 DEF Start, Pause, Cancel
  <2>3. \A q \in Question : question'[q] = question[q] \/ question'[q].status = "cancelled"
    BY <2>1
  <2> QED
    BY <1>1, <2>1, <2>2, <2>3, CalmKeeps
<1>5. ASSUME NEW d \in Question, NEW outcome \in {"yes", "no"}, Answer(d, outcome)
      PROVE  Awake'
  <2>1. /\ SetQuestion(d, [question[d] EXCEPT !.status = "answered", !.outcome = outcome])
        /\ question[d].status = "pending" /\ Resumes(d) /\ UNCHANGED <<row, sweeping, boot>>
    BY <1>5 DEF Answer, faults
  <2>2. /\ question'[d].resume = question[d].resume
        /\ \A q \in Question \ {d} : question'[q] = question[q]
    BY <1>3, <2>1 DEF SetQuestion, QuestionType
  <2>3. \A p, q \in sweeping' : p = q
    BY <2>1 DEF Awake
  <2>4. (\E g \in Flying' : g.run = d[1] /\ g.pc \in Onward) \/ ~question[d].resume
    BY <1>2, <2>1
  <2> QED
    BY <1>1, <2>1, <2>2, <2>3, <2>4, DecideKeeps
<1>6. ASSUME NEW d \in Question, Sweep(d) PROVE Awake'
  <2>1. /\ SetQuestion(d, [question[d] EXCEPT !.status = "timed_out", !.outcome = "timed_out"])
        /\ question[d].status = "pending" /\ UNCHANGED <<row, boot>>
        /\ sweeping = {} /\ sweeping' = {d}
    BY <1>6 DEF Sweep, faults
  <2>2. /\ question'[d].resume = question[d].resume
        /\ \A q \in Question \ {d} : question'[q] = question[q]
    BY <1>3, <2>1 DEF SetQuestion, QuestionType
  <2> QED
    BY <1>1, <2>1, <2>2, DecideKeeps
<1>7. ASSUME NEW d \in Question, SweepResumes(d) PROVE Awake'
  <2>1. /\ d \in sweeping /\ sweeping' = {} /\ Resumes(d) /\ UNCHANGED <<row, question, boot>>
    BY <1>7 DEF SweepResumes, faults
  <2>2. \A q \in sweeping : q = d
    BY <2>1 DEF Awake
  <2>4. (\E g \in Flying' : g.run = d[1] /\ g.pc \in Onward) \/ ~question[d].resume
    BY <1>2, <2>1
  <2>5. question[d].status \in {"pending", "answered", "timed_out"}
          \/ question'[d].status \notin {"pending", "answered", "timed_out"}
    BY <2>1
  <2> QED
    BY <1>1, <2>1, <2>2, <2>4, <2>5, DecideKeeps
<1> QED
  BY <1>0, <1>4, <1>5, <1>6, <1>7 DEF Outside

WakeInv == Types /\ Threads /\ (crashes = 0 => Awake)

LEMMA WakeStart == Init => WakeInv
<1> SUFFICES ASSUME Init PROVE WakeInv
  OBVIOUS
<1>1. Types /\ Threads
  BY TypesInit
<1>2. Flying = {}
  <2>1. \A t \in Thread : FramesOf(thread[t]) = {}
    BY StackFrames DEF Init
  <2> QED
    BY <2>1 DEF Flying
<1>3. \A r \in Run : row[r].status = "none" /\ row[r].pause = "none"
  BY DEF Init, NoRow
<1>4. boot = {} /\ sweeping = {}
  BY DEF Init
<1>5. \A q \in Question : q[1] \in Run
  BY DEF Question, At
<1>6. ChildrenKnown
  BY <1>2, <1>3 DEF ChildrenKnown
<1> QED
  BY <1>1, <1>3, <1>4, <1>5, <1>6 DEF WakeInv, Awake, Heard, WillAttach, Noticed, AsksAt, Parked

LEMMA WakeStep == WakeInv /\ [Next]_vars => WakeInv'
<1> SUFFICES ASSUME WakeInv, [Next]_vars PROVE WakeInv'
  OBVIOUS
<1>1. Types /\ Threads /\ Types' /\ Threads'
  BY TypesStep DEF WakeInv
<1>2. ASSUME UNCHANGED vars, Awake PROVE Awake'
  <2>1. UNCHANGED <<row, question, sweeping, thread, boot>>
    BY <1>2 DEF vars
  <2>2. Flying' = Flying
    BY <2>1 DEF Flying, FramesOf
  <2>3. ChildrenKnown'
    BY <1>2, <2>1, <2>2 DEF Awake, ChildrenKnown, Sound
  <2>4. ASSUME NEW r \in Run PROVE Heard(r)'
    BY <1>2, <2>1, <2>2 DEF Awake, Heard, Parked, Has
  <2>5. ASSUME NEW q \in Question PROVE WillAttach(q)' /\ Noticed(q)'
    BY <1>2, <2>1, <2>2 DEF Awake, WillAttach, Noticed, AsksAt, Parked, Has, HasAt
  <2> QED
    BY <1>2, <2>1, <2>3, <2>4, <2>5 DEF Awake
<1>3. ASSUME Crash PROVE crashes' # 0
  BY <1>1, <1>3 DEF Crash, Types, Rest
<1>4. ASSUME Next, ~Crash PROVE crashes' = crashes
  <2>1. ASSUME NEW t \in Thread, Move(t) PROVE crashes' = crashes
    BY <2>1 DEF Move, Unrequest, Begins, Control, Clear, Begin, Model, Wait, Write, Call, AskGate,
         ResolveSeats, AskReview, StillOpen, Released, Refused, Spent, Delegate, FindDelegate,
         Settle, Record, Trace, Push, Wake, Recheck, Return, Attach, Attached, RequestPause,
         Close, RequestCancel, CancelChildren, faults
  <2> QED
    BY <1>4, <2>1 DEF Next, Start, Pause, Resume, Cancel, Answer, Sweep, SweepResumes, Recover,
                      faults
<1>5. ASSUME Next, ~Crash, Awake PROVE Awake'
  <2>1. (\E t \in Thread : Move(t)) \/ Outside
    BY <1>5 DEF Next, Outside
  <2> QED
    BY <1>1, <1>5, <2>1, MoveKeeps, OutsideKeepsAwake
<1>6. crashes' = 0 => Awake'
  <2>1. CASE UNCHANGED vars
    BY <1>2, <2>1 DEF WakeInv, vars
  <2>2. CASE Next
    BY <1>3, <1>4, <1>5, <2>2 DEF WakeInv
  <2> QED
    BY <2>1, <2>2
<1> QED
  BY <1>1, <1>6 DEF WakeInv

LEMMA HasIsAlive ==
  ASSUME NEW r, NEW pcs, Has(r, pcs)
  PROVE  Alive(r)
BY DEF Has, Flying, FramesOf, Alive

\* A run parked on a run it delegated is not left behind: when that one has
\* ended, a call is still about to write or to re-check the first, or to wake
\* it for the second, however the two calls interleave (runOne's re-check and
\* wakeDelegator, flows.ts).  A crash may lose it.
THEOREM DelegatorsAreWoken == Spec => []NoLostWakeup
<1>1. WakeInv => NoLostWakeup
  <2> SUFFICES ASSUME WakeInv, crashes = 0, NEW r \in Run,
                      row[r].status = "waiting", row[r].pause = "child",
                      row[Child[r]].status \in Terminal
               PROVE  Alive(r) \/ Alive(Child[r])
    BY DEF NoLostWakeup
  <2>1. Has(r, Onward) \/ Has(r, {"recheck"}) \/ Has(Child[r], {"wake"})
    BY DEF WakeInv, Awake, Heard, Parked
  <2> QED
    BY <2>1, HasIsAlive
<1> QED
  BY <1>1, WakeStart, WakeStep, PTL DEF Spec

\* A run parked on a question that is answered, or that timed out, is not left
\* behind either: if the answer came before the run was attached, the call that
\* parks it has still to attach it and to look again; if it came after, it
\* started the resume (attachResume, humanGates.ts and dualControl.ts).
THEOREM AnswersArePickedUp == Spec => []AnsweredIsPickedUp
<1>1. WakeInv => AnsweredIsPickedUp
  <2> SUFFICES ASSUME WakeInv, crashes = 0, NEW q \in Question,
                      question[q].status \in {"answered", "timed_out"},
                      row[q[1]].status = "waiting", row[q[1]].pause = "question",
                      row[q[1]].cursor = q[2]
               PROVE  Alive(q[1]) \/ q \in sweeping
    BY DEF AnsweredIsPickedUp
  <2>1. q \in sweeping \/ Has(q[1], Onward) \/ HasAt(q, {"attach"}) \/ HasAt(q, {"attached"})
    BY DEF WakeInv, Awake, Noticed, AsksAt, Parked
  <2>2. \A pcs : HasAt(q, pcs) => Has(q[1], pcs)
    BY DEF HasAt, Has
  <2> QED
    BY <2>1, <2>2, HasIsAlive
<1> QED
  BY <1>1, WakeStart, WakeStep, PTL DEF Spec

-----------------------------------------------------------------------------
(* No call goes out twice.  Calls of one run may be in flight together (two *)
(* resumes of one answer), but only before a question that is open; whoever *)
(* passes it does so alone, and what has gone out lies behind every call    *)
(* that can still do anything and behind every row a boot can resume from.  *)

\* The calls in flight with their places: the same call twice is two of them.
Places(t, s) == {<<t, Len(s) + 1 - k, s[k]>> : k \in DOMAIN s}
Placed == UNION {Places(t, thread[t]) : t \in Thread}

\* A question nothing more can come of, ...
Closed(q, Q) == q \in Question /\ \/ Q[q].status = "consumed"
                                  \/ ~IsReview(q) /\ Q[q].status = "cancelled"
\* ... and one that was asked and can still be spent.
Open(q, Q)   == q \in Question /\ Q[q].status # "none" /\ ~Closed(q, Q)

\* A call that has its step still before it, or will park or stop there ...
Ready(f) == \/ f.pc \in {"unrequest", "start", "control", "begin", "step"}
            \/ f.pc \in {"settle", "record"} /\ f.end = "waiting"
            \/ f.pc \in {"clear", "trace", "push"} /\ f.end = "waiting" /\ f.why = "operator"
\* ... one whose step is over, and that will go on from it, ...
Passing(f) == f.pc \in {"settle", "record"} /\ f.end = "none"
\* ... and, with those, one that has left the start of its step behind.
Gone(f)    == f.pc \in {"seats", "call", "nested"} \/ Passing(f)
\* A call by which its run may still come to a further call.
Able(f, Q) == Gone(f) \/ (Ready(f) /\ ~Closed(<<f.run, f.at>>, Q))
Abled(r, Q, P) == {u \in P : u[3].run = r /\ Able(u[3], Q)}

\* A call that is about to settle or to record its step.
Ending(f)  == f.pc \in {"settle", "record"}
\* A call that was begun, and may still write the attempt of its run.
Entered(f) == \/ f.pc \in {"control", "clear", "begin", "step", "seats", "call", "nested"}
              \/ Ending(f)
              \/ f.pc \in {"trace", "push"} /\ f.end = "waiting" /\ f.why = "operator"

\* The row w of run r leads back to a step after i, to none, or ...
Beyond(r, w, Q, i) == w.cursor = 0 \/ w.cursor > i \/ Closed(<<r, w.cursor>>, Q)
\* ... to i, which somebody is about to record ...
Recording(r, w, P, i) ==
  /\ w.cursor = i /\ w.status # "waiting"
  /\ \E u \in P : u[3].run = r /\ u[3].at = i /\ Ending(u[3])
\* ... or to where the boot stops, an attempt in flight.
Attempted(r, w, P) ==
  /\ w.status = "running" /\ w.attempt # 0 /\ ~Flow[r][w.attempt].idempotent
  /\ \A u \in P : u[3].run = r => ~Entered(u[3])

\* Of a run one question is open at most.
OneOpen(r, Q) == \A i, j \in DOMAIN Flow[r] : Open(<<r, i>>, Q) /\ Open(<<r, j>>, Q) => i = j
\* While one is, every able call of the run stands before it (a call resumed
\* twice does, humanGates.ts and dualControl.ts).
Crowd(r, w, Q, P) == \A i \in DOMAIN Flow[r] : Open(<<r, i>>, Q) =>
  /\ \A u \in Abled(r, Q, P) : Ready(u[3]) /\ u[3].at = i
  /\ w.cursor \in {0, i} \/ Closed(<<r, w.cursor>>, Q)
\* While none is, one call alone may go on, and none where the run is parked.
Alone(r, w, Q, P) == (\A i \in DOMAIN Flow[r] : ~Open(<<r, i>>, Q)) =>
  /\ \A u, v \in Abled(r, Q, P) : u = v
  /\ w.status = "waiting" /\ ~Closed(<<r, w.cursor>>, Q) => Abled(r, Q, P) = {}
\* The row leads an able call nowhere else.
Near(r, w, Q, P) == \A u \in Abled(r, Q, P) :
  w.cursor \in {0, u[3].at} \/ Closed(<<r, w.cursor>>, Q)
\* Who has left a question behind has spent it, unless it has still to ask.
Past(r, Q, P) == \A u \in Abled(r, Q, P) : LET q == <<r, u[3].at>> IN
  q \in Question /\ Gone(u[3]) => Q[q].status = IF u[3].pc = "seats" THEN "none" ELSE "consumed"
\* A call that went out, told and for a run that was not overwritten, went out
\* once; nobody can come back to it, and no row leads there but by somebody who
\* is about to record it, or to an attempt in flight, where the boot stops.
OnceOut(r, w, Q, D, T, P) == \A i \in DOMAIN Flow[r] : LET a == <<r, i>> IN
  a \notin T /\ ~Flow[r][i].idempotent /\ D[a] # 0 =>
    /\ D[a] = 1
    /\ \A u \in Abled(r, Q, P) : u[3].at > i \/ (u[3].at = i /\ Passing(u[3]))
    /\ \A j \in DOMAIN Flow[r] : Open(<<r, j>>, Q) => j > i
    /\ a \in Question => Q[a].status = "consumed"
    /\ Beyond(r, w, Q, i) \/ Recording(r, w, P, i) \/ Attempted(r, w, P)
\* One run, with its row w, questions Q, calls out D, torn steps T and the calls
\* in flight P.
Sane(r, w, Q, D, T, P) ==
  /\ OneOpen(r, Q) /\ Crowd(r, w, Q, P) /\ Alone(r, w, Q, P) /\ Near(r, w, Q, P)
  /\ Past(r, Q, P) /\ OnceOut(r, w, Q, D, T, P)

\* What holds of every call, ...
FrameOK(f, Q) ==
  /\ f.why = "question" => /\ f.end = "waiting" /\ <<f.run, f.at>> \in Question
                           /\ Q[<<f.run, f.at>>].status # "none"
  /\ f.pc \in {"unrequest", "start", "control", "close"} => f.why = "none"
  /\ f.pc \in {"settle", "record"} /\ f.end = "waiting" => f.why \in {"question", "child", "wait"}
  /\ f.pc \in {"attach", "attached"} => f.why = "question"
  /\ f.pc \in {"pausing", "close", "request", "children"} => f.op
  /\ f.pc = "call" => HasEffect(f.run, f.at)
  /\ f.pc = "nested" => Kind(f.run, f.at) = "agent"
Framed(P, Q) == \A u \in P : FrameOK(u[3], Q)
\* ... of what was asked and done, ...
AskedFirst(Q, S) == \A q \in Question : Q[q].resume \/ q \in S => Q[q].status # "none"
DoneAt(D) == \A a \in At : D[a] # 0 => HasEffect(a[1], a[2]) \/ a \in Question
\* ... of the runs a boot has still to look at, ...
Booted(B, W, S, P) ==
  /\ \A b \in B : /\ W[b.run] = b.row /\ b.row.status = "running"
                  /\ \A u \in P : u[3].run # b.run
  /\ B # {} => S = {} /\ \A u \in P : ~u[3].op
\* ... of the runs that have no row yet, ...
Waited(u, P) == u[3].run \in Root \/ \E v \in P : /\ v[1] = u[1] /\ v[2] + 1 = u[2]
                                                /\ v[3].pc = "nested"
                                                /\ Child[v[3].run] = u[3].run
Unstarted(W, D, Q, P) == \A r \in Run : W[r].status = "none" =>
  /\ \A i \in DOMAIN Flow[r] : D[<<r, i>>] = 0
  /\ \A q \in Question : q[1] = r => Q[q].status = "none"
  /\ \A u \in P : u[3].run = r => u[3].pc = "start" /\ Waited(u, P)
\* ... and of those that neither run nor wait.
Rests(w) == w.status \notin {"running", "waiting"} => w.cursor = 0
Resting(W) == \A r \in Run : Rests(W[r])
Global(W, Q, S, D, B, P) == /\ Framed(P, Q) /\ AskedFirst(Q, S) /\ DoneAt(D) /\ Booted(B, W, S, P)
                            /\ Unstarted(W, D, Q, P) /\ Resting(W)

\* The inductive invariant: the whole in order, and each run whose progress no
\* late parking undid.
Orderly == Global(row, question, sweeping, done, boot, Placed)
SaneRun(r) == Sane(r, row[r], question, done, torn, Placed)
AllSane == \A r \in Run \ stale : SaneRun(r)
RepeatInv == Types /\ Threads /\ Orderly /\ AllSane

\* The questions of r go on, and none is asked.
Calmer(r, Q, R) == \A i : <<r, i>> \in Question =>
  /\ R[<<r, i>>].status = "none" <=> Q[<<r, i>>].status = "none"
  /\ Closed(<<r, i>>, Q) => Closed(<<r, i>>, R)
  /\ Q[<<r, i>>].status = "consumed" => R[<<r, i>>].status = "consumed"

\* What a call becomes that neither passes its question nor leaves its step.
Kin(f, g) ==
  /\ g.run = f.run /\ g.at = f.at
  /\ Ready(g) \/ Gone(g) => Ready(f) \/ Gone(f)
  /\ <<f.run, f.at>> \in Question =>
       /\ Ready(g) => Ready(f)
       /\ Gone(g) => Gone(f) /\ (g.pc = "seats" <=> f.pc = "seats")
  /\ Passing(f) /\ (Ready(g) \/ Gone(g)) => Passing(g)

\* In S, a call of r was there in P, or comes from p, or can do nothing more.
Carried(r, Q, P, S, p, g) == \A u \in S : u[3].run = r =>
  \/ u \in P /\ (u # p \/ p = g)
  \/ ~Able(u[3], Q)
  \/ p \in P /\ u = g /\ Kin(p[3], g[3])
\* No call of r begins where none was begun, ...
NoneEnters(r, P, S) == (\A u \in P : u[3].run = r => ~Entered(u[3]))
                   => \A u \in S : u[3].run = r => ~Entered(u[3])
\* ... and a step of r that was about to be recorded still is.
StillEnding(r, P, S) == \A u \in P : u[3].run = r /\ Ending(u[3]) =>
  \E v \in S : v[3].run = r /\ v[3].at = u[3].at /\ Ending(v[3])
\* In S, the call g of r has taken the place of p.
Succeeds(r, P, S, p, g) ==
  g[3].run = r /\ \A u \in S : u[3].run = r => (u \in P /\ u # p) \/ u = g
Replaced(r, P, S, p, g) == Succeeds(r, P, S, p, g) /\ NoneEnters(r, P, S) /\ StillEnding(r, P, S)

\* The two are different, which an able call is either of.
LEMMA ReadyNotGone == \A f : ~(Ready(f) /\ Gone(f))
BY DEF Ready, Gone, Passing

\* An able call was able before, or has taken the place of one that was.
LEMMA CarriedAble ==
  ASSUME NEW r, NEW Q, NEW R, NEW P, NEW S, NEW p, NEW g, Calmer(r, Q, R),
         Carried(r, R, P, S, p, g), NEW u \in Abled(r, R, S)
  PROVE  \/ u \in Abled(r, Q, P) /\ (u # p \/ p = g)
         \/ p \in Abled(r, Q, P) /\ u = g /\ Kin(p[3], g[3])
<1>1. u \in S /\ u[3].run = r /\ Able(u[3], R)
  BY DEF Abled
<1>2. CASE u \in P /\ (u # p \/ p = g)
  <2>1. Able(u[3], Q)
    BY <1>1 DEF Able, Calmer, Closed
  <2> QED
    BY <1>1, <1>2, <2>1 DEF Abled
<1>3. CASE p \in P /\ u = g /\ Kin(p[3], g[3])
  <2>1. p[3].run = r /\ g[3].run = r /\ p[3].at = g[3].at
    BY <1>1, <1>3 DEF Kin
  <2>2. CASE <<r, p[3].at>> \notin Question
    BY <1>1, <1>3, <2>1, <2>2 DEF Able, Kin, Closed, Abled
  <2>3. CASE <<r, p[3].at>> \in Question
    <3>1. Closed(<<r, p[3].at>>, Q) => Closed(<<r, p[3].at>>, R)
      BY <2>3 DEF Calmer
    <3>2. Able(p[3], Q)
      BY <1>1, <1>3, <2>1, <2>3, <3>1 DEF Able, Kin
    <3> QED
      BY <1>3, <2>1, <3>2 DEF Abled
  <2> QED
    BY <2>2, <2>3
<1> QED
  BY <1>1, <1>2, <1>3 DEF Carried

LEMMA CalmerOpen ==
  ASSUME NEW r, NEW Q, NEW R, Calmer(r, Q, R)
  PROVE  \A i : /\ Open(<<r, i>>, R) => Open(<<r, i>>, Q)
                /\ Closed(<<r, i>>, Q) => Closed(<<r, i>>, R)
BY DEF Calmer, Open, Closed

\* A run stays in order when its row leads where it led, its questions go on and
\* its calls with them.
LEMMA Steady ==
  ASSUME NEW r, NEW w, NEW v, NEW Q, NEW R, NEW D, NEW E, NEW T, NEW P, NEW S,
         NEW p, NEW g, Sane(r, w, Q, D, T, P), Calmer(r, Q, R),
         \A i \in DOMAIN Flow[r] : E[<<r, i>>] = D[<<r, i>>],
         v.status = w.status, v.cursor = w.cursor,
         v.attempt = w.attempt \/ \E u \in P : u[3].run = r /\ Entered(u[3]),
         Carried(r, R, P, S, p, g), NoneEnters(r, P, S), StillEnding(r, P, S)
  PROVE  Sane(r, v, R, E, T, S)
<1> DEFINE A == Abled(r, Q, P)
           B == Abled(r, R, S)
<1>1. \A u \in B : \/ u \in A /\ (u # p \/ p = g)
                   \/ p \in A /\ u = g /\ Kin(p[3], g[3])
  BY CarriedAble
<1>2. \A i : /\ Open(<<r, i>>, R) => Open(<<r, i>>, Q)
             /\ Closed(<<r, i>>, Q) => Closed(<<r, i>>, R)
  BY CalmerOpen
<1>3. OneOpen(r, R)
  BY <1>2 DEF OneOpen, Sane
<1>4. Near(r, v, R, S)
  BY <1>1, <1>2 DEF Near, Sane, Kin
<1>5. Crowd(r, v, R, S)
  <2> SUFFICES ASSUME NEW i \in DOMAIN Flow[r], Open(<<r, i>>, R)
               PROVE  /\ \A u \in B : Ready(u[3]) /\ u[3].at = i
                      /\ v.cursor \in {0, i} \/ Closed(<<r, v.cursor>>, R)
    BY DEF Crowd
  <2>1. /\ \A u \in A : Ready(u[3]) /\ u[3].at = i /\ u[3].run = r
        /\ w.cursor \in {0, i} \/ Closed(<<r, w.cursor>>, Q)
    BY <1>2 DEF Crowd, Sane, Abled
  <2>2. ASSUME NEW u \in B PROVE Ready(u[3]) /\ u[3].at = i
    <3>1. CASE u \in A
      BY <2>1, <3>1
    <3>2. CASE p \in A /\ u = g /\ Kin(p[3], g[3])
      <4>1. <<p[3].run, p[3].at>> \in Question
        BY <2>1, <3>2 DEF Open
      <4>2. Ready(g[3]) \/ Gone(g[3])
        BY <3>2 DEF Abled, Able
      <4> QED
        BY <2>1, <3>2, <4>1, <4>2, ReadyNotGone DEF Kin
    <3> QED
      BY <1>1, <3>1, <3>2
  <2> QED
    BY <1>2, <2>1, <2>2
<1>6. Alone(r, v, R, S)
  <2> SUFFICES ASSUME \A i \in DOMAIN Flow[r] : ~Open(<<r, i>>, R)
               PROVE  /\ \A a, b \in B : a = b
                      /\ v.status = "waiting" /\ ~Closed(<<r, v.cursor>>, R) => B = {}
    BY DEF Alone
  <2>1. CASE \A i \in DOMAIN Flow[r] : ~Open(<<r, i>>, Q)
    <3>1. /\ \A a, b \in A : a = b
          /\ w.status = "waiting" /\ ~Closed(<<r, w.cursor>>, Q) => A = {}
      BY <2>1 DEF Alone, Sane
    <3> QED
      BY <1>1, <1>2, <3>1
  <2>2. ASSUME NEW i \in DOMAIN Flow[r], Open(<<r, i>>, Q) PROVE B = {}
    <3>1. \A u \in A : Ready(u[3]) /\ u[3].at = i /\ u[3].run = r
      BY <2>2 DEF Crowd, Sane, Abled
    <3>2. Closed(<<r, i>>, R) /\ <<r, i>> \in Question
      BY <2>2 DEF Open, Calmer
    <3>3. ASSUME NEW u \in B PROVE FALSE
      <4>1. u[3].run = r /\ Able(u[3], R)
        BY DEF Abled
      <4>2. Ready(u[3]) /\ u[3].at = i
        <5>1. CASE u \in A
          BY <3>1, <5>1
        <5>2. CASE p \in A /\ u = g /\ Kin(p[3], g[3])
          BY <3>1, <3>2, <4>1, <5>2, ReadyNotGone DEF Kin, Able
        <5> QED
          BY <1>1, <5>1, <5>2
      <4> QED
        BY <3>2, <4>1, <4>2, ReadyNotGone DEF Able
    <3> QED
      BY <3>3
  <2> QED
    BY <2>1, <2>2
<1>7. Past(r, R, S)
  <2> SUFFICES ASSUME NEW u \in B, <<r, u[3].at>> \in Question, Gone(u[3])
               PROVE  R[<<r, u[3].at>>].status
                        = IF u[3].pc = "seats" THEN "none" ELSE "consumed"
    BY DEF Past
  <2>1. PICK x \in A : x[3].at = u[3].at /\ Gone(x[3]) /\ (x[3].pc = "seats" <=> u[3].pc = "seats")
    <3>1. CASE u \in A
      BY <3>1
    <3>2. CASE p \in A /\ u = g /\ Kin(p[3], g[3])
      BY <3>2 DEF Kin, Abled
    <3> QED
      BY <1>1, <3>1, <3>2
  <2>2. Q[<<r, u[3].at>>].status = IF u[3].pc = "seats" THEN "none" ELSE "consumed"
    BY <2>1 DEF Past, Sane
  <2> QED
    BY <2>2 DEF Calmer
<1>8. OnceOut(r, v, R, E, T, S)
  <2> SUFFICES ASSUME NEW i \in DOMAIN Flow[r], <<r, i>> \notin T, ~Flow[r][i].idempotent,
                      E[<<r, i>>] # 0
               PROVE  /\ E[<<r, i>>] = 1
                      /\ \A u \in B : u[3].at > i \/ (u[3].at = i /\ Passing(u[3]))
                      /\ \A j \in DOMAIN Flow[r] : Open(<<r, j>>, R) => j > i
                      /\ <<r, i>> \in Question => R[<<r, i>>].status = "consumed"
                      /\ Beyond(r, v, R, i) \/ Recording(r, v, S, i) \/ Attempted(r, v, S)
    BY DEF OnceOut
  <2>1. /\ D[<<r, i>>] = 1
        /\ \A u \in A : u[3].at > i \/ (u[3].at = i /\ Passing(u[3]))
        /\ \A j \in DOMAIN Flow[r] : Open(<<r, j>>, Q) => j > i
        /\ <<r, i>> \in Question => Q[<<r, i>>].status = "consumed"
        /\ Beyond(r, w, Q, i) \/ Recording(r, w, P, i) \/ Attempted(r, w, P)
    BY DEF OnceOut, Sane
  <2>2. E[<<r, i>>] = 1
    BY <2>1
  <2>3. ASSUME NEW u \in B PROVE u[3].at > i \/ (u[3].at = i /\ Passing(u[3]))
    <3>1. CASE p \in A /\ u = g /\ Kin(p[3], g[3])
      <4>1. Ready(g[3]) \/ Gone(g[3])
        BY <3>1 DEF Abled, Able
      <4> QED
        BY <2>1, <3>1, <4>1 DEF Kin
    <3> QED
      BY <1>1, <2>1, <3>1
  <2>4. /\ \A j \in DOMAIN Flow[r] : Open(<<r, j>>, R) => j > i
        /\ <<r, i>> \in Question => R[<<r, i>>].status = "consumed"
    BY <1>2, <2>1 DEF Calmer
  <2>5. Beyond(r, w, Q, i) => Beyond(r, v, R, i)
    BY <1>2 DEF Beyond
  <2>6. Recording(r, w, P, i) => Recording(r, v, S, i)
    BY DEF Recording, StillEnding
  <2>7. Attempted(r, w, P) => Attempted(r, v, S)
    BY DEF Attempted, NoneEnters
  <2> QED
    BY <2>1, <2>2, <2>3, <2>4, <2>5, <2>6, <2>7
<1> QED
  BY <1>3, <1>4, <1>5, <1>6, <1>7, <1>8 DEF Sane

\* ... when a call asks its question and parks (AskGate, AskReview), ...
LEMMA Asking ==
  ASSUME NEW r, NEW w, NEW Q, NEW R, NEW D, NEW T, NEW P, NEW S, NEW p, NEW g,
         NEW i \in DOMAIN Flow[r], Sane(r, w, Q, D, T, P),
         <<r, i>> \in Question, Q[<<r, i>>].status = "none", Open(<<r, i>>, R),
         \A j : <<r, j>> \in Question /\ j # i => R[<<r, j>>] = Q[<<r, j>>],
         p \in Abled(r, Q, P), p[3].at = i, ~Passing(p[3]),
         g[3].at = i, Ready(g[3]),
         Replaced(r, P, S, p, g)
  PROVE  Sane(r, w, R, D, T, S)
<1> USE DEF Replaced, Succeeds
<1> DEFINE A == Abled(r, Q, P)
           B == Abled(r, R, S)
<1>1. \A j \in DOMAIN Flow[r] : ~Open(<<r, j>>, Q)
  <2> SUFFICES ASSUME NEW j \in DOMAIN Flow[r], Open(<<r, j>>, Q) PROVE FALSE
    OBVIOUS
  <2>1. i = j
    BY DEF Sane, Crowd
  <2> QED
    BY <2>1 DEF Open
<1>2. \A u \in A : u = p
  BY <1>1 DEF Alone, Sane
<1>3. \A u \in B : u = g
  <2> SUFFICES ASSUME NEW u \in B, u \in P, u # p PROVE FALSE
    BY DEF Abled
  <2>1. u[3].run = r /\ Able(u[3], R)
    BY DEF Abled
  <2>2. Able(u[3], Q)
    <3>1. CASE u[3].at = i
      BY <2>1, <3>1 DEF Able, Closed
    <3>2. CASE u[3].at # i
      BY <2>1, <3>2 DEF Able, Closed
    <3> QED
      BY <3>1, <3>2
  <2> QED
    BY <1>2, <2>1, <2>2 DEF Abled
<1>4. \A j : Closed(<<r, j>>, Q) => Closed(<<r, j>>, R)
  BY DEF Closed
<1>5. \A j \in DOMAIN Flow[r] : Open(<<r, j>>, R) => j = i
  BY <1>1 DEF Open, Closed
<1>6. w.cursor \in {0, i} \/ Closed(<<r, w.cursor>>, R)
  BY <1>4 DEF Near, Sane
<1>7. OneOpen(r, R) /\ Crowd(r, w, R, S) /\ Alone(r, w, R, S) /\ Near(r, w, R, S)
  BY <1>3, <1>5, <1>6 DEF OneOpen, Crowd, Alone, Near
<1>8. Past(r, R, S)
  BY <1>3, ReadyNotGone DEF Past
<1>9. OnceOut(r, w, R, D, T, S)
  <2> SUFFICES ASSUME NEW k \in DOMAIN Flow[r], <<r, k>> \notin T, ~Flow[r][k].idempotent,
                      D[<<r, k>>] # 0
               PROVE  /\ D[<<r, k>>] = 1
                      /\ \A u \in B : u[3].at > k \/ (u[3].at = k /\ Passing(u[3]))
                      /\ \A j \in DOMAIN Flow[r] : Open(<<r, j>>, R) => j > k
                      /\ <<r, k>> \in Question => R[<<r, k>>].status = "consumed"
                      /\ Beyond(r, w, R, k) \/ Recording(r, w, S, k) \/ Attempted(r, w, S)
    BY DEF OnceOut
  <2>1. /\ D[<<r, k>>] = 1 /\ i > k
        /\ <<r, k>> \in Question => Q[<<r, k>>].status = "consumed"
        /\ Beyond(r, w, Q, k) \/ Recording(r, w, P, k) \/ Attempted(r, w, P)
    BY DEF OnceOut, Sane
  <2>2. Beyond(r, w, Q, k) => Beyond(r, w, R, k)
    BY <1>4 DEF Beyond
  <2>3. Recording(r, w, P, k) => Recording(r, w, S, k)
    BY DEF Recording, StillEnding
  <2>4. Attempted(r, w, P) => Attempted(r, w, S)
    BY DEF Attempted, NoneEnters
  <2>5. <<r, k>> \in Question => R[<<r, k>>].status = "consumed"
    BY <2>1
  <2> QED
    BY <1>3, <1>5, <2>1, <2>2, <2>3, <2>4, <2>5
<1> QED
  BY <1>7, <1>8, <1>9 DEF Sane

\* ... when a call spends an answer and goes past the question (Released), ...
LEMMA Releasing ==
  ASSUME NEW r, NEW w, NEW Q, NEW R, NEW D, NEW E, NEW T, NEW P, NEW S, NEW p, NEW g,
         NEW i \in DOMAIN Flow[r], Sane(r, w, Q, D, T, P), w.status = "waiting" => w.cursor # 0,
         Open(<<r, i>>, Q), R[<<r, i>>].status = "consumed",
         \A j : <<r, j>> \in Question /\ j # i => R[<<r, j>>] = Q[<<r, j>>],
         p \in Abled(r, Q, P), p[3].at = i,
         g[3].at = i, Gone(g[3]), g[3].pc # "seats",
         \A j \in DOMAIN Flow[r] : j # i => E[<<r, j>>] = D[<<r, j>>],
         \/ E[<<r, i>>] = D[<<r, i>>]
         \/ E[<<r, i>>] = D[<<r, i>>] + 1 /\ Passing(g[3]),
         Replaced(r, P, S, p, g)
  PROVE  Sane(r, w, R, E, T, S)
<1> USE DEF Replaced, Succeeds
<1> DEFINE A == Abled(r, Q, P)
           B == Abled(r, R, S)
<1>1. /\ \A u \in A : Ready(u[3]) /\ u[3].at = i
      /\ w.cursor \in {0, i} \/ Closed(<<r, w.cursor>>, Q)
  BY DEF Crowd, Sane
<1>2. Closed(<<r, i>>, R) /\ \A j : Closed(<<r, j>>, Q) => Closed(<<r, j>>, R)
  BY DEF Closed, Open
<1>3. \A j \in DOMAIN Flow[r] : ~Open(<<r, j>>, R)
  <2> SUFFICES ASSUME NEW j \in DOMAIN Flow[r], Open(<<r, j>>, R) PROVE FALSE
    OBVIOUS
  <2>1. j # i
    BY <1>2 DEF Open
  <2>2. Open(<<r, j>>, Q)
    BY <2>1 DEF Open, Closed
  <2> QED
    BY <2>1, <2>2 DEF OneOpen, Sane
<1>4. \A u \in B : u = g
  <2> SUFFICES ASSUME NEW u \in B, u \in P, u # p PROVE FALSE
    BY DEF Abled
  <2>1. u[3].run = r /\ Able(u[3], R)
    BY DEF Abled
  <2>2. Able(u[3], Q)
    BY <1>2, <2>1 DEF Able
  <2>3. Ready(u[3]) /\ u[3].at = i
    BY <1>1, <2>1, <2>2 DEF Abled
  <2> QED
    BY <1>2, <2>1, <2>3, ReadyNotGone DEF Able
<1>5. w.cursor = 0 \/ Closed(<<r, w.cursor>>, R)
  BY <1>1, <1>2
<1>6. OneOpen(r, R) /\ Crowd(r, w, R, S) /\ Alone(r, w, R, S) /\ Near(r, w, R, S)
  BY <1>3, <1>4, <1>5 DEF OneOpen, Crowd, Alone, Near
<1>7. Past(r, R, S)
  BY <1>4 DEF Past
<1>8. OnceOut(r, w, R, E, T, S)
  <2> SUFFICES ASSUME NEW k \in DOMAIN Flow[r], <<r, k>> \notin T, ~Flow[r][k].idempotent,
                      E[<<r, k>>] # 0
               PROVE  /\ E[<<r, k>>] = 1
                      /\ i > k \/ (i = k /\ Passing(g[3]))
                      /\ <<r, k>> \in Question => R[<<r, k>>].status = "consumed"
    BY <1>3, <1>4, <1>5 DEF OnceOut, Beyond
  <2>1. D[<<r, k>>] # 0 => /\ D[<<r, k>>] = 1 /\ i > k
                           /\ <<r, k>> \in Question => Q[<<r, k>>].status = "consumed"
    BY DEF OnceOut, Sane
  <2>2. CASE k = i
    <3>1. D[<<r, i>>] = 0
      BY <2>1, <2>2 DEF Open, Closed
    <3> QED
      BY <2>2, <3>1
  <2>3. CASE k # i
    BY <2>1, <2>3
  <2> QED
    BY <2>2, <2>3
<1> QED
  BY <1>6, <1>7, <1>8 DEF Sane

\* ... when a held call goes out (Call), ...
LEMMA Calling ==
  ASSUME NEW r, NEW w, NEW Q, NEW D, NEW E, NEW T, NEW P, NEW S, NEW p, NEW g,
         NEW i \in DOMAIN Flow[r], i \in Nat, Sane(r, w, Q, D, T, P), w.status = "waiting" => w.cursor # 0,
         p \in Abled(r, Q, P), p[3].at = i, p[3].pc = "call",
         g \in S, g[3].at = i, Ending(g[3]), ~Ready(g[3]),
         \A j \in DOMAIN Flow[r] : j # i => E[<<r, j>>] = D[<<r, j>>],
         E[<<r, i>>] = D[<<r, i>>] + 1,
         Replaced(r, P, S, p, g)
  PROVE  Sane(r, w, Q, E, T, S)
<1> USE DEF Replaced, Succeeds
<1> DEFINE A == Abled(r, Q, P)
           B == Abled(r, Q, S)
<1>0. ~Ready(p[3]) /\ ~Passing(p[3]) /\ Gone(p[3])
  BY DEF Ready, Passing, Gone
<1>1. \A j \in DOMAIN Flow[r] : ~Open(<<r, j>>, Q)
  BY <1>0 DEF Sane, Crowd
<1>2. \A u \in A : u = p
  BY <1>1 DEF Alone, Sane
<1>3. \A u \in B : u = g /\ Passing(g[3])
  <2>1. \A u \in B : u = g
    BY <1>2 DEF Abled
  <2>2. ASSUME g \in B PROVE Passing(g[3])
    BY <2>2 DEF Abled, Able, Gone, Ending
  <2> QED
    BY <2>1, <2>2
<1>4. w.cursor \in {0, i} \/ Closed(<<r, w.cursor>>, Q)
  BY DEF Near, Sane
<1>5. w.status = "waiting" => Closed(<<r, w.cursor>>, Q)
  BY <1>1 DEF Alone, Sane
<1>6. OneOpen(r, Q) /\ Crowd(r, w, Q, S) /\ Alone(r, w, Q, S) /\ Near(r, w, Q, S)
  BY <1>1, <1>3, <1>4, <1>5 DEF OneOpen, Crowd, Alone, Near
<1>7. <<r, i>> \in Question => Q[<<r, i>>].status = "consumed"
  BY <1>0 DEF Past, Sane
<1>8. Past(r, Q, S)
  BY <1>3, <1>7 DEF Past, Passing
<1>9. OnceOut(r, w, Q, E, T, S)
  <2> SUFFICES ASSUME NEW k \in DOMAIN Flow[r], <<r, k>> \notin T, ~Flow[r][k].idempotent,
                      E[<<r, k>>] # 0
               PROVE  /\ E[<<r, k>>] = 1
                      /\ i > k \/ i = k
                      /\ <<r, k>> \in Question => Q[<<r, k>>].status = "consumed"
                      /\ Beyond(r, w, Q, k) \/ Recording(r, w, S, k) \/ Attempted(r, w, S)
    BY <1>1, <1>3 DEF OnceOut
  <2>1. D[<<r, k>>] # 0 =>
          /\ D[<<r, k>>] = 1 /\ i > k
          /\ <<r, k>> \in Question => Q[<<r, k>>].status = "consumed"
          /\ Beyond(r, w, Q, k) \/ Recording(r, w, P, k) \/ Attempted(r, w, P)
    BY <1>0 DEF OnceOut, Sane
  <2>2. CASE k = i
    <3>1. D[<<r, i>>] = 0
      BY <2>1, <2>2
    <3>2. Beyond(r, w, Q, i) \/ Recording(r, w, S, i)
      BY <1>4, <1>5 DEF Beyond, Recording
    <3> QED
      BY <1>7, <2>2, <3>1, <3>2
  <2>3. CASE k # i
    <3>1. Recording(r, w, P, k) => Recording(r, w, S, k)
      BY DEF Recording, StillEnding
    <3>2. Attempted(r, w, P) => Attempted(r, w, S)
      BY DEF Attempted, NoneEnters
    <3> QED
      BY <2>1, <2>3, <3>1, <3>2
  <2> QED
    BY <2>2, <2>3
<1> QED
  BY <1>6, <1>8, <1>9 DEF Sane

\* ... when its row is reset to lead nowhere (Begins and the end of a run), ...
LEMMA Blanking ==
  ASSUME NEW r, NEW w, NEW v, NEW Q, NEW D, NEW T, NEW P, NEW S, NEW p, NEW g,
         Sane(r, w, Q, D, T, P), v.cursor = 0, v.status # "waiting",
         Carried(r, Q, P, S, p, g)
  PROVE  Sane(r, v, Q, D, T, S)
<1> DEFINE A == Abled(r, Q, P)
           B == Abled(r, Q, S)
<1>1. \A u \in B : \/ u \in A /\ (u # p \/ p = g)
                   \/ p \in A /\ u = g /\ Kin(p[3], g[3])
  BY CarriedAble DEF Calmer
<1>2. Crowd(r, v, Q, S)
  <2> SUFFICES ASSUME NEW i \in DOMAIN Flow[r], Open(<<r, i>>, Q), NEW u \in B
               PROVE  Ready(u[3]) /\ u[3].at = i
    BY DEF Crowd
  <2>1. \A x \in A : Ready(x[3]) /\ x[3].at = i /\ x[3].run = r
    BY DEF Crowd, Sane, Abled
  <2>2. CASE p \in A /\ u = g /\ Kin(p[3], g[3])
    <3>1. <<p[3].run, p[3].at>> \in Question
      BY <2>1, <2>2 DEF Open
    <3>2. Ready(g[3]) \/ Gone(g[3])
      BY <2>2 DEF Abled, Able
    <3> QED
      BY <2>1, <2>2, <3>1, <3>2, ReadyNotGone DEF Kin
  <2> QED
    BY <1>1, <2>1, <2>2
<1>3. Alone(r, v, Q, S)
  BY <1>1 DEF Alone, Sane
<1>4. Near(r, v, Q, S) /\ OneOpen(r, Q)
  BY DEF Near, Sane
<1>5. Past(r, Q, S)
  BY <1>1 DEF Past, Sane, Kin, Abled
<1>6. OnceOut(r, v, Q, D, T, S)
  <2> SUFFICES ASSUME NEW i \in DOMAIN Flow[r], <<r, i>> \notin T, ~Flow[r][i].idempotent,
                      D[<<r, i>>] # 0, NEW u \in B
               PROVE  u[3].at > i \/ (u[3].at = i /\ Passing(u[3]))
    BY DEF OnceOut, Sane, Beyond
  <2>1. \A x \in A : x[3].at > i \/ (x[3].at = i /\ Passing(x[3]))
    BY DEF OnceOut, Sane
  <2>2. CASE p \in A /\ u = g /\ Kin(p[3], g[3])
    <3>1. Ready(g[3]) \/ Gone(g[3])
      BY <2>2 DEF Abled, Able
    <3> QED
      BY <2>1, <2>2, <3>1 DEF Kin
  <2> QED
    BY <1>1, <2>1, <2>2
<1> QED
  BY <1>2, <1>3, <1>4, <1>5, <1>6 DEF Sane

\* ... when a call is recorded as parked where it stands (Record, Push), ...
LEMMA Parking ==
  ASSUME NEW r, NEW w, NEW v, NEW Q, NEW D, NEW T, NEW P, NEW S, NEW p,
         Sane(r, w, Q, D, T, P),
         p \in P, p[3].run = r, Ready(p[3]), v.status = "waiting", v.cursor = p[3].at,
         \A u \in S : u[3].run = r => (u \in P /\ u # p) \/ ~Able(u[3], Q)
  PROVE  Sane(r, v, Q, D, T, S)
<1> DEFINE A == Abled(r, Q, P)
           B == Abled(r, Q, S)
           i == p[3].at
<1>1. \A u \in B : u \in A /\ u # p
  BY DEF Abled
<1>2. p \in A \/ Closed(<<r, i>>, Q)
  BY DEF Abled, Able
<1>3. Crowd(r, v, Q, S) /\ OneOpen(r, Q)
  <2>1. ASSUME NEW j \in DOMAIN Flow[r], Open(<<r, j>>, Q)
        PROVE  /\ \A u \in B : Ready(u[3]) /\ u[3].at = j
               /\ v.cursor \in {0, j} \/ Closed(<<r, v.cursor>>, Q)
    BY <1>1, <1>2, <2>1 DEF Crowd, Sane
  <2> QED
    BY <2>1 DEF Crowd, Sane
<1>4. Alone(r, v, Q, S)
  BY <1>1, <1>2 DEF Alone, Sane
<1>5. Near(r, v, Q, S)
  <2>1. CASE \E j \in DOMAIN Flow[r] : Open(<<r, j>>, Q)
    BY <1>1, <1>2, <2>1 DEF Near, Sane, Crowd
  <2>2. CASE \A j \in DOMAIN Flow[r] : ~Open(<<r, j>>, Q)
    BY <1>1, <1>2, <2>2 DEF Near, Sane, Alone
  <2> QED
    BY <2>1, <2>2
<1>6. Past(r, Q, S)
  BY <1>1 DEF Past, Sane
<1>7. OnceOut(r, v, Q, D, T, S)
  <2> SUFFICES ASSUME NEW k \in DOMAIN Flow[r], <<r, k>> \notin T, ~Flow[r][k].idempotent,
                      D[<<r, k>>] # 0
               PROVE  Beyond(r, v, Q, k)
    BY <1>1 DEF OnceOut, Sane
  <2>1. p \in A => i > k
    BY ReadyNotGone DEF OnceOut, Sane, Gone
  <2> QED
    BY <1>2, <2>1 DEF Beyond
<1> QED
  BY <1>3, <1>4, <1>5, <1>6, <1>7 DEF Sane

\* ... when a step is recorded and the next one is entered (Record), ...
LEMMA Advancing ==
  ASSUME NEW r \in Run, NEW w, NEW v, NEW Q, NEW D, NEW T, NEW P, NEW S, NEW p, NEW g,
         Sane(r, w, Q, D, T, P),
         p \in P, p[3].run = r, Passing(p[3]), p[3].at \in Nat,
         g[3].at = p[3].at + 1, Ready(g[3]),
         v.status # "waiting", v.cursor = p[3].at + 1, Succeeds(r, P, S, p, g)
  PROVE  Sane(r, v, Q, D, T, S)
<1> USE DEF Succeeds
<1> DEFINE A == Abled(r, Q, P)
           B == Abled(r, Q, S)
           i == p[3].at
<1>1. p \in A /\ ~Ready(p[3])
  BY ReadyNotGone DEF Abled, Able, Gone
<1>2. \A j \in DOMAIN Flow[r] : ~Open(<<r, j>>, Q)
  BY <1>1 DEF Sane, Crowd
<1>3. \A u \in B : u = g
  <2>1. \A u \in A : u = p
    BY <1>1, <1>2 DEF Alone, Sane
  <2> QED
    BY <2>1 DEF Abled
<1>4. OneOpen(r, Q) /\ Crowd(r, v, Q, S) /\ Alone(r, v, Q, S) /\ Near(r, v, Q, S)
  BY <1>2, <1>3 DEF OneOpen, Crowd, Alone, Near
<1>5. Past(r, Q, S)
  BY <1>3, ReadyNotGone DEF Past
<1>6. OnceOut(r, v, Q, D, T, S)
  <2> SUFFICES ASSUME NEW k \in DOMAIN Flow[r], <<r, k>> \notin T, ~Flow[r][k].idempotent,
                      D[<<r, k>>] # 0
               PROVE  /\ D[<<r, k>>] = 1 /\ i + 1 > k
                      /\ <<r, k>> \in Question => Q[<<r, k>>].status = "consumed"
    BY <1>2, <1>3 DEF OnceOut, Beyond
  <2>1. /\ D[<<r, k>>] = 1 /\ (i > k \/ i = k)
        /\ <<r, k>> \in Question => Q[<<r, k>>].status = "consumed"
    BY <1>1 DEF OnceOut, Sane
  <2>2. k \in Nat
    BY Runs
  <2> QED
    BY <2>1, <2>2
<1> QED
  BY <1>4, <1>5, <1>6 DEF Sane

\* Another call of the run starts at a step where it may, or at a closed
\* question, where it cannot do anything.
Joins(r, w, v, Q, D, T, P, c) ==
  /\ (\A j \in DOMAIN Flow[r] : ~Open(<<r, j>>, Q)) =>
       Abled(r, Q, P) = {} /\ v.status # "waiting"
  /\ \A j \in DOMAIN Flow[r] : Open(<<r, j>>, Q) => c = j
  /\ w.cursor \in {0, c} \/ Closed(<<r, w.cursor>>, Q)
  /\ \A i \in DOMAIN Flow[r] :
       <<r, i>> \notin T /\ ~Flow[r][i].idempotent /\ D[<<r, i>>] # 0 => c > i

\* A run stays in order when a call enters that may join.
LEMMA Entering ==
  ASSUME NEW r, NEW w, NEW v, NEW Q, NEW D, NEW T, NEW P, NEW S, NEW g,
         Sane(r, w, Q, D, T, P), v.cursor = w.cursor,
         \/ v.status = w.status /\ v.attempt = w.attempt
         \/ w.status = "waiting" /\ v.status = "running",
         Ready(g[3]), g[3].run = r, ~Entered(g[3]),
         Closed(<<r, g[3].at>>, Q) \/ Joins(r, w, v, Q, D, T, P, g[3].at),
         \A u \in S : u[3].run = r => u \in P \/ u = g,
         P \subseteq S
  PROVE  Sane(r, v, Q, D, T, S)
<1> DEFINE A == Abled(r, Q, P)
           B == Abled(r, Q, S)
           c == g[3].at
<1>1. \A u \in B : u \in A \/ (u = g /\ Joins(r, w, v, Q, D, T, P, c))
  BY ReadyNotGone DEF Abled, Able
<1>2. Crowd(r, v, Q, S) /\ OneOpen(r, Q)
  BY <1>1 DEF Crowd, Sane, Joins
<1>3. Alone(r, v, Q, S)
  <2> SUFFICES ASSUME \A j \in DOMAIN Flow[r] : ~Open(<<r, j>>, Q)
               PROVE  /\ \A a, b \in B : a = b
                      /\ v.status = "waiting" /\ ~Closed(<<r, v.cursor>>, Q) => B = {}
    BY DEF Alone
  <2>1. /\ \A a, b \in A : a = b
        /\ w.status = "waiting" /\ ~Closed(<<r, w.cursor>>, Q) => A = {}
    BY DEF Alone, Sane
  <2>2. Joins(r, w, v, Q, D, T, P, c) => A = {} /\ v.status # "waiting"
    BY DEF Joins
  <2> QED
    BY <1>1, <2>1, <2>2
<1>4. Near(r, v, Q, S)
  BY <1>1 DEF Near, Sane, Joins
<1>5. Past(r, Q, S)
  BY <1>1, ReadyNotGone DEF Past, Sane
<1>6. OnceOut(r, v, Q, D, T, S)
  <2> SUFFICES ASSUME NEW k \in DOMAIN Flow[r], <<r, k>> \notin T, ~Flow[r][k].idempotent,
                      D[<<r, k>>] # 0
               PROVE  /\ \A u \in B : u[3].at > k \/ (u[3].at = k /\ Passing(u[3]))
                      /\ Beyond(r, v, Q, k) \/ Recording(r, v, S, k) \/ Attempted(r, v, S)
    BY DEF OnceOut, Sane
  <2>1. /\ \A u \in A : u[3].at > k \/ (u[3].at = k /\ Passing(u[3]))
        /\ Beyond(r, w, Q, k) \/ Recording(r, w, P, k) \/ Attempted(r, w, P)
    BY DEF OnceOut, Sane
  <2>2. Beyond(r, w, Q, k) => Beyond(r, v, Q, k)
    BY DEF Beyond
  <2>3. Recording(r, w, P, k) => Recording(r, v, S, k)
    BY DEF Recording
  <2>4. Attempted(r, w, P) => Attempted(r, v, S)
    BY DEF Attempted
  <2>5. Joins(r, w, v, Q, D, T, P, c) => c > k
    BY DEF Joins
  <2> QED
    BY <1>1, <2>1, <2>2, <2>3, <2>4, <2>5
<1> QED
  BY <1>2, <1>3, <1>4, <1>5, <1>6 DEF Sane

\* ... when its first call does, ...
LEMMA Beginning ==
  ASSUME NEW r, NEW w, NEW Q, NEW D, NEW T, NEW S, NEW g,
         w.status # "waiting", w.cursor = 0, Ready(g[3]),
         \A i \in DOMAIN Flow[r] : D[<<r, i>>] = 0,
         \A q \in Question : q[1] = r => Q[q].status = "none",
         \A u \in S : u[3].run = r => u = g
  PROVE  Sane(r, w, Q, D, T, S)
<1>1. \A i : ~Open(<<r, i>>, Q)
  BY DEF Open
<1>2. \A u \in Abled(r, Q, S) : u = g
  BY DEF Abled
<1>3. OneOpen(r, Q) /\ Crowd(r, w, Q, S) /\ Alone(r, w, Q, S) /\ Near(r, w, Q, S)
  BY <1>1, <1>2 DEF OneOpen, Crowd, Alone, Near
<1>4. Past(r, Q, S) /\ OnceOut(r, w, Q, D, T, S)
  BY <1>2, ReadyNotGone DEF Past, OnceOut
<1> QED
  BY <1>3, <1>4 DEF Sane

\* ... and when the process dies: what it had not told is torn.
LEMMA Crashing ==
  ASSUME NEW r, NEW w, NEW Q, NEW D, NEW T, NEW X, NEW P, Sane(r, w, Q, D, T, P),
         T \subseteq X, w.cursor # 0 => w.status \in {"running", "waiting"},
         \A i \in DOMAIN Flow[r] : /\ i # 0
                                   /\ D[<<r, i>>] # 0 => HasEffect(r, i) \/ <<r, i>> \in Question,
         \A u \in P : u[3].run = r /\ Ending(u[3]) /\ HasEffect(r, u[3].at) =>
           <<r, u[3].at>> \in X \/ w.attempt = u[3].at
  PROVE  Sane(r, w, Q, D, X, {})
<1>1. Abled(r, Q, {}) = {}
  BY DEF Abled
<1>2. OneOpen(r, Q) /\ Crowd(r, w, Q, {}) /\ Alone(r, w, Q, {}) /\ Near(r, w, Q, {})
      /\ Past(r, Q, {})
  BY <1>1 DEF Sane, OneOpen, Crowd, Alone, Near, Past
<1>3. OnceOut(r, w, Q, D, X, {})
  <2> SUFFICES ASSUME NEW k \in DOMAIN Flow[r], <<r, k>> \notin X, ~Flow[r][k].idempotent,
                      D[<<r, k>>] # 0
               PROVE  /\ D[<<r, k>>] = 1
                      /\ \A j \in DOMAIN Flow[r] : Open(<<r, j>>, Q) => j > k
                      /\ <<r, k>> \in Question => Q[<<r, k>>].status = "consumed"
                      /\ Beyond(r, w, Q, k) \/ Attempted(r, w, {})
    BY <1>1 DEF OnceOut
  <2>1. /\ D[<<r, k>>] = 1
        /\ \A j \in DOMAIN Flow[r] : Open(<<r, j>>, Q) => j > k
        /\ <<r, k>> \in Question => Q[<<r, k>>].status = "consumed"
        /\ Beyond(r, w, Q, k) \/ Recording(r, w, P, k) \/ Attempted(r, w, P)
    BY DEF OnceOut, Sane
  <2>2. Attempted(r, w, P) => Attempted(r, w, {})
    BY DEF Attempted
  <2>3. ASSUME Recording(r, w, P, k) PROVE Beyond(r, w, Q, k) \/ Attempted(r, w, {})
    <3>1. CASE <<r, k>> \in Question
      BY <2>1, <2>3, <3>1 DEF Beyond, Recording, Closed
    <3>2. CASE <<r, k>> \notin Question
      <4>1. w.attempt = k
        BY <2>3, <3>2 DEF Recording
      <4>2. w.status = "running"
        BY <2>3 DEF Recording
      <4> QED
        BY <4>1, <4>2 DEF Attempted
    <3> QED
      BY <3>1, <3>2
  <2> QED
    BY <2>1, <2>2, <2>3
<1> QED
  BY <1>2, <1>3 DEF Sane
-----------------------------------------------------------------------------
\* The places of the calls, and how they change.
LEMMA PushedPlaces ==
  ASSUME NEW t, NEW S, NEW u \in Seq(S), NEW f
  PROVE  Places(t, <<f>> \o u) = {<<t, Len(u) + 1, f>>} \cup Places(t, u)
<1> DEFINE s == <<f>> \o u
<1>1. u \in Seq(S \cup {f}) /\ <<f>> \in Seq(S \cup {f})
  OBVIOUS
<1>2. /\ Len(u) \in Nat /\ DOMAIN u = 1 .. Len(u) /\ DOMAIN s = 1 .. (1 + Len(u))
      /\ Len(s) = 1 + Len(u)
      /\ s[1] = f /\ \A i \in 1 .. Len(u) : s[i + 1] = u[i]
  BY <1>1
<1> HIDE DEF s
<1>3. ASSUME NEW k \in DOMAIN s
      PROVE  <<t, Len(s) + 1 - k, s[k]>> \in {<<t, Len(u) + 1, f>>} \cup Places(t, u)
  <2>1. CASE k = 1
    <3>1. Len(s) + 1 - k = Len(u) + 1
      BY <1>2, <2>1
    <3> QED
      BY <1>2, <2>1, <3>1
  <2>2. CASE k # 1
    <3>1. k - 1 \in DOMAIN u /\ s[k] = u[k - 1] /\ Len(s) + 1 - k = Len(u) + 1 - (k - 1)
      BY <1>2, <2>2
    <3> QED
      BY <3>1 DEF Places
  <2> QED
    BY <2>1, <2>2
<1>4. <<t, Len(u) + 1, f>> \in Places(t, s)
  <2>1. 1 \in DOMAIN s /\ Len(s) + 1 - 1 = Len(u) + 1 /\ s[1] = f
    BY <1>2
  <2> QED
    BY <2>1 DEF Places
<1>5. ASSUME NEW k \in DOMAIN u PROVE <<t, Len(u) + 1 - k, u[k]>> \in Places(t, s)
  <2>1. k + 1 \in DOMAIN s /\ s[k + 1] = u[k] /\ Len(s) + 1 - (k + 1) = Len(u) + 1 - k
    BY <1>2
  <2> QED
    BY <2>1 DEF Places
<1>6. Places(t, s) \subseteq {<<t, Len(u) + 1, f>>} \cup Places(t, u)
  BY <1>3 DEF Places
<1>7. Places(t, u) \subseteq Places(t, s)
  BY <1>5 DEF Places
<1> QED
  BY <1>4, <1>6, <1>7 DEF s

\* What lies under a call, place by place.
LEMMA UnderPlaces ==
  ASSUME NEW t, NEW u \in Unders
  PROVE  /\ Len(u) \in Nat
         /\ \A x \in Places(t, u) : /\ x[1] = t /\ x[2] \in 1 .. Len(u) /\ x[3] \in Frames
                                    /\ x[3].pc \in {"nested", "return", "children"}
<1> DEFINE W == {f \in Frames : f.pc \in {"nested", "return", "children"}}
<1>1. u \in Seq(W) /\ Len(u) \in Nat
  BY DEF Unders
<1> HIDE DEF W
<1>2. ASSUME NEW k \in DOMAIN u
      PROVE  u[k] \in W /\ Len(u) + 1 - k \in 1 .. Len(u)
  BY <1>1
<1>3. \A x \in Places(t, u) : x[1] = t /\ x[2] \in 1 .. Len(u) /\ x[3] \in W
  BY <1>2 DEF Places
<1> QED
  BY <1>1, <1>3 DEF W

\* The place of the call that moves, and of the one under it.
Spot(t) == <<t, Len(Under(t)) + 1, Top(t)>>
Low(t)  == <<t, Len(Tail(Under(t))) + 1, Head(Under(t))>>
Resumed(t) == Under(t) # <<>> /\ Head(Under(t)).pc = "nested"
CameTo(t)  == <<t, Len(Tail(Under(t))) + 1, Delegated(Head(Under(t)), Top(t).end)>>
\* The places once the call of t returned.
Back(t) == IF Resumed(t) THEN (Placed \ {Spot(t), Low(t)}) \cup {CameTo(t)}
           ELSE Placed \ {Spot(t)}

Others(t) == {u \in Placed : u[1] # t}

\* The places of a thread: its top, and those under it.
LEMMA StackPlaces ==
  ASSUME Threads, NEW t \in Thread, thread[t] # <<>>
  PROVE  /\ Under(t) \in Unders /\ Top(t) \in Frames
         /\ Places(t, thread[t]) = {Spot(t)} \cup Places(t, Under(t))
         /\ Spot(t) \in Placed /\ Places(t, Under(t)) \subseteq Placed
         /\ Others(t) \cup Places(t, Under(t)) = Placed \ {Spot(t)}
         /\ \A u \in Placed : u[1] = t => u = Spot(t) \/ u \in Places(t, Under(t))
<1>1. thread[t] \in Stacks /\ Under(t) \in Unders /\ Top(t) \in Frames
  BY Popped DEF Threads, Under, Top
<1>2. thread[t] = <<Top(t)>> \o Under(t)
  BY <1>1 DEF Stacks, Top, Under
<1>3. Places(t, thread[t]) = {Spot(t)} \cup Places(t, Under(t))
  <2>1. Places(t, <<Top(t)>> \o Under(t)) = {Spot(t)} \cup Places(t, Under(t))
    BY <1>1, PushedPlaces DEF Unders, Spot
  <2> QED
    BY <1>2, <2>1, Zenon
<1>4. \A u \in Places(t, Under(t)) : u[2] \in 1 .. Len(Under(t)) /\ u # Spot(t)
  BY <1>1, UnderPlaces DEF Spot
<1>5. \A v \in Thread : \A u \in Places(v, thread[v]) : u[1] = v
  BY DEF Places
<1>6. \A u \in Placed : u[1] = t => u = Spot(t) \/ u \in Places(t, Under(t))
  BY <1>3, <1>5 DEF Placed
<1>7. Spot(t) \in Placed /\ Places(t, Under(t)) \subseteq Placed
  BY <1>3 DEF Placed
<1>8. Spot(t)[1] = t
  BY DEF Spot
<1> HIDE DEF Spot
<1>9. Others(t) \cup Places(t, Under(t)) = Placed \ {Spot(t)}
  BY <1>4, <1>6, <1>7, <1>8 DEF Others
<1> QED
  BY <1>1, <1>3, <1>6, <1>7, <1>9

\* How each way of changing a thread moves the places.
LEMMA PlacesChanged ==
  ASSUME Threads, NEW t \in Thread, NEW s, thread' = [thread EXCEPT ![t] = s]
  PROVE  Placed' = Others(t) \cup Places(t, s)
<1>1. \A v \in Thread : thread'[v] = IF v = t THEN s ELSE thread[v]
  BY DEF Threads
<1>2. Placed' = UNION {Places(v, thread'[v]) : v \in Thread}
  BY DEF Placed, Places
<1>3. \A v \in Thread : \A u \in Places(v, thread[v]) : u[1] = v
  BY DEF Places
<1>4. \A u \in Places(t, s) : u[1] = t
  BY DEF Places
<1> QED
  BY <1>1, <1>2, <1>3, <1>4 DEF Placed, Others

LEMMA BecomePlaces ==
  ASSUME Threads, NEW t \in Thread, thread[t] # <<>>, NEW f, Become(t, f)
  PROVE  Placed' = (Placed \ {Spot(t)}) \cup {<<t, Len(Under(t)) + 1, f>>}
<1> DEFINE s == <<f>> \o Under(t)
<1>1. thread' = [thread EXCEPT ![t] = s]
  BY DEF Become, Under
<1>2. Places(t, s) = {<<t, Len(Under(t)) + 1, f>>} \cup Places(t, Under(t))
  BY StackPlaces, PushedPlaces DEF Unders
<1> HIDE DEF s
<1>3. Placed' = Others(t) \cup Places(t, s)
  BY <1>1, PlacesChanged
<1>4. Others(t) \cup Places(t, Under(t)) = Placed \ {Spot(t)}
  BY StackPlaces
<1> QED
  BY <1>2, <1>3, <1>4

LEMMA CallOutPlaces ==
  ASSUME Threads, NEW t \in Thread, thread[t] # <<>>, NEW f, NEW g, CallOut(t, f, g)
  PROVE  \/ /\ f.pc = "return"
            /\ Placed' = (Placed \ {Spot(t)}) \cup {<<t, Len(Under(t)) + 1, g>>}
         \/ Placed' = (Placed \ {Spot(t)}) \cup {<<t, Len(Under(t)) + 1, f>>,
                                                 <<t, Len(Under(t)) + 2, g>>}
<1>0. Others(t) \cup Places(t, Under(t)) = Placed \ {Spot(t)}
  BY StackPlaces
<1>1. CASE f.pc = "return" /\ Under(t) = <<>>
  <2>1. thread' = [thread EXCEPT ![t] = <<g>>]
    BY <1>1 DEF CallOut
  <2>2. Places(t, <<g>>) = {<<t, 1, g>>} /\ Places(t, Under(t)) = {} /\ Len(Under(t)) = 0
    BY <1>1 DEF Places
  <2> QED
    <3>1. Placed' = Others(t) \cup Places(t, <<g>>)
      BY <2>1, PlacesChanged
    <3>2. <<t, Len(Under(t)) + 1, g>> = <<t, 1, g>>
      BY <2>2
    <3> QED
      BY <1>0, <1>1, <2>2, <3>1, <3>2
<1>2. CASE ~(f.pc = "return" /\ Under(t) = <<>>)
  <2> DEFINE W == {h \in Frames : h.pc \in {"nested", "return", "children"}}
             u == <<f>> \o Under(t)
             s == <<g>> \o u
  <2>1. Under(t) \in Seq(W) /\ Len(Under(t)) \in Nat
    BY StackPlaces DEF Unders
  <2> HIDE DEF W
  <2>2. /\ Places(t, u) = {<<t, Len(Under(t)) + 1, f>>} \cup Places(t, Under(t))
        /\ u \in Seq(W \cup {f}) /\ Len(u) = Len(Under(t)) + 1
    BY <2>1, PushedPlaces, PushedFrames
  <2>3. thread' = [thread EXCEPT ![t] = s]
    BY <1>2 DEF CallOut
  <2> HIDE DEF u
  <2>4. Places(t, s) = {<<t, Len(u) + 1, g>>} \cup Places(t, u)
    BY <2>2, PushedPlaces
  <2>5. Len(u) + 1 = Len(Under(t)) + 2
    BY <2>1, <2>2
  <2> HIDE DEF s
  <2>6. Placed' = Others(t) \cup Places(t, s)
    BY <2>3, PlacesChanged
  <2> QED
    BY <1>0, <2>2, <2>4, <2>5, <2>6
<1> QED
  BY <1>1, <1>2

LEMMA SpawnPlaces ==
  ASSUME Threads, NEW f, Spawn(f)
  PROVE  New \in Thread /\ Placed' = Placed \cup {<<New, 1, f>>}
<1>1. New \in Thread /\ thread[New] = <<>> /\ thread' = [thread EXCEPT ![New] = <<f>>]
  BY DEF Spawn, New, Free
<1>2. Places(New, <<f>>) = {<<New, 1, f>>} /\ Places(New, <<>>) = {}
  BY DEF Places
<1>3. \A v \in Thread : \A u \in Places(v, thread[v]) : u[1] = v
  BY DEF Places
<1>4. \A u \in Placed : u[1] # New
  BY <1>1, <1>2, <1>3 DEF Placed
<1>5. Placed' = Others(New) \cup Places(New, <<f>>)
  BY <1>1, PlacesChanged
<1> QED
  BY <1>1, <1>2, <1>4, <1>5 DEF Others

LEMMA LowPlace ==
  ASSUME Threads, NEW t \in Thread, thread[t] # <<>>, Resumed(t)
  PROVE  /\ Low(t) \in Placed /\ Low(t) # Spot(t) /\ Head(Under(t)) \in Frames
         /\ Tail(Under(t)) \in Unders
         /\ Places(t, Under(t)) = {Low(t)} \cup Places(t, Tail(Under(t)))
         /\ Low(t) \notin Places(t, Tail(Under(t)))
         /\ Len(Tail(Under(t))) \in Nat /\ Len(Under(t)) = Len(Tail(Under(t))) + 1
<1> DEFINE u == Under(t)
           W == {h \in Frames : h.pc \in {"nested", "return", "children"}}
<1>1. u \in Unders /\ u \in Stacks /\ Head(u) \in Frames /\ Tail(u) \in Unders /\ u # <<>>
  BY StackPlaces, UnderIsStack DEF Resumed
<1>2. u \in Seq(W) /\ Tail(u) \in Seq(W)
  BY <1>1 DEF Unders
<1> HIDE DEF W
<1>3. u = <<Head(u)>> \o Tail(u) /\ Len(u) = Len(Tail(u)) + 1 /\ Len(Tail(u)) \in Nat
  BY <1>1, <1>2
<1>4. Places(t, <<Head(u)>> \o Tail(u)) = {Low(t)} \cup Places(t, Tail(u))
  BY <1>2, PushedPlaces DEF Low
<1>5. Places(t, u) = {Low(t)} \cup Places(t, Tail(u))
  BY <1>3, <1>4, Zenon
<1>6. Low(t) \notin Places(t, Tail(u))
  <2>1. \A x \in Places(t, Tail(u)) : x[2] \in 1 .. Len(Tail(u))
    BY <1>1, UnderPlaces
  <2>2. Low(t)[2] = Len(Tail(u)) + 1
    BY DEF Low
  <2>3. Len(Tail(u)) + 1 \notin 1 .. Len(Tail(u))
    BY <1>3
  <2> HIDE DEF u
  <2> QED
    BY <2>1, <2>2, <2>3
<1>7. Low(t) \in Placed /\ Low(t) # Spot(t)
  BY <1>5, StackPlaces
<1> QED
  BY <1>1, <1>3, <1>5, <1>6, <1>7

LEMMA ReturnedPlaces ==
  ASSUME Threads, NEW t \in Thread, thread[t] # <<>>
  PROVE  Others(t) \cup Places(t, Returned(t)) = Back(t)
<1>0. Others(t) \cup Places(t, Under(t)) = Placed \ {Spot(t)}
  BY StackPlaces
<1>1. CASE Resumed(t)
  <2>1. Returned(t) = <<Delegated(Head(Under(t)), Top(t).end)>> \o Tail(Under(t))
    BY <1>1 DEF Returned, Resumed
  <2>2. Places(t, <<Delegated(Head(Under(t)), Top(t).end)>> \o Tail(Under(t)))
          = {CameTo(t)} \cup Places(t, Tail(Under(t)))
    BY <1>1, LowPlace, PushedPlaces DEF CameTo, Unders
  <2>3. Low(t) \notin Others(t)
    BY DEF Low, Others
  <2>4. Others(t) \cup Places(t, Tail(Under(t))) = Placed \ {Spot(t), Low(t)}
    BY <1>0, <1>1, <2>3, LowPlace
  <2> QED
    BY <1>1, <2>1, <2>2, <2>4 DEF Back
<1>2. CASE ~Resumed(t)
  BY <1>0, <1>2 DEF Returned, Resumed, Back
<1> QED
  BY <1>1, <1>2

LEMMA ReturnsPlaces ==
  ASSUME Threads, NEW t \in Thread, thread[t] # <<>>, Returns(t)
  PROVE  Placed' = Back(t)
<1>1. thread' = [thread EXCEPT ![t] = Returned(t)]
  BY DEF Returns
<1> QED
  BY <1>1, PlacesChanged, ReturnedPlaces

LEMMA ForkPlaces ==
  ASSUME Threads, NEW t \in Thread, thread[t] # <<>>, Free # {}, NEW f,
         thread' = [thread EXCEPT ![t] = Returned(t), ![New] = <<f>>]
  PROVE  Placed' = Back(t) \cup {<<New, 1, f>>}
<1>1. New \in Thread /\ New # t /\ thread[New] = <<>>
  BY DEF New, Free
<1>2. \A v \in Thread : thread'[v] = IF v = New THEN <<f>>
                                     ELSE IF v = t THEN Returned(t) ELSE thread[v]
  BY <1>1 DEF Threads
<1>3. Placed' = UNION {Places(v, thread'[v]) : v \in Thread}
  BY DEF Placed, Places
<1>4. \A v \in Thread : \A u \in Places(v, thread[v]) : u[1] = v
  BY DEF Places
<1>5. Places(New, <<f>>) = {<<New, 1, f>>} /\ Places(New, <<>>) = {}
  BY DEF Places
<1>6. \A u \in Placed : u[1] # New
  BY <1>1, <1>4, <1>5 DEF Placed
<1>7. Placed' = Others(t) \cup Places(t, Returned(t)) \cup {<<New, 1, f>>}
  <2>1. /\ Places(New, thread'[New]) = {<<New, 1, f>>}
        /\ Places(t, thread'[t]) = Places(t, Returned(t))
        /\ \A v \in Thread : v # New /\ v # t => Places(v, thread'[v]) = Places(v, thread[v])
    BY <1>1, <1>2, <1>5
  <2>2. \A u \in Others(t) : \E v \in Thread : v # t /\ v # New /\ u \in Places(v, thread[v])
    BY <1>4, <1>6 DEF Placed, Others
  <2>3. \A v \in Thread : v # t => Places(v, thread[v]) \subseteq Others(t)
    BY <1>4 DEF Placed, Others
  <2>4. \A v \in Thread : v = t \/ v = New \/ (v # t /\ v # New)
    OBVIOUS
  <2>5. \A u \in Placed' : u \in Others(t) \/ u \in Places(t, Returned(t)) \/ u = <<New, 1, f>>
    BY <1>3, <2>1, <2>3, <2>4
  <2>6. Others(t) \subseteq Placed'
    BY <1>3, <2>1, <2>2
  <2>7. Places(t, Returned(t)) \subseteq Placed' /\ <<New, 1, f>> \in Placed'
    BY <1>1, <1>3, <2>1
  <2> QED
    BY <2>5, <2>6, <2>7
<1> QED
  BY <1>7, ReturnedPlaces
-----------------------------------------------------------------------------
\* A call that neither passes its question nor leaves its step.
LEMMA KinStep ==
  ASSUME NEW r, NEW w, NEW v, NEW Q, NEW R, NEW D, NEW E, NEW T, NEW P, NEW S, NEW p \in P, NEW g,
         Sane(r, w, Q, D, T, P), Calmer(r, Q, R),
         \A i \in DOMAIN Flow[r] : E[<<r, i>>] = D[<<r, i>>],
         v.status = w.status, v.cursor = w.cursor,
         v.attempt = w.attempt \/ (p[3].run = r /\ Entered(p[3])),
         S = (P \ {p}) \cup {g},
         Kin(p[3], g[3]) \/ ~(Ready(g[3]) \/ Gone(g[3])),
         Entered(g[3]) => g[3].run = p[3].run /\ Entered(p[3]),
         Ending(p[3]) => g[3].run = p[3].run /\ g[3].at = p[3].at /\ Ending(g[3])
  PROVE  Sane(r, v, R, E, T, S)
<1>1. Carried(r, R, P, S, p, g)
  BY DEF Carried, Able
<1>2. NoneEnters(r, P, S)
  BY DEF NoneEnters
<1>3. StillEnding(r, P, S)
  BY DEF StillEnding
<1> QED
  BY <1>1, <1>2, <1>3, Steady

\* What does not concern the run.
LEMMA Elsewhere ==
  ASSUME NEW r, NEW w, NEW Q, NEW R, NEW D, NEW E, NEW T, NEW P, NEW S,
         Sane(r, w, Q, D, T, P), \A q \in Question : q[1] = r => R[q] = Q[q],
         \A i \in DOMAIN Flow[r] : E[<<r, i>>] = D[<<r, i>>],
         \A u : u[3].run = r => (u \in S <=> u \in P)
  PROVE  Sane(r, w, R, E, T, S)
<1>1. Calmer(r, Q, R)
  <2> SUFFICES ASSUME NEW i, <<r, i>> \in Question PROVE R[<<r, i>>] = Q[<<r, i>>]
    BY DEF Calmer, Closed
  <2> QED
    OBVIOUS
<1>2. Carried(r, R, P, S, 0, 0)
  BY DEF Carried
<1>3. NoneEnters(r, P, S) /\ StillEnding(r, P, S)
  BY DEF NoneEnters, StillEnding
<1> QED
  BY <1>1, <1>2, <1>3, Steady

\* Calls that can do nothing more come or go.
LEMMA IdleStep ==
  ASSUME NEW r, NEW w, NEW Q, NEW R, NEW D, NEW T, NEW P, NEW S,
         Sane(r, w, Q, D, T, P), Calmer(r, Q, R),
         \A u \in S : u[3].run = r => \/ u \in P
                                      \/ ~(Ready(u[3]) \/ Gone(u[3]) \/ Entered(u[3])),
         \A u \in P : u[3].run = r /\ Ending(u[3]) => u \in S
  PROVE  Sane(r, w, R, D, T, S)
<1>1. Carried(r, R, P, S, 0, 0)
  BY DEF Carried, Able
<1>2. NoneEnters(r, P, S) /\ StillEnding(r, P, S)
  BY DEF NoneEnters, StillEnding
<1> QED
  BY <1>1, <1>2, Steady

\* The reviewer's seat is resolved while nobody else is at the step.
LEMMA Seating ==
  ASSUME NEW r, NEW w, NEW Q, NEW D, NEW T, NEW P, NEW S, NEW p, NEW g,
         NEW i \in DOMAIN Flow[r], i \in Nat, Sane(r, w, Q, D, T, P),
         <<r, i>> \in Question, Q[<<r, i>>].status = "none",
         p \in Abled(r, Q, P), p[3].at = i, ~Passing(p[3]),
         g[3].at = i, g[3].pc = "seats",
         Replaced(r, P, S, p, g)
  PROVE  Sane(r, w, Q, D, T, S)
<1> USE DEF Replaced, Succeeds
<1> DEFINE A == Abled(r, Q, P)
           B == Abled(r, Q, S)
<1>1. \A j \in DOMAIN Flow[r] : ~Open(<<r, j>>, Q)
  <2> SUFFICES ASSUME NEW j \in DOMAIN Flow[r], Open(<<r, j>>, Q) PROVE FALSE
    OBVIOUS
  <2>1. i = j
    BY DEF Sane, Crowd
  <2> QED
    BY <2>1 DEF Open
<1>2. \A u \in A : u = p
  BY <1>1 DEF Alone, Sane
<1>3. \A u \in B : u = g
  BY <1>2 DEF Abled
<1>4. p \in A /\ (w.status = "waiting" => Closed(<<r, w.cursor>>, Q))
  BY <1>1 DEF Alone, Sane
<1>5. w.cursor \in {0, i} \/ Closed(<<r, w.cursor>>, Q)
  BY DEF Near, Sane
<1>6. OneOpen(r, Q) /\ Crowd(r, w, Q, S) /\ Alone(r, w, Q, S) /\ Near(r, w, Q, S)
  BY <1>1, <1>3, <1>4, <1>5 DEF OneOpen, Crowd, Alone, Near
<1>7. Past(r, Q, S)
  BY <1>3 DEF Past
<1>8. OnceOut(r, w, Q, D, T, S)
  <2> SUFFICES ASSUME NEW k \in DOMAIN Flow[r], <<r, k>> \notin T, ~Flow[r][k].idempotent,
                      D[<<r, k>>] # 0
               PROVE  /\ D[<<r, k>>] = 1 /\ i > k
                      /\ <<r, k>> \in Question => Q[<<r, k>>].status = "consumed"
                      /\ Beyond(r, w, Q, k) \/ Recording(r, w, S, k) \/ Attempted(r, w, S)
    BY <1>1, <1>3 DEF OnceOut
  <2>1. /\ D[<<r, k>>] = 1 /\ i > k
        /\ <<r, k>> \in Question => Q[<<r, k>>].status = "consumed"
        /\ Beyond(r, w, Q, k) \/ Recording(r, w, P, k) \/ Attempted(r, w, P)
    BY DEF OnceOut, Sane
  <2>2. Recording(r, w, P, k) => Recording(r, w, S, k)
    BY DEF Recording, StillEnding
  <2>3. Attempted(r, w, P) => Attempted(r, w, S)
    BY DEF Attempted, NoneEnters
  <2> QED
    BY <2>1, <2>2, <2>3
<1> QED
  BY <1>6, <1>7, <1>8 DEF Sane
-----------------------------------------------------------------------------
\* Where a call may join the others of its run: at the question it was resumed
\* for, at the step the run is parked at, and, with no call left, at the step the
\* boot resumes.
LEMMA QuestionJoins ==
  ASSUME NEW r, NEW w, NEW Q, NEW D, NEW T, NEW P, NEW c \in DOMAIN Flow[r],
         Sane(r, w, Q, D, T, P), <<r, c>> \in Question, Q[<<r, c>>].status # "none"
  PROVE  Closed(<<r, c>>, Q) \/ Joins(r, w, w, Q, D, T, P, c)
<1> SUFFICES ASSUME ~Closed(<<r, c>>, Q) PROVE Joins(r, w, w, Q, D, T, P, c)
  OBVIOUS
<1>1. Open(<<r, c>>, Q)
  BY DEF Open
<1>2. \A j \in DOMAIN Flow[r] : Open(<<r, j>>, Q) => c = j
  BY <1>1 DEF Sane, OneOpen
<1>3. w.cursor \in {0, c} \/ Closed(<<r, w.cursor>>, Q)
  BY <1>1 DEF Sane, Crowd
<1>4. ASSUME NEW i \in DOMAIN Flow[r], <<r, i>> \notin T, ~Flow[r][i].idempotent,
             D[<<r, i>>] # 0
      PROVE  c > i
  BY <1>1, <1>4 DEF Sane, OnceOut
<1> QED
  BY <1>1, <1>2, <1>3, <1>4 DEF Joins

\* ... whoever claims a parked run may, at the step it was parked at, ...
LEMMA ParkedJoins ==
  ASSUME NEW r, NEW w, NEW v, NEW Q, NEW D, NEW T, NEW P,
         Sane(r, w, Q, D, T, P), w.status = "waiting", w.cursor # 0, v.status # "waiting"
  PROVE  Closed(<<r, w.cursor>>, Q) \/ Joins(r, w, v, Q, D, T, P, w.cursor)
<1> DEFINE c == w.cursor
<1> SUFFICES ASSUME ~Closed(<<r, c>>, Q) PROVE Joins(r, w, v, Q, D, T, P, c)
  OBVIOUS
<1>1. (\A j \in DOMAIN Flow[r] : ~Open(<<r, j>>, Q)) => Abled(r, Q, P) = {}
  BY DEF Sane, Alone
<1>2. \A j \in DOMAIN Flow[r] : Open(<<r, j>>, Q) => c = j
  BY DEF Sane, Crowd
<1>3. ASSUME NEW i \in DOMAIN Flow[r], <<r, i>> \notin T, ~Flow[r][i].idempotent,
             D[<<r, i>>] # 0
      PROVE  c > i
  <2>1. Beyond(r, w, Q, i) \/ Recording(r, w, P, i) \/ Attempted(r, w, P)
    BY <1>3 DEF Sane, OnceOut
  <2> QED
    BY <2>1 DEF Beyond, Recording, Attempted
<1> QED
  BY <1>1, <1>2, <1>3 DEF Joins

\* ... and the boot, where no attempt is in flight.
LEMMA BootJoins ==
  ASSUME NEW r, NEW w, NEW Q, NEW D, NEW T, NEW P,
         Sane(r, w, Q, D, T, P), w.status = "running", w.cursor # 0,
         \A u \in P : u[3].run # r,
         w.attempt = 0 \/ Flow[r][w.attempt].idempotent
  PROVE  Closed(<<r, w.cursor>>, Q) \/ Joins(r, w, w, Q, D, T, P, w.cursor)
<1> DEFINE c == w.cursor
<1> SUFFICES ASSUME ~Closed(<<r, c>>, Q) PROVE Joins(r, w, w, Q, D, T, P, c)
  OBVIOUS
<1>1. Abled(r, Q, P) = {}
  BY DEF Abled
<1>2. \A j \in DOMAIN Flow[r] : Open(<<r, j>>, Q) => c = j
  BY DEF Sane, Crowd
<1>3. ASSUME NEW i \in DOMAIN Flow[r], <<r, i>> \notin T, ~Flow[r][i].idempotent,
             D[<<r, i>>] # 0
      PROVE  c > i
  <2>1. Beyond(r, w, Q, i) \/ Recording(r, w, P, i) \/ Attempted(r, w, P)
    BY <1>3 DEF Sane, OnceOut
  <2> QED
    BY <2>1 DEF Beyond, Recording, Attempted
<1> QED
  BY <1>1, <1>2, <1>3 DEF Joins
-----------------------------------------------------------------------------
\* A new call keeps order where its run has a row, or where it waits for one.
Fits(u, V, R, C, O) ==
  /\ FrameOK(u[3], R)
  /\ V[u[3].run].status = "none" => u[3].pc = "start" /\ Waited(u, O)
  /\ \A b \in C : b.run # u[3].run
  /\ u[3].op => C = {}
\* A call is not gone before the run it delegated returned.
ParentsStay(P, O) == \A u \in P, v \in P : u \in O /\ v[1] = u[1] /\ v[2] + 1 = u[2]
                                          /\ v[3].pc = "nested" => v \in O
QuestionsGo(Q, R) == \A q \in Question :
  /\ Q[q].status # "none" => R[q].status # "none"
  /\ R[q].resume => Q[q].resume \/ R[q].status # "none"
RowsGo(W, V, Q, R, D, E) == \A r \in Run :
  /\ Rests(V[r])
  /\ V[r].status = "none" =>
       /\ W[r].status = "none"
       /\ \A i \in DOMAIN Flow[r] : E[<<r, i>>] = D[<<r, i>>]
       /\ \A q \in Question : q[1] = r => R[q].status = Q[q].status
DoneGoes(D, E) == \A a \in At : E[a] # D[a] => HasEffect(a[1], a[2]) \/ a \in Question

\* What a step of any kind has to respect for the whole to stay in order.
LEMMA GlobalKept ==
  ASSUME NEW W, NEW Q, NEW X, NEW D, NEW B, NEW P, NEW V, NEW R, NEW Y, NEW E, NEW C, NEW O,
         Global(W, Q, X, D, B, P), QuestionsGo(Q, R), RowsGo(W, V, Q, R, D, E), DoneGoes(D, E),
         ParentsStay(P, O), \A u \in O : u \in P \/ Fits(u, V, R, C, O),
         C \subseteq B, \A b \in C : V[b.run] = W[b.run],
         \A q \in Y : q \in X \/ R[q].status # "none", C # {} => Y \subseteq X
  PROVE  Global(V, R, Y, E, C, O)
<1>1. Framed(O, R)
  <2>1. ASSUME NEW u \in P, FrameOK(u[3], Q) PROVE FrameOK(u[3], R)
    BY <2>1 DEF FrameOK, QuestionsGo
  <2> QED
    BY <2>1 DEF Global, Framed, Fits
<1>2. AskedFirst(R, Y)
  BY DEF Global, AskedFirst, QuestionsGo
<1>3. DoneAt(E)
  BY DEF Global, DoneAt, DoneGoes
<1>4. Booted(C, V, Y, O)
  BY DEF Global, Booted, Fits
<1>5. Unstarted(V, E, R, O)
  <2> SUFFICES ASSUME NEW r \in Run, V[r].status = "none"
               PROVE  /\ \A i \in DOMAIN Flow[r] : E[<<r, i>>] = 0
                      /\ \A q \in Question : q[1] = r => R[q].status = "none"
                      /\ \A u \in O : u[3].run = r => u[3].pc = "start" /\ Waited(u, O)
    BY DEF Unstarted
  <2>1. /\ W[r].status = "none"
        /\ \A i \in DOMAIN Flow[r] : E[<<r, i>>] = D[<<r, i>>]
        /\ \A q \in Question : q[1] = r => R[q].status = Q[q].status
    BY DEF RowsGo
  <2>2. /\ \A i \in DOMAIN Flow[r] : D[<<r, i>>] = 0
        /\ \A q \in Question : q[1] = r => Q[q].status = "none"
        /\ \A u \in P : u[3].run = r => u[3].pc = "start" /\ Waited(u, P)
    BY <2>1 DEF Global, Unstarted
  <2>3. ASSUME NEW u \in O, u[3].run = r PROVE u[3].pc = "start" /\ Waited(u, O)
    <3>1. CASE u \in P
      <4>1. u[3].pc = "start" /\ Waited(u, P)
        BY <2>2, <2>3, <3>1
      <4> QED
        BY <3>1, <4>1 DEF Waited, ParentsStay
    <3>2. CASE Fits(u, V, R, C, O)
      BY <2>3, <3>2 DEF Fits
    <3> QED
      BY <3>1, <3>2
  <2> QED
    BY <2>1, <2>2, <2>3
<1>6. Resting(V)
  BY DEF Resting, RowsGo
<1> QED
  BY <1>1, <1>2, <1>3, <1>4, <1>5, <1>6 DEF Global
-----------------------------------------------------------------------------
\* What the writes of the store leave in a row.
LEMMA RowFields ==
  ASSUME NEW w \in RowType(Step)
  PROVE  /\ StartRun(w).status = "running" /\ StartRun(w).cursor = 0
         /\ Claimed(w).status = "running" /\ Claimed(w).cursor = w.cursor
         /\ \A i : SetAttempt(w, i).status = w.status /\ SetAttempt(w, i).cursor = w.cursor
         /\ \A request : /\ Request(w, request).status = w.status
                         /\ Request(w, request).cursor = w.cursor
                         /\ Request(w, request).attempt = w.attempt
         /\ \A i, why : /\ Checkpoint(w, i, why).cursor = i
                        /\ Checkpoint(w, i, why).status
                             = IF why = "none" THEN "running" ELSE "waiting"
         /\ \A status, i, why : /\ AppendRun(w, status, i, why).status = status
                                /\ AppendRun(w, status, i, why).cursor = i
<1>1. /\ StartRun(w).status = "running" /\ StartRun(w).cursor = 0
      /\ Claimed(w).status = "running" /\ Claimed(w).cursor = w.cursor
  BY DEF RowType, StartRun, Claimed
<1>2. ASSUME NEW i
      PROVE  SetAttempt(w, i).status = w.status /\ SetAttempt(w, i).cursor = w.cursor
  BY DEF RowType, SetAttempt
<1>3. ASSUME NEW request, NEW v, v = Request(w, request)
      PROVE  v.status = w.status /\ v.cursor = w.cursor /\ v.attempt = w.attempt
  BY <1>3 DEF RowType, Request
<1>4. ASSUME NEW i, NEW why, NEW v, v = Checkpoint(w, i, why)
      PROVE  v.cursor = i /\ v.status = IF why = "none" THEN "running" ELSE "waiting"
  <2> DEFINE status == IF why = "none" THEN "running" ELSE "waiting"
  <2>1. v = [w EXCEPT !.status = status, !.cursor = i, !.pause = why, !.attempt = 0]
    BY <1>4 DEF Checkpoint
  <2> HIDE DEF status
  <2>2. v.cursor = i /\ v.status = status
    BY <2>1 DEF RowType
  <2> QED
    BY <2>2 DEF status
<1>5. ASSUME NEW status, NEW i, NEW why, NEW v, v = AppendRun(w, status, i, why)
      PROVE  v.status = status /\ v.cursor = i
  BY <1>5 DEF RowType, AppendRun
<1> QED
  BY <1>1, <1>2, <1>3, <1>4, <1>5

\* What a call makes of the state when it moves: it writes its own run's row, its
\* own run's questions, and what went out of its own run.
Local(t) ==
  /\ UNCHANGED <<sweeping, boot, torn>> /\ stale \subseteq stale'
  /\ \A r \in Run \ {Top(t).run} : row'[r] = row[r]
  /\ \A q \in Question : q[1] # Top(t).run => question'[q] = question[q]
  /\ \A a \in At : a[1] # Top(t).run => done'[a] = done[a]
  /\ QuestionsGo(question, question') /\ DoneGoes(done, done')
  /\ Rests(row'[Top(t).run]) /\ row'[Top(t).run].status # "none"

\* What the invariant says of a call on top of its thread.
LEMMA Lively ==
  ASSUME RepeatInv, NEW t \in Thread, thread[t] # <<>>
  PROVE  /\ Top(t) \in Frames /\ Top(t).run \in Run /\ row[Top(t).run] \in RowType(Step)
         /\ row[Top(t).run] \in Rows(Top(t).run)
         /\ Spot(t) \in Placed /\ Spot(t)[3] = Top(t) /\ Rests(row[Top(t).run])
         /\ FrameOK(Top(t), question)
         /\ Top(t).pc # "start" => row[Top(t).run].status # "none"
         /\ \A b \in boot : b.run # Top(t).run
         /\ Top(t).op => boot = {}
<1>1. /\ Top(t) \in Frames /\ Top(t).run \in Run /\ row[Top(t).run] \in RowType(Step)
      /\ row[Top(t).run] \in Rows(Top(t).run)
  BY TopFrame, FrameFields DEF RepeatInv, Types, RowsOK
<1>2. Spot(t) \in Placed /\ Spot(t)[3] = Top(t)
  <2>1. Spot(t)[3] = Top(t)
    BY DEF Spot
  <2> QED
    BY <2>1, StackPlaces DEF RepeatInv
<1>3. FrameOK(Top(t), question) /\ Rests(row[Top(t).run])
  BY <1>1, <1>2 DEF RepeatInv, Orderly, Global, Framed, Resting
<1>4. Top(t).pc # "start" => row[Top(t).run].status # "none"
  BY <1>1, <1>2 DEF RepeatInv, Orderly, Global, Unstarted
<1>5. (\A b \in boot : b.run # Top(t).run) /\ (Top(t).op => boot = {})
  BY <1>1, <1>2 DEF RepeatInv, Orderly, Global, Booted
<1> QED
  BY <1>1, <1>2, <1>3, <1>4, <1>5

\* A move that stays in its own run keeps the invariant if that run stays in
\* order.
LEMMA OwnStep ==
  ASSUME RepeatInv, NEW t \in Thread, thread[t] # <<>>, Local(t), NEW g, Become(t, g),
         g.run = Top(t).run, FrameOK(g, question'), g.op => Top(t).op, Top(t).pc # "nested",
         Top(t).run \notin stale' =>
           Sane(Top(t).run, row'[Top(t).run], question', done', torn', Placed')
  PROVE  Orderly' /\ AllSane'
<1> DEFINE x == Top(t)
           p == Spot(t)
           n == <<t, Len(Under(t)) + 1, g>>
<1>1. Placed' = (Placed \ {p}) \cup {n} /\ n[3] = g
  BY BecomePlaces DEF RepeatInv
<1>2. /\ x.run \in Run /\ p \in Placed /\ p[3] = x
      /\ \A b \in boot : b.run # x.run
      /\ x.op => boot = {}
  BY Lively
<1> HIDE DEF p, n, x
<1>3. Orderly'
  <2>1. RowsGo(row, row', question, question', done, done')
    <3>1. ASSUME NEW r \in Run, r # x.run
          PROVE  /\ row'[r] = row[r] /\ Rests(row[r])
                 /\ \A i \in DOMAIN Flow[r] : done'[<<r, i>>] = done[<<r, i>>]
                 /\ \A q \in Question : q[1] = r => question'[q] = question[q]
      BY <3>1 DEF Local, RepeatInv, Orderly, Global, Resting, At, x
    <3> QED
      BY <1>2, <3>1 DEF RowsGo, Local, x
  <2>2. ParentsStay(Placed, Placed')
    BY <1>1, <1>2 DEF ParentsStay, x
  <2>3. \A u \in Placed' : u \in Placed \/ Fits(u, row', question', boot', Placed')
    BY <1>1, <1>2 DEF Fits, Local, x
  <2>4. \A b \in boot' : row'[b.run] = row[b.run]
    BY <1>2 DEF Local, RepeatInv, Types, Rest, x
  <2>5. Global(row, question, sweeping, done, boot, Placed)
    BY DEF RepeatInv, Orderly
  <2>6. Global(row', question', sweeping', done', boot', Placed')
    BY <2>1, <2>2, <2>3, <2>4, <2>5, GlobalKept DEF Local
  <2> QED
    BY <2>6 DEF Orderly
<1>4. AllSane'
  <2> SUFFICES ASSUME NEW r \in Run, r \notin stale'
               PROVE  Sane(r, row'[r], question', done', torn', Placed')
    BY DEF AllSane, SaneRun
  <2>1. CASE r = x.run
    BY <2>1 DEF x
  <2>2. CASE r # x.run
    <3>1. Sane(r, row[r], question, done, torn, Placed)
      BY DEF RepeatInv, AllSane, SaneRun, Local
    <3>2. /\ row'[r] = row[r] /\ torn' = torn
          /\ \A i \in DOMAIN Flow[r] : done'[<<r, i>>] = done[<<r, i>>]
          /\ \A q \in Question : q[1] = r => question'[q] = question[q]
      BY <2>2 DEF Local, At, x
    <3>3. \A u : u[3].run = r => (u \in Placed' <=> u \in Placed)
      BY <1>1, <1>2, <2>2 DEF x
    <3>4. Sane(r, row[r], question', done', torn, Placed')
      BY <3>1, <3>2, <3>3, Elsewhere
    <3> QED
      BY <3>2, <3>4
  <2> QED
    BY <2>1, <2>2
<1> QED
  BY <1>3, <1>4

\* A call that moves and neither passes its question nor leaves its step.
KinMove(t, g) ==
  /\ Local(t) /\ Become(t, g) /\ done' = done
  /\ Calmer(Top(t).run, question, question')
  /\ Top(t).run \notin stale' =>
       /\ row'[Top(t).run].status = row[Top(t).run].status
       /\ row'[Top(t).run].cursor = row[Top(t).run].cursor
       /\ row'[Top(t).run].attempt = row[Top(t).run].attempt \/ Entered(Top(t))
  /\ Top(t).pc # "nested" /\ g.run = Top(t).run /\ g.at = Top(t).at /\ (g.op => Top(t).op)
  /\ FrameOK(g, question')
  /\ Kin(Top(t), g) \/ ~(Ready(g) \/ Gone(g))
  /\ Entered(g) => Entered(Top(t))
  /\ Ending(Top(t)) => Ending(g)

\* ... as it does when the call only becomes one of its kin.
LEMMA KinKeeps ==
  ASSUME RepeatInv, NEW t \in Thread, thread[t] # <<>>, NEW g, KinMove(t, g)
  PROVE  Orderly' /\ AllSane'
<1> DEFINE x == Top(t)
           r == x.run
           n == <<t, Len(Under(t)) + 1, g>>
<1>1. ASSUME r \notin stale' PROVE Sane(r, row'[r], question', done', torn', Placed')
  <2>1. Placed' = (Placed \ {Spot(t)}) \cup {n} /\ n[3] = g
    BY BecomePlaces DEF RepeatInv, KinMove
  <2>2. r \in Run /\ Spot(t) \in Placed /\ Spot(t)[3] = x
    BY Lively
  <2>3. Sane(r, row[r], question, done, torn, Placed) /\ torn' = torn /\ done' = done
    BY <1>1, <2>2 DEF RepeatInv, AllSane, SaneRun, KinMove, Local
  <2> HIDE DEF n
  <2>4. Sane(r, row'[r], question', done, torn, Placed')
    BY <1>1, <2>1, <2>2, <2>3, KinStep DEF KinMove
  <2> QED
    BY <2>3, <2>4
<1> QED
  BY <1>1, OwnStep DEF KinMove
-----------------------------------------------------------------------------
\* Every move is local, but for one that wakes another run.
LEMMA QuestionsMove ==
  ASSUME RepeatInv, NEW t \in Thread, Move(t)
  PROVE  /\ QuestionsGo(question, question')
         /\ \A q \in Question : q[1] # Top(t).run => question'[q] = question[q]
<1>0. /\ Here(t)[1] = Top(t).run
      /\ question \in [Question -> QuestionType]
      /\ AskedFirst(question, sweeping)
  BY DEF Here, RepeatInv, Types, QuestionsOK, Orderly, Global
<1>1. CASE UNCHANGED question
  BY <1>0, <1>1 DEF QuestionsGo
<1>2. ASSUME NEW v, SetQuestion(Here(t), v), v.status # "none"
      PROVE  /\ QuestionsGo(question, question')
             /\ \A q \in Question : q[1] # Top(t).run => question'[q] = question[q]
  BY <1>0, <1>2 DEF SetQuestion, QuestionsGo
<1>3. CASE Close(t)
  <2>1. \A q \in Question : question'[q] =
          IF q[1] = Top(t).run /\ question[q].status = "pending"
          THEN [question[q] EXCEPT !.status = "cancelled", !.outcome = "cancelled"]
          ELSE question[q]
    BY <1>3 DEF Close
  <2>2. \A q \in Question : question[q] \in QuestionType
    BY <1>0
  <2>3. ASSUME NEW v \in QuestionType, NEW u,
               u = [v EXCEPT !.status = "cancelled", !.outcome = "cancelled"]
        PROVE  u.status = "cancelled" /\ u.resume = v.resume
    BY <2>3 DEF QuestionType
  <2> QED
    BY <2>1, <2>2, <2>3 DEF QuestionsGo
<1>4. CASE ~UNCHANGED question /\ ~Close(t)
  <2>1. \/ AskGate(t) \/ AskReview(t) \/ StillOpen(t) \/ Released(t) \/ Refused(t) \/ Attach(t)
    BY <1>4 DEF Move, Unrequest, Begins, Control, Clear, Begin, Model, Wait, Write, Call,
         ResolveSeats, Spent, Delegate, FindDelegate, Settle, Record, Trace, Push, Wake, Recheck,
         Return, Attached, RequestPause, RequestCancel, CancelChildren
  <2>2. /\ thread[t] # <<>> /\ FrameOK(Top(t), question)
    BY <2>1, Lively DEF AskGate, AskReview, StillOpen, Released, Refused, Attach, AtStep, Is
  <2>3. Asked.status = "pending"
    BY DEF Asked, Unasked
  <2>4. CASE AskGate(t) \/ AskReview(t)
    BY <1>2, <2>3, <2>4 DEF AskGate, AskReview
  <2>5. CASE Here(t) \in Question
    <3> DEFINE v == question[Here(t)]
    <3>1. v \in QuestionType
      BY <1>0, <2>5
    <3>2. CASE StillOpen(t)
      <4>1. SetQuestion(Here(t), [v EXCEPT !.status = "consumed", !.outcome = "timed_out"])
        BY <1>4, <3>2 DEF StillOpen
      <4> HIDE DEF v
      <4>2. [v EXCEPT !.status = "consumed", !.outcome = "timed_out"].status = "consumed"
        BY <3>1 DEF QuestionType
      <4> QED
        BY <1>2, <4>1, <4>2
    <3>3. CASE Released(t) \/ Refused(t)
      <4>1. SetQuestion(Here(t), [v EXCEPT !.status = "consumed"])
        BY <3>3 DEF Released, Refused, Spend
      <4> HIDE DEF v
      <4>2. [v EXCEPT !.status = "consumed"].status = "consumed"
        BY <3>1 DEF QuestionType
      <4> QED
        BY <1>2, <4>1, <4>2
    <3>4. CASE Attach(t)
      <4>1. SetQuestion(Here(t), [v EXCEPT !.resume = TRUE]) /\ v.status # "none"
        BY <2>2, <3>4 DEF Attach, FrameOK, Here, Is
      <4> HIDE DEF v
      <4>2. [v EXCEPT !.resume = TRUE].status = v.status
        BY <3>1 DEF QuestionType
      <4> QED
        BY <1>2, <4>1, <4>2
    <3> QED
      BY <2>1, <2>4, <3>2, <3>3, <3>4
  <2>6. CASE Here(t) \notin Question
    <3>1. ASSUME NEW v, SetQuestion(Here(t), v) PROVE UNCHANGED question
      BY <1>0, <2>6, <3>1 DEF SetQuestion
    <3> QED
      BY <1>4, <2>1, <3>1 DEF AskGate, AskReview, StillOpen, Released, Refused, Spend, Attach
  <2> QED
    BY <2>5, <2>6
<1> QED
  BY <1>1, <1>3, <1>4

LEMMA DoneMoves ==
  ASSUME RepeatInv, NEW t \in Thread, Move(t)
  PROVE  /\ DoneGoes(done, done')
         /\ \A a \in At : a[1] # Top(t).run => done'[a] = done[a]
         /\ UNCHANGED done \/ Call(t) \/ Released(t)
<1>1. UNCHANGED done \/ Call(t) \/ Released(t)
  BY DEF Move, Unrequest, Begins, Control, Clear, Begin, Model, Wait, Write, AskGate,
         ResolveSeats, AskReview, StillOpen, Refused, Spent, Delegate, FindDelegate,
         Settle, Record, Trace, Push, Wake, Recheck, Return, Attach, Attached, RequestPause,
         Close, RequestCancel, CancelChildren
<1>2. UNCHANGED done \/ done' = [done EXCEPT ![Here(t)] = @ + 1]
  BY <1>1 DEF Call, Released
<1>3. CASE UNCHANGED done
  BY <1>1, <1>3 DEF DoneGoes
<1>4. CASE ~UNCHANGED done
  <2>1. Is(t, "call") \/ AtStep(t, {"human", "review"})
    BY <1>1, <1>4 DEF Call, Released, Is
  <2>2. thread[t] # <<>> /\ FrameOK(Top(t), question) /\ Top(t) \in Frames
    BY <2>1, Lively DEF AtStep, Is
  <2>3. HasEffect(Here(t)[1], Here(t)[2]) \/ Here(t) \in Question
    <3>1. CASE Is(t, "call")
      BY <2>2, <3>1 DEF FrameOK, Is, Here
    <3>2. CASE AtStep(t, {"human", "review"})
      <4>1. Top(t).at # 0 /\ <<Top(t).run, Top(t).at>> \in At
        BY <2>2, <3>2, FrameFields DEF AtStep, Is, OnStep
      <4> QED
        BY <3>2, <4>1 DEF AtStep, Question, Here
    <3> QED
      BY <2>1, <3>1, <3>2
  <2>4. done \in [At -> Nat] /\ Here(t)[1] = Top(t).run
    BY DEF RepeatInv, Types, Counters, Here
  <2>5. \A a \in At : a # Here(t) => done'[a] = done[a]
    BY <1>2, <2>4
  <2> QED
    BY <1>1, <2>3, <2>4, <2>5 DEF DoneGoes
<1> QED
  BY <1>3, <1>4

\* Every move but a wake-up is local.
LEMMA LocalMoves ==
  ASSUME RepeatInv, NEW t \in Thread, Move(t), Wake(t) \/ Recheck(t) => UNCHANGED row
  PROVE  Local(t)
<1> DEFINE x == Top(t)
           r == x.run
<1>0. thread[t] # <<>>
  BY DEF Move, Unrequest, Begins, Control, Clear, Begin, Model, Wait, Write, Call,
         AskGate, ResolveSeats, AskReview, StillOpen, Released, Refused, Spent, Delegate,
         FindDelegate, Settle, Record, Trace, Push, Wake, Recheck, Return, Attach, Attached,
         RequestPause, Close, RequestCancel, CancelChildren, AtStep, Is
<1>1. UNCHANGED <<sweeping, boot, torn>> /\ stale \subseteq stale'
  <2>1. CASE Push(t)
    BY <2>1 DEF Push, faults
  <2>2. CASE Delegate(t)
    <3>1. UNCHANGED <<sweeping, torn>> /\ UNCHANGED faults
      BY <2>2 DEF Delegate
    <3> QED
      BY <2>2, <3>1 DEF faults, Delegate
  <2>3. CASE ~Push(t) /\ ~Delegate(t)
    BY <2>3 DEF Move, Unrequest, Begins, Control, Clear, Begin, Model, Wait, Write, Call,
         AskGate, ResolveSeats, AskReview, StillOpen, Released, Refused, Spent, FindDelegate,
         Settle, Record, Trace, Wake, Recheck, Return, Attach, Attached, RequestPause,
         Close, RequestCancel, CancelChildren, history, faults
  <2> QED
    BY <2>1, <2>2, <2>3
<1>2. /\ x \in Frames /\ r \in Run /\ row[r] \in RowType(Step) /\ RowsOK
      /\ Rests(row[r]) /\ (x.pc # "start" => row[r].status # "none")
  BY <1>0, Lively DEF RepeatInv, Types
<1>3. /\ \A s \in Run \ {r} : row'[s] = row[s]
      /\ Rests(row'[r]) /\ row'[r].status # "none"
  <2>1. CASE UNCHANGED row /\ ~Begins(t)
    <3>1. x.pc # "start"
      BY <2>1 DEF Move, Unrequest, Begins, Control, Clear, Begin, Model, Wait, Write, Call,
         AskGate, ResolveSeats, AskReview, StillOpen, Released, Refused, Spent, Delegate,
         FindDelegate, Settle, Record, Trace, Push, Wake, Recheck, Return, Attach, Attached,
         RequestPause, Close, RequestCancel, CancelChildren, AtStep, Is
    <3> QED
      BY <1>2, <2>1, <3>1
  <2>2. CASE Begins(t)
    BY <1>2, <2>2, RowSet, RowFields DEF Begins, Rests
  <2>3. CASE Unrequest(t) \/ Clear(t) \/ Begin(t) \/ Settle(t) \/ RequestPause(t)
             \/ RequestCancel(t)
    <3>1. /\ x.pc # "start"
          /\ \/ \E i : SetRow(r, SetAttempt(row[r], i))
             \/ \E request : SetRow(r, Request(row[r], request))
      BY <2>3 DEF Unrequest, Clear, Begin, Settle, RequestPause, RequestCancel, Is
    <3> QED
      BY <1>2, <3>1, RowSet, RowFields DEF Rests
  <2>4. CASE Record(t)
    <3>1. PICK i : SetRow(r, Checkpoint(row[r], i, x.why))
      BY <2>4 DEF Record
    <3> QED
      BY <1>2, <3>1, RowSet, RowFields DEF Rests
  <2>5. CASE Push(t)
    <3> DEFINE i == IF x.end = "waiting" THEN x.at ELSE 0
    <3>1. SetRow(r, AppendRun(row[r], x.end, i, x.why)) /\ x.pc = "push"
      BY <2>5 DEF Push, Is
    <3>2. x.end \in Terminal \cup {"waiting"}
      BY <1>2, <3>1, FrameFields DEF Shape
    <3>3. Rests(AppendRun(row[r], x.end, i, x.why))
          /\ AppendRun(row[r], x.end, i, x.why).status # "none"
      BY <1>2, <3>2, RowFields DEF Rests, Terminal
    <3> QED
      BY <1>2, <3>1, <3>3, RowSet
  <2> QED
    BY <2>1, <2>2, <2>3, <2>4, <2>5 DEF Move, Control, Model, Wait, Write, Call, AskGate,
         ResolveSeats, AskReview, StillOpen, Released, Refused, Spent, Delegate, FindDelegate,
         Trace, Wake, Recheck, Return, Attach, Attached, Close, CancelChildren
<1> QED
  BY <1>1, <1>3, QuestionsMove, DoneMoves DEF Local
-----------------------------------------------------------------------------
\* The moves that neither pass a question nor leave a step.
LEMMA NewPc ==
  ASSUME NEW x \in Frames, NEW pc, NEW g, g = [x EXCEPT !.pc = pc]
  PROVE  /\ g.run = x.run /\ g.at = x.at /\ g.end = x.end /\ g.why = x.why /\ g.op = x.op
         /\ g.pc = pc
BY DEF Frames, FrameType

LEMMA SameQuestions ==
  ASSUME NEW r, NEW Q
  PROVE  Calmer(r, Q, Q) /\ QuestionsGo(Q, Q)
BY DEF Calmer, QuestionsGo

\* A call whose program counter moves, its row and its attempt with it.
Goes(t, pc) == /\ Go(t, pc) /\ UNCHANGED <<question, done>>
               /\ \/ UNCHANGED row
                  \/ \E request : SetRow(Top(t).run, Request(row[Top(t).run], request))
                  \/ Entered(Top(t)) /\ \E i : SetRow(Top(t).run, SetAttempt(row[Top(t).run], i))
                  \/ Top(t).run \in stale'

LEMMA GoKeeps ==
  ASSUME RepeatInv, NEW t \in Thread, thread[t] # <<>>, Local(t), NEW pc, Goes(t, pc),
         NEW g, g = [Top(t) EXCEPT !.pc = pc],
         Top(t).pc # "nested", FrameOK(g, question),
         Kin(Top(t), g) \/ ~(Ready(g) \/ Gone(g)),
         Entered(g) => Entered(Top(t)), Ending(Top(t)) => Ending(g)
  PROVE  Orderly' /\ AllSane'
<1> DEFINE x == Top(t)
           r == x.run
<1>1. /\ x \in Frames /\ r \in Run /\ row[r] \in RowType(Step) /\ RowsOK
  BY Lively DEF RepeatInv, Types
<1>2. Become(t, g) /\ g.run = r /\ g.at = x.at /\ g.op = x.op
  BY <1>1, NewPc DEF Goes, Go
<1>3. Calmer(r, question, question') /\ done' = done /\ question' = question
  BY SameQuestions DEF Goes
<1>4. ASSUME r \notin stale'
      PROVE  /\ row'[r].status = row[r].status /\ row'[r].cursor = row[r].cursor
             /\ row'[r].attempt = row[r].attempt \/ Entered(x)
  <2>1. CASE UNCHANGED row
    BY <2>1
  <2>2. ASSUME NEW request, SetRow(r, Request(row[r], request))
        PROVE  /\ row'[r].status = row[r].status /\ row'[r].cursor = row[r].cursor
               /\ row'[r].attempt = row[r].attempt
    BY <1>1, <2>2, RowSet, RowFields
  <2>3. ASSUME Entered(x), NEW i, SetRow(r, SetAttempt(row[r], i))
        PROVE  row'[r].status = row[r].status /\ row'[r].cursor = row[r].cursor
    BY <1>1, <2>3, RowSet, RowFields
  <2> QED
    BY <1>4, <2>1, <2>2, <2>3 DEF Goes
<1>5. KinMove(t, g)
  BY <1>2, <1>3, <1>4 DEF KinMove
<1> QED
  BY <1>5, KinKeeps

\* The moves that only change the program counter, with the row at most.
LEMMA PlainGoes ==
  ASSUME RepeatInv, NEW t \in Thread,
         \/ Unrequest(t) \/ Clear(t) \/ Begin(t) \/ Write(t) \/ Settle(t) \/ Trace(t)
         \/ RequestCancel(t)
  PROVE  Orderly' /\ AllSane'
<1> DEFINE x == Top(t)
<1>1. Move(t) /\ thread[t] # <<>> /\ ~Wake(t) /\ ~Recheck(t)
  BY DEF Move, Unrequest, Clear, Begin, Write, Settle, Trace, RequestCancel, AtStep, Is, Wake,
         Recheck
<1>2. Local(t)
  BY <1>1, LocalMoves
<1>3. x \in Frames /\ FrameOK(x, question)
  BY <1>1, Lively
<1>4. ASSUME NEW pc, NEW g, g = [x EXCEPT !.pc = pc]
      PROVE  /\ g.run = x.run /\ g.at = x.at /\ g.end = x.end /\ g.why = x.why /\ g.op = x.op
             /\ g.pc = pc
  BY <1>3, <1>4, NewPc
<1> HIDE DEF x
<1>5. CASE Unrequest(t)
  <2>1. Goes(t, "start") /\ x.pc = "unrequest"
    BY <1>5 DEF Unrequest, Is, Goes, x
  <2> DEFINE g == [x EXCEPT !.pc = "start"]
  <2>2. g.run = x.run /\ g.at = x.at /\ g.end = x.end /\ g.why = x.why /\ g.op = x.op /\ g.pc = "start"
    BY <1>4
  <2> HIDE DEF g
  <2>3. FrameOK(g, question)
    BY <1>3, <2>1, <2>2 DEF FrameOK
  <2>4. Kin(x, g) /\ ~Entered(g) /\ ~Ending(x)
    BY <2>1, <2>2 DEF Kin, Ready, Gone, Passing, Entered, Ending
  <2> QED
    BY <1>1, <1>2, <2>1, <2>3, <2>4, GoKeeps DEF g, x
<1>6. CASE Clear(t)
  <2>1. Goes(t, "trace") /\ x.pc = "clear"
    BY <1>6 DEF Clear, Is, Goes, x
  <2> DEFINE g == [x EXCEPT !.pc = "trace"]
  <2>2. g.run = x.run /\ g.at = x.at /\ g.end = x.end /\ g.why = x.why /\ g.op = x.op /\ g.pc = "trace"
    BY <1>4
  <2> HIDE DEF g
  <2>3. FrameOK(g, question)
    BY <1>3, <2>1, <2>2 DEF FrameOK
  <2>4. (Kin(x, g) \/ ~(Ready(g) \/ Gone(g))) /\ Entered(x) /\ ~Ending(x)
    BY <2>1, <2>2 DEF Kin, Ready, Gone, Passing, Entered, Ending
  <2> QED
    BY <1>1, <1>2, <2>1, <2>3, <2>4, GoKeeps DEF g, x
<1>7. CASE Begin(t)
  <2>1. x.pc = "begin" /\ Entered(x)
    BY <1>7 DEF Begin, Is, x, Entered
  <2>5. Goes(t, "step")
    BY <1>7, <2>1 DEF Begin, Goes, x
  <2> DEFINE g == [x EXCEPT !.pc = "step"]
  <2>2. g.run = x.run /\ g.at = x.at /\ g.end = x.end /\ g.why = x.why /\ g.op = x.op /\ g.pc = "step"
    BY <1>4
  <2> HIDE DEF g
  <2>3. FrameOK(g, question)
    BY <1>3, <2>1, <2>2 DEF FrameOK
  <2>4. Kin(x, g) /\ ~Ending(x)
    BY <2>1, <2>2 DEF Kin, Ready, Gone, Passing, Ending
  <2> QED
    BY <1>1, <1>2, <2>1, <2>3, <2>4, <2>5, GoKeeps DEF g, x
<1>8. CASE Write(t)
  <2>1. x.pc = "step" /\ Goes(t, "call") /\ Kind(x.run, x.at) = "write"
    BY <1>8 DEF Write, AtStep, Is, Goes, x
  <2> DEFINE g == [x EXCEPT !.pc = "call"]
  <2>2. g.run = x.run /\ g.at = x.at /\ g.end = x.end /\ g.why = x.why /\ g.op = x.op /\ g.pc = "call"
    BY <1>4
  <2> HIDE DEF g
  <2>3. FrameOK(g, question)
    BY <1>3, <2>1, <2>2 DEF FrameOK, HasEffect
  <2>4. Kin(x, g) /\ ~Ending(x) /\ Entered(x)
    BY <2>1, <2>2 DEF Kin, Ready, Gone, Passing, Ending, Entered, Question
  <2> QED
    BY <1>1, <1>2, <2>1, <2>3, <2>4, GoKeeps DEF g, x
<1>9. CASE Settle(t)
  <2>1. x.pc = "settle" /\ Entered(x)
    BY <1>9 DEF Settle, Is, x, Entered, Ending
  <2>5. Goes(t, "record")
    BY <1>9, <2>1 DEF Settle, Goes, x
  <2> DEFINE g == [x EXCEPT !.pc = "record"]
  <2>2. g.run = x.run /\ g.at = x.at /\ g.end = x.end /\ g.why = x.why /\ g.op = x.op /\ g.pc = "record"
    BY <1>4
  <2> HIDE DEF g
  <2>3. FrameOK(g, question)
    BY <1>3, <2>1, <2>2 DEF FrameOK
  <2>4. (Kin(x, g) \/ ~(Ready(g) \/ Gone(g))) /\ Ending(g)
    BY <2>1, <2>2 DEF Kin, Ready, Gone, Passing, Ending
  <2> QED
    BY <1>1, <1>2, <2>1, <2>3, <2>4, <2>5, GoKeeps DEF g, x
<1>10. CASE Trace(t)
  <2>1. Goes(t, "push") /\ x.pc = "trace"
    BY <1>10 DEF Trace, Is, Goes, x
  <2> DEFINE g == [x EXCEPT !.pc = "push"]
  <2>2. g.run = x.run /\ g.at = x.at /\ g.end = x.end /\ g.why = x.why /\ g.op = x.op /\ g.pc = "push"
    BY <1>4
  <2> HIDE DEF g
  <2>3. FrameOK(g, question)
    BY <1>3, <2>1, <2>2 DEF FrameOK
  <2>4. (Kin(x, g) \/ ~(Ready(g) \/ Gone(g))) /\ ~Ending(x)
    BY <2>1, <2>2 DEF Kin, Ready, Gone, Passing, Ending
  <2>5. Entered(g) => Entered(x)
    BY <2>1, <2>2 DEF Entered, Ending
  <2> QED
    BY <1>1, <1>2, <2>1, <2>3, <2>4, <2>5, GoKeeps DEF g, x
<1>11. CASE RequestCancel(t)
  <2>1. Goes(t, "children") /\ x.pc = "request"
    BY <1>11 DEF RequestCancel, Is, Goes, x
  <2> DEFINE g == [x EXCEPT !.pc = "children"]
  <2>2. g.run = x.run /\ g.at = x.at /\ g.end = x.end /\ g.why = x.why /\ g.op = x.op /\ g.pc = "children"
    BY <1>4
  <2> HIDE DEF g
  <2>3. FrameOK(g, question)
    BY <1>3, <2>1, <2>2 DEF FrameOK
  <2>4. ~(Ready(g) \/ Gone(g)) /\ ~Ending(x) /\ ~Entered(g)
    BY <2>1, <2>2 DEF Ready, Gone, Passing, Entered, Ending
  <2> QED
    BY <1>1, <1>2, <2>1, <2>3, <2>4, GoKeeps DEF g, x
<1> QED
  BY <1>5, <1>6, <1>7, <1>8, <1>9, <1>10, <1>11
\* The step is over, or the run parks in it, and no question was passed.
LEMMA EndFields ==
  ASSUME NEW x \in Frames, NEW end, NEW why, NEW g, g = After(x, end, why)
  PROVE  /\ g.run = x.run /\ g.at = x.at /\ g.end = end /\ g.why = why /\ g.op = x.op
         /\ g.pc = IF HasEffect(x.run, x.at) THEN "settle" ELSE "record"
<1> DEFINE pc == IF HasEffect(x.run, x.at) THEN "settle" ELSE "record"
<1>1. g = [x EXCEPT !.end = end, !.why = why, !.pc = pc]
  BY DEF After
<1> HIDE DEF pc
<1>2. /\ g.run = x.run /\ g.at = x.at /\ g.end = end /\ g.why = why /\ g.op = x.op
      /\ g.pc = pc
  BY <1>1 DEF Frames, FrameType
<1> QED
  BY <1>2 DEF pc

LEMMA EndOKs ==
  ASSUME NEW Q, NEW x \in Frames, NEW end, NEW why, NEW g, g = After(x, end, why),
         why = "question" => /\ end = "waiting" /\ <<x.run, x.at>> \in Question
                             /\ Q[<<x.run, x.at>>].status # "none",
         end = "waiting" => why \in {"question", "child", "wait"}
  PROVE  /\ FrameOK(g, Q) /\ Ending(g) /\ g.run = x.run /\ g.at = x.at /\ g.op = x.op
         /\ Passing(g) <=> end = "none"
         /\ Gone(g) <=> end = "none"
         /\ Ready(g) <=> end = "waiting"
<1>1. /\ g.run = x.run /\ g.at = x.at /\ g.end = end /\ g.why = why /\ g.op = x.op
      /\ g.pc \in {"settle", "record"}
  BY EndFields
<1> QED
  BY <1>1 DEF FrameOK, Ending, Passing, Gone, Ready

\* A step that ends or parks without having gone out.
LEMMA StepEnds ==
  ASSUME RepeatInv, NEW t \in Thread, thread[t] # <<>>, Local(t), Top(t).pc = "step",
         NEW end, NEW why, Become(t, After(Top(t), end, why)), UNCHANGED <<row, done>>,
         Calmer(Top(t).run, question, question'),
         why = "question" => /\ end = "waiting" /\ Here(t) \in Question
                             /\ question'[Here(t)].status # "none",
         end = "waiting" => why \in {"question", "child", "wait"},
         end = "none" => Here(t) \notin Question
  PROVE  Orderly' /\ AllSane'
<1> DEFINE x == Top(t)
           g == After(x, end, why)
<1>1. x \in Frames
  BY Lively
<1>2. /\ FrameOK(g, question') /\ Ending(g) /\ g.run = x.run /\ g.at = x.at /\ g.op = x.op
      /\ Passing(g) <=> end = "none"
      /\ Gone(g) <=> end = "none"
      /\ Ready(g) <=> end = "waiting"
  BY <1>1, EndOKs DEF Here
<1>3. Ready(x) /\ Entered(x) /\ ~Passing(x) /\ ~Ending(x)
  BY DEF Ready, Entered, Passing, Ending
<1> HIDE DEF x
<1>4. Kin(x, g) \/ ~(Ready(g) \/ Gone(g))
  BY <1>2, <1>3 DEF Kin, Here, x
<1>5. KinMove(t, g)
  BY <1>2, <1>3, <1>4 DEF KinMove, x
<1> QED
  BY <1>5, KinKeeps

\* A question that is spent.
LEMMA SpentCalms ==
  ASSUME NEW q, QuestionsOK, q \in Question => question[q].status # "none", NEW v,
         v.status = "consumed", SetQuestion(q, v)
  PROVE  \A r : Calmer(r, question, question')
<1>1. \A p \in Question : question'[p] = IF p = q THEN v ELSE question[p]
  BY DEF SetQuestion, QuestionsOK
<1>2. ASSUME NEW p \in Question
      PROVE  /\ question'[p].status = "none" <=> question[p].status = "none"
             /\ Closed(p, question) => Closed(p, question')
             /\ question[p].status = "consumed" => question'[p].status = "consumed"
  <2>1. CASE p = q
    BY <1>1, <2>1 DEF Closed
  <2>2. CASE p # q
    BY <1>1, <2>2 DEF Closed
  <2> QED
    BY <2>1, <2>2
<1> QED
  BY <1>2 DEF Calmer

\* The moves that end a step in this way.
LEMMA PlainEnds ==
  ASSUME RepeatInv, NEW t \in Thread,
         Model(t) \/ Wait(t) \/ StillOpen(t) \/ Refused(t) \/ Spent(t) \/ FindDelegate(t)
  PROVE  Orderly' /\ AllSane'
<1> DEFINE x == Top(t)
           q == Here(t)
<1>1. /\ Move(t) /\ thread[t] # <<>> /\ ~Wake(t) /\ ~Recheck(t) /\ x.pc = "step"
      /\ UNCHANGED <<row, done>>
  BY DEF Move, Model, Wait, StillOpen, Refused, Spent, FindDelegate, AtStep, Is, Wake, Recheck
<1>2. Local(t) /\ x \in Frames
  BY <1>1, LocalMoves, Lively
<1>3. QuestionsOK
  BY DEF RepeatInv, Types
<1>4. q \in Question <=> Kind(x.run, x.at) \in {"human", "review"}
  <2>1. q \in At
    BY <1>1, <1>2, FrameFields DEF OnStep, Here
  <2> QED
    BY <2>1 DEF Question, Here
<1>5. CASE Model(t)
  <2>1. PICK end \in {"none", "error"} : Become(t, After(x, end, "none"))
    BY <1>5 DEF Model, Ends
  <2>2. q \notin Question /\ question' = question
    BY <1>4, <1>5 DEF Model, AtStep
  <2> HIDE DEF q
  <2> QED
    BY <1>1, <1>2, <2>1, <2>2, StepEnds, SameQuestions DEF q
<1>6. CASE Wait(t)
  <2>1. \/ Become(t, After(x, "none", "none"))
        \/ Become(t, After(x, "waiting", "wait"))
    BY <1>6 DEF Wait, Ends, Parks
  <2>2. q \notin Question /\ question' = question
    BY <1>4, <1>6 DEF Wait, AtStep
  <2> HIDE DEF q
  <2> QED
    BY <1>1, <1>2, <2>1, <2>2, StepEnds, SameQuestions DEF q
<1>7. CASE StillOpen(t)
  <2> DEFINE v == [question[q] EXCEPT !.status = "consumed", !.outcome = "timed_out"]
  <2>1. question[q].status = "pending" /\ q \in Question
    BY <1>4, <1>7 DEF StillOpen, AtStep
  <2>2. v.status = "consumed"
    BY <1>3, <2>1 DEF QuestionsOK, QuestionType
  <2>3. CASE Parks(t, "question") /\ UNCHANGED question
    <3>1. Become(t, After(x, "waiting", "question"))
      BY <2>3 DEF Parks
    <3> HIDE DEF q
    <3> QED
      BY <1>1, <1>2, <2>1, <2>3, <3>1, StepEnds, SameQuestions DEF q
  <2>4. CASE SetQuestion(q, v) /\ Ends(t, "error")
    <3>1. Become(t, After(x, "error", "none"))
      BY <2>4 DEF Ends
    <3> HIDE DEF v
    <3>2. Calmer(x.run, question, question')
      BY <1>3, <2>1, <2>2, <2>4, SpentCalms
    <3> HIDE DEF q
    <3> QED
      BY <1>1, <1>2, <3>1, <3>2, StepEnds
  <2> QED
    BY <1>7, <2>3, <2>4 DEF StillOpen
<1>8. CASE Refused(t)
  <2> DEFINE v == [question[q] EXCEPT !.status = "consumed"]
  <2>1. question[q].status # "none" /\ q \in Question /\ SetQuestion(q, v)
    BY <1>4, <1>8 DEF Refused, Spend, AtStep
  <2>2. v.status = "consumed"
    BY <1>3, <2>1 DEF QuestionsOK, QuestionType
  <2> HIDE DEF v
  <2>3. \E end \in {"completed", "error"} : Become(t, After(x, end, "none"))
    BY <1>8 DEF Refused, Ends
  <2>4. Calmer(x.run, question, question')
    BY <1>3, <2>1, <2>2, SpentCalms
  <2> HIDE DEF q
  <2> QED
    BY <1>1, <1>2, <2>3, <2>4, StepEnds
<1>9. CASE Spent(t)
  <2>1. Become(t, After(x, "error", "none")) /\ question' = question
    BY <1>9 DEF Spent, Ends
  <2> HIDE DEF q
  <2> QED
    BY <1>1, <1>2, <2>1, StepEnds, SameQuestions
<1>10. CASE FindDelegate(t)
  <2>1. question' = question /\ q \notin Question
    BY <1>4, <1>10 DEF FindDelegate, AtStep
  <2>2. \/ Become(t, After(x, "none", "none"))
        \/ Become(t, After(x, "error", "none"))
        \/ Become(t, After(x, "waiting", "child"))
    BY <1>10 DEF FindDelegate, Delegated
  <2> HIDE DEF q
  <2> QED
    BY <1>1, <1>2, <2>1, <2>2, StepEnds, SameQuestions DEF q
<1> QED
  BY <1>5, <1>6, <1>7, <1>8, <1>9, <1>10
\* Between two steps.
LEMMA ControlSane ==
  ASSUME RepeatInv, NEW t \in Thread, Control(t)
  PROVE  Orderly' /\ AllSane'
<1> DEFINE x == Top(t)
<1>1. /\ Move(t) /\ thread[t] # <<>> /\ ~Wake(t) /\ ~Recheck(t) /\ x.pc = "control"
      /\ UNCHANGED <<row, question, done>>
  BY DEF Move, Control, Is, Wake, Recheck
<1>2. Local(t) /\ x \in Frames /\ FrameOK(x, question)
  BY <1>1, LocalMoves, Lively
<1>3. PICK g : /\ Become(t, g)
               /\ \/ g = [x EXCEPT !.pc = "clear", !.end = "waiting", !.why = "operator"]
                  \/ g = [x EXCEPT !.pc = "clear", !.end = "cancelled"]
                  \/ \E pc \in {"begin", "step"} : g = [x EXCEPT !.pc = pc]
  BY DEF Control
<1>4. /\ g.run = x.run /\ g.at = x.at /\ g.op = x.op
      /\ \/ g.pc = "clear" /\ g.end = "waiting" /\ g.why = "operator"
         \/ g.pc = "clear" /\ g.end = "cancelled" /\ g.why = x.why
         \/ g.pc \in {"begin", "step"} /\ g.why = x.why
  BY <1>2, <1>3 DEF Frames, FrameType
<1>5. x.why = "none" /\ Ready(x) /\ Entered(x) /\ ~Ending(x) /\ ~Passing(x) /\ ~Gone(x)
  BY <1>1, <1>2 DEF FrameOK, Ready, Entered, Ending, Passing, Gone
<1>6. FrameOK(g, question) /\ ~Gone(g)
  BY <1>4, <1>5 DEF FrameOK, Gone, Passing
<1>7. KinMove(t, g)
  BY <1>1, <1>2, <1>3, <1>4, <1>5, <1>6, SameQuestions DEF KinMove, Kin
<1> QED
  BY <1>1, <1>7, KinKeeps

\* The run is attached to its question.
LEMMA AttachSane ==
  ASSUME RepeatInv, NEW t \in Thread, Attach(t)
  PROVE  Orderly' /\ AllSane'
<1> DEFINE x == Top(t)
           q == Here(t)
           v == [question[q] EXCEPT !.resume = TRUE]
           g == [x EXCEPT !.pc = "attached"]
<1>1. /\ Move(t) /\ thread[t] # <<>> /\ ~Wake(t) /\ ~Recheck(t) /\ x.pc = "attach"
      /\ UNCHANGED <<row, done>> /\ SetQuestion(q, v) /\ Become(t, g)
  BY DEF Move, Attach, Is, Wake, Recheck, Go
<1>2. Local(t) /\ x \in Frames /\ FrameOK(x, question) /\ QuestionsOK
  BY <1>1, LocalMoves, Lively DEF RepeatInv, Types
<1>3. g.run = x.run /\ g.at = x.at /\ g.end = x.end /\ g.why = x.why /\ g.op = x.op /\ g.pc = "attached"
  BY <1>2, NewPc
<1>4. q \in Question /\ question[q].status # "none"
  BY <1>1, <1>2 DEF FrameOK, Here
<1>5. v.status = question[q].status
  BY <1>2, <1>4 DEF QuestionsOK, QuestionType
<1> HIDE DEF v, g
<1>6. \A p \in Question : question'[p].status = question[p].status
  BY <1>1, <1>2, <1>5 DEF SetQuestion, QuestionsOK
<1>7. Calmer(x.run, question, question')
  BY <1>6 DEF Calmer, Closed
<1>8. FrameOK(g, question')
  BY <1>1, <1>2, <1>3, <1>6 DEF FrameOK
<1>9. ~Ready(g) /\ ~Gone(g) /\ ~Entered(g) /\ ~Ending(x)
  BY <1>1, <1>3 DEF Ready, Gone, Passing, Entered, Ending
<1>10. KinMove(t, g)
  BY <1>1, <1>2, <1>3, <1>7, <1>8, <1>9 DEF KinMove
<1> QED
  BY <1>1, <1>10, KinKeeps

\* A cancel closes what the run waits for.
LEMMA CloseSane ==
  ASSUME RepeatInv, NEW t \in Thread, Close(t)
  PROVE  Orderly' /\ AllSane'
<1> DEFINE x == Top(t)
<1>1. /\ Move(t) /\ thread[t] # <<>> /\ ~Wake(t) /\ ~Recheck(t) /\ x.pc = "close"
      /\ UNCHANGED <<row, done>>
  BY DEF Move, Close, Is, Wake, Recheck
<1>2. Local(t) /\ x \in Frames /\ FrameOK(x, question) /\ QuestionsOK
  BY <1>1, LocalMoves, Lively DEF RepeatInv, Types
<1>3. PICK g : /\ Become(t, g)
               /\ \/ g = [x EXCEPT !.pc = "trace", !.end = "cancelled"]
                  \/ g = [x EXCEPT !.pc = "request"]
  BY DEF Close
<1>4. /\ g.run = x.run /\ g.at = x.at /\ g.op = x.op /\ g.why = x.why
      /\ \/ g.pc = "trace" /\ g.end = "cancelled"
         \/ g.pc = "request"
  BY <1>2, <1>3 DEF Frames, FrameType
<1>5. ASSUME NEW v \in QuestionType, NEW u,
             u = [v EXCEPT !.status = "cancelled", !.outcome = "cancelled"]
      PROVE  u.status = "cancelled"
  BY <1>5 DEF QuestionType
<1>6. \A p \in Question : \/ question'[p] = question[p]
                          \/ question[p].status = "pending" /\ question'[p].status = "cancelled"
  BY <1>2, <1>5 DEF Close, QuestionsOK
<1>7. Calmer(x.run, question, question')
  BY <1>6 DEF Calmer, Closed
<1>8. FrameOK(g, question')
  BY <1>1, <1>2, <1>4 DEF FrameOK
<1>9. ~Ready(g) /\ ~Gone(g) /\ ~Entered(g) /\ ~Ending(x)
  BY <1>1, <1>4 DEF Ready, Gone, Passing, Entered, Ending
<1>10. KinMove(t, g)
  BY <1>1, <1>2, <1>3, <1>4, <1>7, <1>8, <1>9 DEF KinMove
<1> QED
  BY <1>1, <1>10, KinKeeps

\* A call that wakes nobody.
LEMMA WakelessSane ==
  ASSUME RepeatInv, NEW t \in Thread, Wake(t) \/ Recheck(t), UNCHANGED row,
         NEW pc \in {"return", "children"}, Become(t, [Top(t) EXCEPT !.pc = pc]),
         pc = "children" => Top(t).op
  PROVE  Orderly' /\ AllSane'
<1> DEFINE x == Top(t)
           g == [x EXCEPT !.pc = pc]
<1>1. /\ Move(t) /\ thread[t] # <<>> /\ x.pc \in {"wake", "recheck"}
      /\ UNCHANGED <<question, done>>
  BY DEF Move, Wake, Recheck, Is
<1>2. Local(t) /\ x \in Frames /\ FrameOK(x, question)
  BY <1>1, LocalMoves, Lively
<1>3. g.run = x.run /\ g.at = x.at /\ g.end = x.end /\ g.why = x.why /\ g.op = x.op /\ g.pc = pc
  BY <1>2, NewPc
<1>4. Goes(t, pc)
  BY <1>1 DEF Goes, Go
<1> HIDE DEF g
<1>5. FrameOK(g, question)
  BY <1>1, <1>2, <1>3 DEF FrameOK
<1>6. ~Ready(g) /\ ~Gone(g) /\ ~Entered(g) /\ ~Ending(x)
  BY <1>1, <1>3 DEF Ready, Gone, Passing, Entered, Ending
<1> QED
  BY <1>1, <1>2, <1>4, <1>5, <1>6, GoKeeps DEF g
-----------------------------------------------------------------------------
\* A call returns, to an agent step that waited for its run, or to nobody.
LEMMA ReturnKin ==
  ASSUME NEW x \in Frames, NEW end, NEW Q, x.pc = "nested", FrameOK(x, Q),
         NEW g, g = Delegated(x, end)
  PROVE  /\ g.run = x.run /\ g.at = x.at /\ g.op = x.op /\ FrameOK(g, Q) /\ Ending(g)
         /\ Kin(x, g) \/ ~(Ready(g) \/ Gone(g))
         /\ Entered(x) /\ ~Ending(x)
<1>1. PICK e, why : /\ g = After(x, e, why)
                    /\ \/ e \in {"none", "error"} /\ why = "none"
                       \/ e = "waiting" /\ why = "child"
  BY DEF Delegated
<1>5. why # "question" /\ (e = "waiting" => why \in {"question", "child", "wait"})
  BY <1>1
<1>2. /\ FrameOK(g, Q) /\ Ending(g) /\ g.run = x.run /\ g.at = x.at /\ g.op = x.op
      /\ Passing(g) <=> e = "none"
      /\ Gone(g) <=> e = "none"
      /\ Ready(g) <=> e = "waiting"
  BY <1>1, <1>5, EndOKs
<1>3. Gone(x) /\ ~Passing(x) /\ Entered(x) /\ ~Ending(x)
  BY DEF Gone, Passing, Entered, Ending
<1>4. <<x.run, x.at>> \notin Question
  BY DEF FrameOK, Question
<1> QED
  BY <1>2, <1>3, <1>4 DEF Kin

\* A call that was waited for and the one it returns to.
LEMMA BackFacts ==
  ASSUME RepeatInv, NEW t \in Thread, thread[t] # <<>>
  PROVE  /\ Resumed(t) =>
              /\ Low(t) \in Placed /\ Low(t) # Spot(t)
              /\ Low(t)[3] = Head(Under(t)) /\ CameTo(t)[3] = Delegated(Head(Under(t)), Top(t).end)
              /\ Head(Under(t)) \in Frames /\ Head(Under(t)).pc = "nested"
              /\ FrameOK(Head(Under(t)), question)
              /\ row[Head(Under(t)).run].status # "none" /\ Head(Under(t)).run \in Run
              /\ \A b \in boot : b.run # Head(Under(t)).run
              /\ Head(Under(t)).op => boot = {}
         /\ Top(t).pc # "nested" => ParentsStay(Placed, Back(t))
<1> DEFINE h == Head(Under(t))
<1>0. Threads /\ Orderly
  BY DEF RepeatInv
<1>1. ASSUME Resumed(t)
      PROVE  /\ Low(t) \in Placed /\ Low(t) # Spot(t)
             /\ Low(t)[3] = h /\ CameTo(t)[3] = Delegated(h, Top(t).end)
             /\ h \in Frames /\ h.pc = "nested" /\ h.run \in Run
  BY <1>0, <1>1, LowPlace, FrameFields DEF Low, CameTo, Resumed
<1>2. ASSUME Resumed(t)
      PROVE  /\ FrameOK(h, question) /\ row[h.run].status # "none"
             /\ \A b \in boot : b.run # h.run
             /\ h.op => boot = {}
  BY <1>0, <1>1, <1>2 DEF Orderly, Global, Framed, Unstarted, Booted
<1>3. ASSUME Top(t).pc # "nested" PROVE ParentsStay(Placed, Back(t))
  <2> SUFFICES ASSUME NEW u \in Placed, NEW v \in Placed, u \in Back(t), v[1] = u[1],
                      v[2] + 1 = u[2], v[3].pc = "nested", v \notin Back(t)
               PROVE  FALSE
    BY DEF ParentsStay
  <2>1. Spot(t)[3] = Top(t) /\ Spot(t)[1] = t /\ Spot(t)[2] = Len(Under(t)) + 1
    BY DEF Spot
  <2>2. v # Spot(t)
    BY <1>3, <2>1
  <2>3. Resumed(t) /\ v = Low(t)
    BY <2>2 DEF Back
  <2>4. Low(t)[1] = t /\ Low(t)[2] = Len(Tail(Under(t))) + 1
    BY DEF Low
  <2>5. /\ Len(Under(t)) = Len(Tail(Under(t))) + 1
        /\ Places(t, Under(t)) = {Low(t)} \cup Places(t, Tail(Under(t)))
        /\ Tail(Under(t)) \in Unders /\ Len(Tail(Under(t))) \in Nat
    BY <1>0, <2>3, LowPlace
  <2>6. \A y \in Places(t, Tail(Under(t))) : y[2] \in 1 .. Len(Tail(Under(t)))
    BY <2>5, UnderPlaces
  <2>7. u = Spot(t) \/ u \in Places(t, Under(t))
    BY <1>0, <2>3, <2>4, StackPlaces
  <2>8. u[2] = Len(Tail(Under(t))) + 2
    BY <2>3, <2>4, <2>5
  <2>9. u = Spot(t)
    <3>1. u # Low(t)
      BY <2>4, <2>5, <2>8
    <3>2. u \notin Places(t, Tail(Under(t)))
      BY <2>5, <2>6, <2>8
    <3> QED
      BY <2>5, <2>7, <3>1, <3>2
  <2>10. u \in Back(t) /\ u[2] = Len(Tail(Under(t))) + 2
    BY <2>8
  <2>11. CameTo(t)[2] = Len(Tail(Under(t))) + 1
    BY DEF CameTo
  <2> QED
    BY <2>3, <2>5, <2>9, <2>10, <2>11 DEF Back
<1> QED
  BY <1>1, <1>2, <1>3
\* The state once a call has returned, and nothing else has happened.
LEMMA Backing ==
  ASSUME RepeatInv, NEW t \in Thread, thread[t] # <<>>,
         Top(t).pc \in {"return", "attached", "pausing", "children"},
         NEW V, \A r \in Run : /\ V[r].status = row[r].status /\ V[r].cursor = row[r].cursor
                               /\ V[r].attempt = row[r].attempt,
         \A b \in boot : V[b.run] = row[b.run]
  PROVE  /\ Global(V, question, sweeping, done, boot, Back(t))
         /\ \A r \in Run \ stale : Sane(r, V[r], question, done, torn, Back(t))
<1> DEFINE x == Top(t)
           h == Head(Under(t))
           g == Delegated(h, x.end)
<1>1. /\ Spot(t)[3] = x /\ Spot(t) \in Placed
      /\ ~Ready(x) /\ ~Gone(x) /\ ~Ending(x) /\ x.pc # "nested"
  BY Lively DEF Ready, Gone, Passing, Ending
<1>2. ParentsStay(Placed, Back(t))
  BY <1>1, BackFacts
<1>3. ASSUME Resumed(t)
      PROVE  /\ Low(t) \in Placed /\ Low(t) # Spot(t) /\ Low(t)[3] = h /\ CameTo(t)[3] = g
             /\ row[h.run].status # "none" /\ h.run \in Run
             /\ \A b \in boot : b.run # h.run
             /\ h.op => boot = {}
             /\ g.run = h.run /\ g.at = h.at /\ g.op = h.op /\ FrameOK(g, question) /\ Ending(g)
             /\ Kin(h, g) \/ ~(Ready(g) \/ Gone(g))
             /\ Entered(h) /\ ~Ending(h)
  <2>1. /\ Low(t) \in Placed /\ Low(t) # Spot(t) /\ Low(t)[3] = h /\ CameTo(t)[3] = g
        /\ h \in Frames /\ h.pc = "nested" /\ FrameOK(h, question)
        /\ row[h.run].status # "none" /\ h.run \in Run
        /\ \A b \in boot : b.run # h.run
        /\ h.op => boot = {}
    BY <1>3, BackFacts
  <2> HIDE DEF h
  <2> QED
    BY <2>1, ReturnKin
<1> HIDE DEF x, h, g
<1>4. Global(V, question, sweeping, done, boot, Back(t))
  <2>1. RowsGo(row, V, question, question, done, done)
    BY DEF RowsGo, RepeatInv, Orderly, Global, Resting, Rests
  <2>2. \A u \in Back(t) : u \in Placed \/ Fits(u, V, question, boot, Back(t))
    <3>1. ASSUME Resumed(t) PROVE Fits(CameTo(t), V, question, boot, Back(t))
      BY <1>3, <3>1 DEF Fits
    <3> QED
      BY <3>1 DEF Back
  <2>3. Global(row, question, sweeping, done, boot, Placed)
    BY DEF RepeatInv, Orderly
  <2>4. QuestionsGo(question, question) /\ DoneGoes(done, done)
    BY DEF QuestionsGo, DoneGoes
  <2> QED
    BY <1>2, <2>1, <2>2, <2>3, <2>4, GlobalKept
<1>5. ASSUME NEW r \in Run, r \notin stale
      PROVE  Sane(r, V[r], question, done, torn, Back(t))
  <2> DEFINE S == Placed \ {Spot(t)}
  <2>1. Sane(r, row[r], question, done, torn, Placed)
    BY <1>5 DEF RepeatInv, AllSane, SaneRun
  <2>2. Calmer(r, question, question)
    BY SameQuestions
  <2>3. Sane(r, V[r], question, done, torn, S)
    <3>1. Carried(r, question, Placed, S, 0, 0)
      BY DEF Carried
    <3>2. NoneEnters(r, Placed, S) /\ StillEnding(r, Placed, S)
      BY <1>1 DEF NoneEnters, StillEnding
    <3> HIDE DEF S
    <3> QED
      BY <2>1, <2>2, <3>1, <3>2, Steady
  <2>4. CASE ~Resumed(t)
    BY <2>3, <2>4 DEF Back
  <2>5. CASE Resumed(t)
    <3>1. Low(t) \in S /\ Back(t) = (S \ {Low(t)}) \cup {CameTo(t)}
      BY <1>3, <2>5 DEF Back
    <3> HIDE DEF S
    <3> QED
      BY <1>3, <2>2, <2>3, <2>5, <3>1, KinStep
  <2> QED
    BY <2>4, <2>5
<1> QED
  BY <1>4, <1>5

\* The moves by which a call returns.
LEMMA ReturnsSane ==
  ASSUME RepeatInv, NEW t \in Thread, Move(t), Returns(t),
         Return(t) \/ RequestPause(t) \/ CancelChildren(t) \/ Attached(t)
  PROVE  Orderly' /\ AllSane'
<1> DEFINE x == Top(t)
<1>1. /\ thread[t] # <<>> /\ x.pc \in {"return", "attached", "pausing", "children"}
      /\ ~Wake(t) /\ ~Recheck(t) /\ UNCHANGED <<question, done, torn, stale, sweeping, boot>>
      /\ UNCHANGED row \/ SetRow(x.run, Request(row[x.run], "pause"))
  BY DEF Return, RequestPause, CancelChildren, Attached, Is, Wake, Recheck, history, faults
<1>2. /\ Placed' = Back(t) /\ x.run \in Run /\ row[x.run] \in RowType(Step) /\ RowsOK
      /\ \A b \in boot : b.run # x.run /\ b.run \in Run
  BY <1>1, Lively, ReturnsPlaces DEF RepeatInv, Types, Rest
<1>3. /\ \A r \in Run : /\ row'[r].status = row[r].status /\ row'[r].cursor = row[r].cursor
                        /\ row'[r].attempt = row[r].attempt
      /\ \A b \in boot : row'[b.run] = row[b.run]
  <2>1. CASE UNCHANGED row
    BY <2>1
  <2>2. CASE SetRow(x.run, Request(row[x.run], "pause"))
    BY <1>2, <2>2, RowSet, RowFields
  <2> QED
    BY <1>1, <2>1, <2>2
<1>4. /\ Global(row', question, sweeping, done, boot, Back(t))
      /\ \A r \in Run \ stale : Sane(r, row'[r], question, done, torn, Back(t))
  BY <1>1, <1>3, Backing
<1> QED
  BY <1>1, <1>2, <1>4 DEF Orderly, AllSane, SaneRun

\* A call that can do nothing more for a run, and the cancel that goes on to the
\* run that was delegated.
LEMMA CancelsFields ==
  ASSUME NEW r
  PROVE  /\ Cancels(r).run = r /\ Cancels(r).pc = "close" /\ Cancels(r).why = "none"
         /\ Cancels(r).op
<1>1. Cancels(r) = [Frame0 EXCEPT !.run = r, !.pc = "close", !.at = row[r].cursor,
                                  !.end = row[r].status, !.op = TRUE]
  BY DEF Cancels
<1> QED
  BY <1>1, Frame0IsBlank, FirstFrames DEF Blank

LEMMA CancelOn ==
  ASSUME RepeatInv, NEW t \in Thread, CancelChildren(t), ~Returns(t)
  PROVE  Orderly' /\ AllSane'
<1> DEFINE x == Top(t)
           c == Child[x.run]
           g == Cancels(c)
           n == <<t, Len(Under(t)) + 1, g>>
<1>1. /\ thread[t] # <<>> /\ x.pc = "children" /\ c # 0 /\ Cancellable(c) /\ Become(t, g)
      /\ UNCHANGED <<row, question, done, torn, stale, sweeping, boot>>
  BY DEF CancelChildren, Is, history, faults
<1>2. /\ Spot(t)[3] = x /\ Spot(t) \in Placed /\ FrameOK(x, question) /\ x.run \in Run
      /\ x.op => boot = {}
  BY <1>1, Lively
<1>3. boot = {} /\ c \in Run
  BY <1>1, <1>2, FlowAssumption DEF FrameOK
<1>4. Placed' = (Placed \ {Spot(t)}) \cup {n} /\ n[3] = g
  BY <1>1, BecomePlaces DEF RepeatInv
<1>5. g.run = c /\ g.pc = "close" /\ g.why = "none" /\ g.op
  BY CancelsFields
<1>6. FrameOK(g, question) /\ ~Ready(g) /\ ~Gone(g) /\ ~Entered(g) /\ ~Ending(x)
  BY <1>1, <1>5 DEF FrameOK, Ready, Gone, Passing, Entered, Ending
<1>7. row[c].status # "none"
  BY <1>1 DEF Cancellable
<1> HIDE DEF n, g, x, c
<1>8. Global(row, question, sweeping, done, boot, Placed')
  <2>1. RowsGo(row, row, question, question, done, done)
    BY DEF RowsGo, RepeatInv, Orderly, Global, Resting
  <2>2. Fits(n, row, question, boot, Placed')
    BY <1>3, <1>4, <1>5, <1>6, <1>7 DEF Fits
  <2>3. ParentsStay(Placed, Placed')
    BY <1>1, <1>2, <1>4 DEF ParentsStay
  <2>4. Global(row, question, sweeping, done, boot, Placed)
    BY DEF RepeatInv, Orderly
  <2>5. QuestionsGo(question, question) /\ DoneGoes(done, done)
    BY DEF QuestionsGo, DoneGoes
  <2> QED
    BY <1>4, <2>1, <2>2, <2>3, <2>4, <2>5, GlobalKept
<1>9. ASSUME NEW r \in Run, r \notin stale
      PROVE  Sane(r, row[r], question, done, torn, Placed')
  <2>1. Sane(r, row[r], question, done, torn, Placed)
    BY <1>9 DEF RepeatInv, AllSane, SaneRun
  <2>2. Calmer(r, question, question)
    BY SameQuestions
  <2> QED
    BY <1>2, <1>4, <1>6, <2>1, <2>2, IdleStep
<1> QED
  BY <1>1, <1>8, <1>9 DEF Orderly, AllSane, SaneRun
-----------------------------------------------------------------------------
\* The moves that ask, pass or leave.
Stepped(t, g) == <<t, Len(Under(t)) + 1, g>>
\* The places after the call on top became g.
LEMMA OwnPlaces ==
  ASSUME RepeatInv, NEW t \in Thread, thread[t] # <<>>, NEW g, Become(t, g)
  PROVE  /\ Placed' = (Placed \ {Spot(t)}) \cup {Stepped(t, g)} /\ Stepped(t, g)[3] = g
         /\ Stepped(t, g) \in Placed' /\ Spot(t) \in Placed /\ Spot(t)[3] = Top(t)
         /\ g.run = Top(t).run /\ Entered(Top(t)) /\ ~Ending(Top(t)) =>
              Replaced(Top(t).run, Placed, Placed', Spot(t), Stepped(t, g))
         /\ Top(t).run \in Run \ stale => SaneRun(Top(t).run)
<1>1. Placed' = (Placed \ {Spot(t)}) \cup {Stepped(t, g)} /\ Stepped(t, g)[3] = g
  BY BecomePlaces DEF RepeatInv, Stepped
<1>2. Spot(t) \in Placed /\ Spot(t)[3] = Top(t)
  BY Lively
<1> HIDE DEF Spot, Stepped
<1>3. Entered(Top(t)) => NoneEnters(Top(t).run, Placed, Placed')
  BY <1>2 DEF NoneEnters
<1>4. ~Ending(Top(t)) => StillEnding(Top(t).run, Placed, Placed')
  BY <1>1, <1>2 DEF StillEnding
<1>6. \A u \in Placed' : (u \in Placed /\ u # Spot(t)) \/ u = Stepped(t, g)
  BY <1>1
<1>7. g.run = Top(t).run /\ Entered(Top(t)) /\ ~Ending(Top(t)) =>
        Replaced(Top(t).run, Placed, Placed', Spot(t), Stepped(t, g))
  BY <1>1, <1>3, <1>4, <1>6 DEF Replaced, Succeeds
<1>5. Top(t).run \in Run \ stale => SaneRun(Top(t).run)
  BY DEF RepeatInv, AllSane
<1> QED
  BY <1>1, <1>2, <1>5, <1>7

\* The start of a run, or of its continuation, leaves a row that leads nowhere.
LEMMA BeginsSane ==
  ASSUME RepeatInv, NEW t \in Thread, Begins(t)
  PROVE  Orderly' /\ AllSane'
<1> DEFINE x == Top(t)
           r == x.run
           g == [x EXCEPT !.pc = "control"]
           n == Stepped(t, g)
<1>1. /\ Move(t) /\ thread[t] # <<>> /\ ~Wake(t) /\ ~Recheck(t) /\ x.pc = "start"
      /\ Become(t, g) /\ SetRow(r, StartRun(row[r]))
      /\ UNCHANGED <<question, done, torn, stale>>
  BY DEF Move, Begins, Is, Wake, Recheck, Go, history
<1>2. /\ Local(t) /\ x \in Frames /\ FrameOK(x, question) /\ r \in Run /\ RowsOK
      /\ row[r] \in RowType(Step)
  BY <1>1, LocalMoves, Lively DEF RepeatInv, Types
<1>3. /\ g.run = r /\ g.at = x.at /\ g.end = x.end /\ g.why = x.why /\ g.op = x.op
      /\ g.pc = "control"
  BY <1>2, NewPc
<1> HIDE DEF g
<1>4. FrameOK(g, question) /\ Kin(x, g)
  BY <1>1, <1>2, <1>3 DEF FrameOK, Kin, Ready, Gone, Passing
<1>5. row'[r].cursor = 0 /\ row'[r].status = "running"
  BY <1>1, <1>2, RowSet, RowFields
<1>6. ASSUME r \notin stale' PROVE Sane(r, row'[r], question', done', torn', Placed')
  <2>1. /\ Placed' = (Placed \ {Spot(t)}) \cup {n} /\ n[3] = g
        /\ Spot(t) \in Placed /\ Spot(t)[3] = x
        /\ Sane(r, row[r], question, done, torn, Placed)
    BY <1>1, <1>2, <1>6, OwnPlaces DEF SaneRun
  <2> HIDE DEF n, x
  <2>2. Carried(r, question, Placed, Placed', Spot(t), n)
    BY <1>4, <2>1 DEF Carried
  <2>3. Sane(r, row'[r], question, done, torn, Placed')
    BY <1>5, <2>1, <2>2, Blanking
  <2> QED
    BY <1>1, <2>3
<1> QED
  BY <1>1, <1>2, <1>3, <1>4, <1>6, OwnStep

\* The call goes out.
LEMMA CallSane ==
  ASSUME RepeatInv, NEW t \in Thread, Call(t)
  PROVE  Orderly' /\ AllSane'
<1> DEFINE x == Top(t)
           r == x.run
<1>1. /\ Move(t) /\ thread[t] # <<>> /\ ~Wake(t) /\ ~Recheck(t) /\ x.pc = "call"
      /\ UNCHANGED <<row, question, torn, stale>>
      /\ done' = [done EXCEPT ![Here(t)] = @ + 1]
  BY DEF Move, Call, Is, Wake, Recheck, history
<1>2. PICK end \in {"none", "error"}, why \in {"none"} : Become(t, After(x, end, why))
  BY DEF Call, Ends
<1>3. /\ Local(t) /\ x \in Frames /\ FrameOK(x, question) /\ r \in Run
      /\ row[r] \in Rows(r)
  BY <1>1, LocalMoves, Lively DEF RepeatInv, Types
<1> DEFINE g == After(x, end, why)
           n == Stepped(t, g)
<1>4. FrameOK(g, question) /\ Ending(g) /\ ~Ready(g) /\ g.run = r /\ g.at = x.at /\ g.op = x.op
  <2>1. why # "question" /\ end # "waiting" /\ g = After(x, end, why)
    OBVIOUS
  <2> HIDE DEF x, g
  <2> QED
    BY <1>3, <2>1, EndOKs
<1>5. x.at \in DOMAIN Flow[r] /\ x.at \in Nat /\ <<r, x.at>> \in At
  <2>1. x.at \in DOMAIN Flow[r] /\ <<r, x.at>> \in At
    BY <1>1, <1>3, FrameFields DEF OnStep
  <2>2. DOMAIN Flow[r] = 1 .. Len(Flow[r]) /\ Len(Flow[r]) \in Nat
    BY <1>3, Runs
  <2> QED
    BY <2>1, <2>2
<1>6. /\ done'[<<r, x.at>>] = done[<<r, x.at>>] + 1
      /\ \A j \in DOMAIN Flow[r] : j # x.at => done'[<<r, j>>] = done[<<r, j>>]
  <2>1. done \in [At -> Nat] /\ Here(t) = <<r, x.at>>
    BY DEF RepeatInv, Types, Counters, Here
  <2>2. \A j \in DOMAIN Flow[r] : <<r, j>> \in At
    BY <1>3 DEF At
  <2> QED
    BY <1>1, <1>5, <2>1, <2>2
<1>7. Entered(x) /\ ~Ending(x) /\ Gone(x) /\ Become(t, g)
  BY <1>1, <1>2 DEF Entered, Ending, Gone
<1> HIDE DEF g
<1>8. ASSUME r \notin stale' PROVE Sane(r, row'[r], question', done', torn', Placed')
  <2>1. /\ Spot(t) \in Placed /\ Spot(t)[3] = x /\ n \in Placed' /\ n[3] = g
        /\ Replaced(r, Placed, Placed', Spot(t), n)
        /\ Sane(r, row[r], question, done, torn, Placed)
    BY <1>1, <1>3, <1>4, <1>7, <1>8, OwnPlaces DEF SaneRun
  <2> HIDE DEF n
  <2>2. Spot(t) \in Abled(r, question, Placed)
    BY <1>7, <2>1 DEF Abled, Able
  <2>3. row[r].status = "waiting" => row[r].cursor # 0
    BY <1>3 DEF Rows
  <2>5. Spot(t)[3].pc = "call" /\ Spot(t)[3].at = x.at /\ n[3].at = x.at
        /\ Ending(n[3]) /\ ~Ready(n[3])
    BY <1>1, <1>4, <2>1
  <2> HIDE DEF x, r
  <2>4. Sane(r, row[r], question, done', torn, Placed')
    BY <1>5, <1>6, <2>1, <2>2, <2>3, <2>5, Calling
  <2> QED
    BY <1>1, <2>4
<1> QED
  BY <1>1, <1>3, <1>4, <1>7, <1>8, OwnStep
\* A question is asked: nobody has asked it or passed it.
LEMMA AskSane ==
  ASSUME RepeatInv, NEW t \in Thread, AskGate(t) \/ AskReview(t)
  PROVE  Orderly' /\ AllSane'
<1> DEFINE x == Top(t)
           r == x.run
           i == x.at
           q == <<r, i>>
           g == After(x, "waiting", "question")
           n == Stepped(t, g)
<1>1. /\ Move(t) /\ thread[t] # <<>> /\ ~Wake(t) /\ ~Recheck(t)
      /\ \/ x.pc = "step" /\ Kind(r, i) = "human" /\ question[q].status = "none"
         \/ x.pc = "seats"
      /\ Become(t, g) /\ SetQuestion(q, Asked) /\ UNCHANGED <<row, done, torn, stale>>
  BY DEF Move, AskGate, AskReview, AtStep, Is, Wake, Recheck, Parks, Here, history
<1>2. /\ Local(t) /\ x \in Frames /\ r \in Run /\ QuestionsOK
  BY <1>1, LocalMoves, Lively DEF RepeatInv, Types
<1>3. i \in DOMAIN Flow[r] /\ q \in Question
  <2>1. i \in DOMAIN Flow[r] /\ q \in At
    BY <1>1, <1>2, FrameFields DEF OnStep
  <2>2. Kind(r, i) \in {"human", "review"}
    BY <1>1, <1>2 DEF Frames
  <2> QED
    BY <2>1, <2>2 DEF Question
<1>4. /\ question'[q].status = "pending"
      /\ \A p \in Question : p # q => question'[p] = question[p]
  <2>1. question'[q] = Asked /\ \A p \in Question : p # q => question'[p] = question[p]
    BY <1>1, <1>2, <1>3 DEF SetQuestion, QuestionsOK
  <2> QED
    BY <2>1 DEF Asked, Unasked
<1>5. /\ FrameOK(g, question') /\ Ending(g) /\ Ready(g) /\ g.run = r /\ g.at = i /\ g.op = x.op
  <2>1. PICK end \in {"waiting"}, why \in {"question"} : g = After(x, end, why)
    OBVIOUS
  <2>2. question'[q].status # "none" /\ end = "waiting" /\ why \in {"question", "child", "wait"}
    BY <1>4
  <2> HIDE DEF x, g
  <2>3. FrameOK(g, question')
    BY <1>2, <1>3, <2>1, <2>2, EndOKs
  <2>4. Ending(g) /\ g.run = x.run /\ g.at = x.at /\ g.op = x.op
    BY <1>2, <1>3, <2>1, <2>2, EndOKs
  <2>5. Ready(g)
    BY <1>2, <1>3, <2>1, <2>2, EndOKs
  <2> QED
    BY <2>3, <2>4, <2>5
<1>6. Entered(x) /\ ~Ending(x) /\ ~Passing(x)
  BY <1>1 DEF Entered, Ending, Passing
<1> HIDE DEF g
<1>7. ASSUME r \notin stale' PROVE Sane(r, row'[r], question', done', torn', Placed')
  <2>1. /\ Spot(t) \in Placed /\ Spot(t)[3] = x /\ n \in Placed' /\ n[3] = g
        /\ Replaced(r, Placed, Placed', Spot(t), n)
        /\ Sane(r, row[r], question, done, torn, Placed)
    BY <1>1, <1>2, <1>5, <1>6, <1>7, OwnPlaces DEF SaneRun
  <2> HIDE DEF n
  <2>2. Spot(t) \in Abled(r, question, Placed)
    <3>1. Able(x, question)
      BY <1>1 DEF Able, Gone, Ready, Closed
    <3> QED
      BY <2>1, <3>1 DEF Abled
  <2>3. question[q].status = "none"
    <3>1. CASE x.pc = "seats"
      <4>1. Gone(x)
        BY <3>1 DEF Gone
      <4> QED
        BY <1>3, <2>1, <2>2, <3>1, <4>1 DEF Sane, Past
    <3> QED
      BY <1>1, <3>1
  <2>4. /\ Spot(t)[3].at = i /\ ~Passing(Spot(t)[3])
        /\ n[3].at = i /\ Ready(n[3]) /\ Open(q, question')
        /\ \A j : <<r, j>> \in Question /\ j # i => question'[<<r, j>>] = question[<<r, j>>]
    BY <1>3, <1>4, <1>5, <1>6, <2>1 DEF Open, Closed
  <2> HIDE DEF x, r, i
  <2>5. Sane(r, row[r], question', done, torn, Placed')
    BY <1>3, <2>1, <2>2, <2>3, <2>4, Asking
  <2> QED
    BY <1>1, <2>5
<1> QED
  BY <1>1, <1>2, <1>5, <1>7, OwnStep DEF g

\* A reviewer is resolved first.
LEMMA SeatsSane ==
  ASSUME RepeatInv, NEW t \in Thread, ResolveSeats(t)
  PROVE  Orderly' /\ AllSane'
<1> DEFINE x == Top(t)
           r == x.run
           i == x.at
           q == <<r, i>>
           g == [x EXCEPT !.pc = "seats"]
           n == Stepped(t, g)
<1>1. /\ Move(t) /\ thread[t] # <<>> /\ ~Wake(t) /\ ~Recheck(t)
      /\ x.pc = "step" /\ Kind(r, i) = "review" /\ question[q].status = "none"
      /\ Become(t, g) /\ UNCHANGED <<row, question, done, torn, stale>>
  BY DEF Move, ResolveSeats, AtStep, Is, Wake, Recheck, Go, Here, history
<1>2. /\ Local(t) /\ x \in Frames /\ r \in Run /\ FrameOK(x, question)
  BY <1>1, LocalMoves, Lively
<1>3. i \in DOMAIN Flow[r] /\ q \in Question /\ i \in Nat
  <2>1. i \in DOMAIN Flow[r] /\ q \in At
    BY <1>1, <1>2, FrameFields DEF OnStep
  <2>2. DOMAIN Flow[r] = 1 .. Len(Flow[r]) /\ Len(Flow[r]) \in Nat
    BY <1>2, Runs
  <2> QED
    BY <1>1, <2>1, <2>2 DEF Question
<1>4. g.run = r /\ g.at = i /\ g.end = x.end /\ g.why = x.why /\ g.op = x.op /\ g.pc = "seats"
  BY <1>2, NewPc
<1> HIDE DEF g
<1>5. FrameOK(g, question) /\ Entered(x) /\ ~Ending(x) /\ ~Passing(x)
  BY <1>1, <1>2, <1>4 DEF FrameOK, Entered, Ending, Passing
<1>7. ASSUME r \notin stale' PROVE Sane(r, row'[r], question', done', torn', Placed')
  <2>1. /\ Spot(t) \in Placed /\ Spot(t)[3] = x /\ n \in Placed' /\ n[3] = g
        /\ Replaced(r, Placed, Placed', Spot(t), n)
        /\ Sane(r, row[r], question, done, torn, Placed)
    BY <1>1, <1>2, <1>4, <1>5, <1>7, OwnPlaces DEF SaneRun
  <2> HIDE DEF n
  <2>2. Spot(t) \in Abled(r, question, Placed)
    <3>1. Able(x, question)
      BY <1>1 DEF Able, Gone, Ready, Closed
    <3> QED
      BY <2>1, <3>1 DEF Abled
  <2>4. /\ Spot(t)[3].at = i /\ ~Passing(Spot(t)[3])
        /\ n[3].at = i /\ n[3].pc = "seats"
    BY <1>4, <1>5, <2>1
  <2>6. question[q].status = "none"
    BY <1>1
  <2> HIDE DEF x, r, i
  <2>5. Sane(r, row[r], question, done, torn, Placed')
    BY <1>3, <2>1, <2>2, <2>4, <2>6, Seating
  <2> QED
    BY <1>1, <2>5
<1> QED
  BY <1>1, <1>2, <1>4, <1>5, <1>7, OwnStep

\* A yes is spent, and what it held back goes out or is about to.
LEMMA ReleasedSane ==
  ASSUME RepeatInv, NEW t \in Thread, Released(t)
  PROVE  Orderly' /\ AllSane'
<1> DEFINE x == Top(t)
           r == x.run
           i == x.at
           q == <<r, i>>
           v == [question[q] EXCEPT !.status = "consumed"]
<1>1. /\ Move(t) /\ thread[t] # <<>> /\ ~Wake(t) /\ ~Recheck(t) /\ x.pc = "step"
      /\ Kind(r, i) \in {"human", "review"}
      /\ question[q].status \in {"answered", "timed_out"} \cup
           (IF IsReview(q) THEN {"cancelled"} ELSE {})
      /\ SetQuestion(q, v) /\ UNCHANGED <<row, torn, stale>>
  BY DEF Move, Released, AtStep, Is, Wake, Recheck, Spend, Here, history
<1>2. /\ Local(t) /\ x \in Frames /\ r \in Run /\ FrameOK(x, question) /\ QuestionsOK
      /\ row[r] \in Rows(r)
  BY <1>1, LocalMoves, Lively DEF RepeatInv, Types
<1>3. i \in DOMAIN Flow[r] /\ q \in At /\ q \in Question
  <2>1. i \in DOMAIN Flow[r] /\ q \in At
    BY <1>1, <1>2, FrameFields DEF OnStep
  <2> QED
    BY <1>1, <2>1 DEF Question
<1>4. /\ question'[q].status = "consumed"
      /\ \A j : <<r, j>> \in Question /\ j # i => question'[<<r, j>>] = question[<<r, j>>]
      /\ question[q].status # "none" /\ Open(q, question)
      /\ \A p \in Question : p # q => question'[p] = question[p]
  <2>1. v.status = "consumed"
    BY <1>2, <1>3 DEF QuestionsOK, QuestionType
  <2> HIDE DEF v
  <2>2. question'[q] = v /\ \A p \in Question : p # q => question'[p] = question[p]
    BY <1>1, <1>2, <1>3 DEF SetQuestion, QuestionsOK
  <2>3. \/ question[q].status \in {"answered", "timed_out"}
        \/ question[q].status = "cancelled" /\ IsReview(q)
    BY <1>1
  <2>4. question[q].status # "none" /\ Open(q, question)
    BY <1>3, <2>3 DEF Open, Closed
  <2> QED
    BY <2>1, <2>2, <2>4
<1>5. Entered(x) /\ ~Ending(x) /\ Ready(x) /\ ~Closed(q, question)
  BY <1>1, <1>4 DEF Entered, Ending, Ready, Open
<1>6. PICK g : /\ Become(t, g) /\ g.run = r /\ g.at = i /\ g.op = x.op /\ FrameOK(g, question')
               /\ Gone(g) /\ g.pc # "seats"
               /\ \/ done' = done
                  \/ done' = [done EXCEPT ![q] = @ + 1] /\ Passing(g)
  <2>1. CASE Go(t, "call") /\ UNCHANGED done /\ IsReview(q)
    <3> DEFINE g == [x EXCEPT !.pc = "call"]
    <3>1. g.run = r /\ g.at = i /\ g.why = x.why /\ g.op = x.op /\ g.pc = "call" /\ g.end = x.end
      BY <1>2, NewPc
    <3>2. Become(t, g)
      BY <2>1 DEF Go
    <3> HIDE DEF g
    <3>3. FrameOK(g, question') /\ Gone(g)
      <4>1. x.why = "question" => x.end = "waiting"
        BY <1>2 DEF FrameOK
      <4>2. HasEffect(r, i)
        BY <2>1 DEF IsReview, HasEffect
      <4> QED
        BY <1>3, <1>4, <3>1, <4>1, <4>2 DEF FrameOK, Gone
    <3> QED
      BY <2>1, <3>1, <3>2, <3>3
  <2>2. CASE Ends(t, "none") /\ done' = [done EXCEPT ![q] = @ + 1]
    <3> DEFINE g == After(x, "none", "none")
    <3>1. PICK end \in {"none"}, why \in {"none"} : Become(t, g) /\ g = After(x, end, why)
      BY <2>2 DEF Ends
    <3>4. why # "question" /\ end # "waiting" /\ end = "none"
      OBVIOUS
    <3> HIDE DEF g
    <3>2. /\ FrameOK(g, question') /\ Ending(g) /\ g.run = r /\ g.at = i /\ g.op = x.op
          /\ Passing(g) /\ Gone(g)
      <4> HIDE DEF x
      <4>1. FrameOK(g, question')
        BY <1>2, <3>1, <3>4, EndOKs
      <4>2. /\ g.run = x.run /\ g.at = x.at /\ g.op = x.op /\ g.end = "none"
            /\ g.pc \in {"settle", "record"}
        BY <1>2, <3>1, <3>4, EndFields
      <4>3. Ending(g) /\ Passing(g) /\ Gone(g)
        BY <4>2 DEF Ending, Passing, Gone
      <4> QED
        BY <4>1, <4>2, <4>3
    <3>3. g.pc # "seats"
      BY <3>2 DEF Ending
    <3> QED
      BY <2>2, <3>1, <3>2, <3>3
  <2> QED
    BY <2>1, <2>2 DEF Released, Here
<1>8. /\ \A j \in DOMAIN Flow[r] : j # i => done'[<<r, j>>] = done[<<r, j>>]
      /\ \/ done'[q] = done[q]
         \/ done'[q] = done[q] + 1 /\ Passing(g)
  <2>1. done \in [At -> Nat]
    BY DEF RepeatInv, Types, Counters
  <2>2. \A j \in DOMAIN Flow[r] : <<r, j>> \in At
    BY <1>2 DEF At
  <2> QED
    BY <1>3, <1>6, <2>1, <2>2
<1> DEFINE n == Stepped(t, g)
<1>7. ASSUME r \notin stale' PROVE Sane(r, row'[r], question', done', torn', Placed')
  <2>1. /\ Spot(t) \in Placed /\ Spot(t)[3] = x /\ n \in Placed' /\ n[3] = g
        /\ Replaced(r, Placed, Placed', Spot(t), n)
        /\ Sane(r, row[r], question, done, torn, Placed)
    BY <1>1, <1>2, <1>5, <1>6, <1>7, OwnPlaces DEF SaneRun
  <2> HIDE DEF n
  <2>2. Spot(t) \in Abled(r, question, Placed)
    <3>1. Able(x, question)
      BY <1>5 DEF Able
    <3> QED
      BY <2>1, <3>1 DEF Abled
  <2>3. row[r].status = "waiting" => row[r].cursor # 0
    BY <1>2 DEF Rows
  <2>4. /\ Spot(t)[3].at = i /\ n[3].at = i /\ Gone(n[3]) /\ n[3].pc # "seats"
        /\ Passing(g) => Passing(n[3])
    BY <1>6, <2>1
  <2> HIDE DEF x, r, i
  <2>5. Sane(r, row[r], question', done', torn, Placed')
    BY <1>3, <1>4, <1>8, <2>1, <2>2, <2>3, <2>4, Releasing
  <2> QED
    BY <1>1, <2>5
<1> QED
  BY <1>1, <1>2, <1>6, <1>7, OwnStep
\* The checkpoint: the step is over, or the run is parked, or it ends.
LEMMA RecordSane ==
  ASSUME RepeatInv, NEW t \in Thread, Record(t)
  PROVE  Orderly' /\ AllSane'
<1> DEFINE x == Top(t)
           r == x.run
           i == x.at
           next == IF x.end = "waiting" THEN i ELSE NextStep(x)
           w == Checkpoint(row[r], next, x.why)
<1>1. /\ Move(t) /\ thread[t] # <<>> /\ ~Wake(t) /\ ~Recheck(t) /\ x.pc = "record"
      /\ SetRow(r, w) /\ UNCHANGED <<question, done, torn, stale>>
  BY DEF Move, Record, Is, Wake, Recheck, history
<1>2. /\ Local(t) /\ x \in Frames /\ r \in Run /\ FrameOK(x, question) /\ RowsOK
      /\ row[r] \in RowType(Step)
  BY <1>1, LocalMoves, Lively DEF RepeatInv, Types
<1>3. /\ x.end = "waiting" => x.why \in {"question", "child", "wait"}
      /\ x.end # "waiting" => x.why = "none"
      /\ x.end \in Lifecycle \ {"running"}
  BY <1>1, <1>2, FrameFields DEF FrameOK, Shape
<1>4. row'[r] = w /\ w.cursor = next
      /\ w.status = IF x.why = "none" THEN "running" ELSE "waiting"
  <2>1. row'[r] = w
    BY <1>1, <1>2, RowSet
  <2> HIDE DEF next
  <2> QED
    BY <1>2, <2>1, RowFields
<1>5. PICK g : /\ Become(t, g)
               /\ g = IF NextStep(x) # 0
                      THEN [x EXCEPT !.at = next, !.pc = "control", !.first = FALSE]
                      ELSE [x EXCEPT !.pc = "trace", !.end = IF @ = "none" THEN "completed" ELSE @]
  BY DEF Record
<1>6. /\ g.run = r /\ g.why = x.why /\ g.op = x.op
      /\ NextStep(x) # 0 => g.at = next /\ g.pc = "control" /\ g.end = x.end
      /\ NextStep(x) = 0 => /\ g.at = i /\ g.pc = "trace"
                            /\ g.end = IF x.end = "none" THEN "completed" ELSE x.end
  <2> HIDE DEF next
  <2>1. CASE NextStep(x) # 0
    <3>1. g = [x EXCEPT !.at = next, !.pc = "control", !.first = FALSE]
      BY <1>5, <2>1
    <3> HIDE DEF x
    <3> QED
      BY <1>2, <2>1, <3>1 DEF Frames, FrameType
  <2>2. CASE NextStep(x) = 0
    <3> DEFINE e == IF x.end = "none" THEN "completed" ELSE x.end
    <3>1. g = [x EXCEPT !.pc = "trace", !.end = e]
      BY <1>2, <1>5, <2>2 DEF Frames, FrameType
    <3> HIDE DEF x, e
    <3>2. g.run = x.run /\ g.why = x.why /\ g.op = x.op /\ g.at = x.at /\ g.pc = "trace" /\ g.end = e
      BY <1>2, <3>1 DEF Frames, FrameType
    <3> QED
      BY <2>2, <3>2 DEF e
  <2> QED
    BY <2>1, <2>2
<1>7. i \in DOMAIN Flow[r] /\ i \in Nat /\ i # 0 /\ Len(Flow[r]) \in Nat
  <2>1. i \in DOMAIN Flow[r] /\ i # 0
    BY <1>1, <1>2, FrameFields DEF OnStep
  <2>2. DOMAIN Flow[r] = 1 .. Len(Flow[r]) /\ Len(Flow[r]) \in Nat
    BY <1>2, Runs
  <2> QED
    BY <2>1, <2>2
<1>8. NextStep(x) # 0 => x.end = "none" /\ next = i + 1
  BY <1>7 DEF NextStep
<1>9. FrameOK(g, question)
  BY <1>2, <1>3, <1>6, <1>8 DEF FrameOK
<1> DEFINE n == Stepped(t, g)
<1>10. ASSUME r \notin stale' PROVE Sane(r, row'[r], question', done', torn', Placed')
  <2>1. /\ Placed' = (Placed \ {Spot(t)}) \cup {n} /\ n[3] = g
        /\ Spot(t) \in Placed /\ Spot(t)[3] = x
        /\ Sane(r, row[r], question, done, torn, Placed)
    BY <1>1, <1>2, <1>5, <1>10, OwnPlaces DEF SaneRun
  <2> HIDE DEF n
  <2>2. \A u \in Placed' : u[3].run = r => (u \in Placed /\ u # Spot(t)) \/ u = n
    BY <2>1
  <2>3. CASE x.end = "waiting"
    <3>1. w.status = "waiting" /\ w.cursor = i /\ Ready(x) /\ NextStep(x) = 0
      BY <1>1, <1>3, <1>4, <2>3 DEF Ready, NextStep
    <3>2. ~Ready(g) /\ ~Gone(g)
      BY <1>3, <1>6, <2>3, <3>1 DEF Ready, Gone, Passing
    <3>3. ~Able(n[3], question)
      BY <2>1, <3>2 DEF Able
    <3>4. Spot(t)[3].run = r /\ Ready(Spot(t)[3]) /\ w.cursor = Spot(t)[3].at
      BY <2>1, <3>1
    <3> HIDE DEF w, r
    <3>5. Sane(r, w, question, done, torn, Placed')
      BY <2>1, <2>2, <3>1, <3>3, <3>4, Parking
    <3> QED
      BY <1>1, <1>4, <3>5
  <2>4. CASE NextStep(x) # 0
    <3>1. w.status # "waiting" /\ w.cursor = i + 1 /\ Passing(x)
      BY <1>1, <1>3, <1>4, <1>8, <2>4 DEF Passing
    <3>2. Ready(g) /\ g.at = i + 1 /\ g.run = r
      BY <1>6, <1>8, <2>4 DEF Ready
    <3>3. /\ Spot(t)[3].run = r /\ Passing(Spot(t)[3]) /\ Spot(t)[3].at \in Nat
          /\ w.cursor = Spot(t)[3].at + 1
          /\ n[3].at = Spot(t)[3].at + 1 /\ Ready(n[3])
          /\ Succeeds(r, Placed, Placed', Spot(t), n)
      BY <1>7, <2>1, <2>2, <3>1, <3>2 DEF Succeeds
    <3> HIDE DEF w, r
    <3>5. Sane(r, w, question, done, torn, Placed')
      BY <1>2, <2>1, <2>2, <3>1, <3>3, Advancing
    <3> QED
      BY <1>1, <1>4, <3>5
  <2>5. CASE x.end # "waiting" /\ NextStep(x) = 0
    <3>1. w.status # "waiting" /\ w.cursor = 0
      BY <1>3, <1>4, <2>5
    <3>2. ~Ready(g) /\ ~Gone(g)
      BY <1>3, <1>6, <2>5 DEF Ready, Gone, Passing
    <3>3. Carried(r, question, Placed, Placed', Spot(t), n)
      BY <2>1, <2>2, <3>2 DEF Carried, Able
    <3> HIDE DEF w, r
    <3>5. Sane(r, w, question, done, torn, Placed')
      BY <2>1, <3>1, <3>3, Blanking
    <3> QED
      BY <1>1, <1>4, <3>5
  <2> QED
    BY <2>3, <2>4, <2>5
<1> QED
  BY <1>1, <1>2, <1>5, <1>6, <1>9, <1>10, OwnStep

\* The row says how the run ends, or where it waits.
LEMMA PushSane ==
  ASSUME RepeatInv, NEW t \in Thread, Push(t)
  PROVE  Orderly' /\ AllSane'
<1> DEFINE x == Top(t)
           r == x.run
           i == IF x.end = "waiting" THEN x.at ELSE 0
           w == AppendRun(row[r], x.end, i, x.why)
<1>1. /\ Move(t) /\ thread[t] # <<>> /\ ~Wake(t) /\ ~Recheck(t) /\ x.pc = "push"
      /\ SetRow(r, w) /\ UNCHANGED <<question, done, torn>>
      /\ stale' = IF x.end = "waiting" /\ x.why # "operator" /\ row[r] # w
                  THEN stale \cup {r} ELSE stale
  BY DEF Move, Push, Is, Wake, Recheck
<1>2. /\ Local(t) /\ x \in Frames /\ r \in Run /\ FrameOK(x, question) /\ RowsOK
      /\ row[r] \in RowType(Step)
  BY <1>1, LocalMoves, Lively DEF RepeatInv, Types
<1>3. x.end \in Terminal \cup {"waiting"} /\ ~Ending(x)
  BY <1>1, <1>2, FrameFields DEF Shape, Ending
<1>4. row'[r] = w /\ w.cursor = i /\ w.status = x.end
  <2>1. row'[r] = w
    BY <1>1, <1>2, RowSet
  <2> HIDE DEF i
  <2> QED
    BY <1>2, <2>1, RowFields
<1>5. PICK pc : /\ Go(t, pc)
                /\ pc = IF x.end \in Terminal THEN "wake"
                        ELSE CASE x.why = "question" -> "attach"
                               [] x.why = "child"    -> "recheck"
                               [] OTHER              -> "return"
  BY DEF Push
<1>6. pc \in {"wake", "attach", "recheck", "return"} /\ (pc = "attach" => x.why = "question")
  BY <1>5
<1> DEFINE g == [x EXCEPT !.pc = pc]
           n == Stepped(t, g)
<1>7. /\ g.run = r /\ g.at = x.at /\ g.end = x.end /\ g.why = x.why /\ g.op = x.op /\ g.pc = pc
      /\ Become(t, g)
  BY <1>2, <1>5, NewPc DEF Go
<1> HIDE DEF g
<1>8. FrameOK(g, question) /\ ~Ready(g) /\ ~Gone(g) /\ ~Entered(g)
  BY <1>2, <1>6, <1>7 DEF FrameOK, Ready, Gone, Passing, Entered, Ending
<1>9. CASE x.end = "waiting" /\ x.why # "operator"
  <2>1. UNCHANGED row \/ r \in stale'
    <3>1. CASE row[r] = w
      BY <1>1, <1>2, <3>1 DEF SetRow, RowsOK
    <3> QED
      BY <1>1, <1>9, <3>1
  <2>2. Goes(t, pc)
    BY <1>1, <1>5, <2>1 DEF Goes
  <2> QED
    BY <1>1, <1>2, <1>3, <1>8, <2>2, GoKeeps DEF g
<1>10. CASE ~(x.end = "waiting" /\ x.why # "operator")
  <2>1. ASSUME r \notin stale' PROVE Sane(r, row'[r], question', done', torn', Placed')
    <3>1. /\ Placed' = (Placed \ {Spot(t)}) \cup {n} /\ n[3] = g
          /\ Spot(t) \in Placed /\ Spot(t)[3] = x
          /\ Sane(r, row[r], question, done, torn, Placed)
      BY <1>1, <1>2, <1>7, <1>10, <2>1, OwnPlaces DEF SaneRun
    <3> HIDE DEF n
    <3>2. \A u \in Placed' : u[3].run = r => (u \in Placed /\ u # Spot(t)) \/ u = n
      BY <3>1
    <3>3. ~Able(n[3], question)
      BY <1>8, <3>1 DEF Able
    <3>4. CASE x.end = "waiting"
      <4>1. /\ w.status = "waiting"
            /\ Spot(t)[3].run = r /\ Ready(Spot(t)[3]) /\ w.cursor = Spot(t)[3].at
        BY <1>1, <1>4, <1>10, <3>1, <3>4 DEF Ready
      <4> HIDE DEF w, r
      <4>2. Sane(r, w, question, done, torn, Placed')
        BY <3>1, <3>2, <3>3, <4>1, Parking
      <4> QED
        BY <1>1, <1>4, <4>2
    <3>5. CASE x.end # "waiting"
      <4>1. w.status # "waiting" /\ w.cursor = 0
        BY <1>4, <3>5
      <4>2. Carried(r, question, Placed, Placed', Spot(t), n)
        BY <3>2, <3>3 DEF Carried
      <4> HIDE DEF w, r
      <4>3. Sane(r, w, question, done, torn, Placed')
        BY <3>1, <4>1, <4>2, Blanking
      <4> QED
        BY <1>1, <1>4, <4>3
    <3> QED
      BY <3>4, <3>5
  <2> QED
    BY <1>1, <1>2, <1>7, <1>8, <2>1, OwnStep
<1> QED
  BY <1>9, <1>10
\* The fields of the calls that start.
LEMMA StartFields ==
  ASSUME NEW r, NEW i, NEW b
  PROVE  /\ RunOne(r, i, b).run = r /\ RunOne(r, i, b).at = i /\ RunOne(r, i, b).pc = "start"
         /\ RunOne(r, i, b).why = "none" /\ ~RunOne(r, i, b).op
         /\ ResumeClaimed(r).run = r /\ ResumeClaimed(r).at = row[r].cursor
         /\ ResumeClaimed(r).pc = "unrequest"
         /\ ResumeClaimed(r).why = "none" /\ ~ResumeClaimed(r).op
<1>1. ASSUME NEW j, NEW c, NEW g, g = RunOne(r, j, c)
      PROVE  /\ g \in [run : {r}, pc : {"start"}, at : {j}, end : {"none"}, why : {"none"},
                       first : {c}, op : {FALSE}]
  <2>1. g = [Frame0 EXCEPT !.run = r, !.at = j, !.first = c]
    BY <1>1 DEF RunOne
  <2> QED
    BY <2>1, Frame0IsBlank DEF Blank
<1>2. ASSUME NEW j, NEW c, NEW g, g = RunOne(r, j, c)
      PROVE  g.run = r /\ g.at = j /\ g.pc = "start" /\ g.why = "none" /\ g.op \in {FALSE}
  <2>1. g \in [run : {r}, pc : {"start"}, at : {j}, end : {"none"}, why : {"none"},
               first : {c}, op : {FALSE}]
    BY <1>1, <1>2
  <2> QED
    BY <2>1
<1>3. ResumeClaimed(r).run = r /\ ResumeClaimed(r).at = row[r].cursor
      /\ ResumeClaimed(r).pc = "unrequest" /\ ResumeClaimed(r).why = "none"
      /\ ResumeClaimed(r).op \in {FALSE}
  <2>1. PICK c \in BOOLEAN : ResumeClaimed(r) = [RunOne(r, row[r].cursor, c) EXCEPT !.pc = "unrequest"]
    BY DEF ResumeClaimed
  <2> DEFINE x == RunOne(r, row[r].cursor, c)
             g == ResumeClaimed(r)
  <2>2. x \in [run : {r}, pc : {"start"}, at : {row[r].cursor}, end : {"none"}, why : {"none"},
               first : {c}, op : {FALSE}]
    BY <1>1
  <2>3. g = [x EXCEPT !.pc = "unrequest"]
    BY <2>1
  <2> HIDE DEF x, g
  <2>4. g.run = r /\ g.at = row[r].cursor /\ g.pc = "unrequest" /\ g.why = "none"
        /\ g.op \in {FALSE}
    BY <2>2, <2>3
  <2> QED
    BY <2>4 DEF g
<1>4. RunOne(r, i, b).run = r /\ RunOne(r, i, b).at = i /\ RunOne(r, i, b).pc = "start"
      /\ RunOne(r, i, b).why = "none" /\ RunOne(r, i, b).op \in {FALSE}
  BY <1>2
<1> QED
  BY <1>3, <1>4
-----------------------------------------------------------------------------
\* A call in its place; one that ends its step lies under no other.
LEMMA FramesInPlace ==
  ASSUME Threads
  PROVE  \A u \in Placed : /\ u[1] \in Thread /\ thread[u[1]] # <<>>
                          /\ u[3] \in Frames /\ u[3].run \in Run
                          /\ (u = Spot(u[1]) \/ u[3].pc \in {"nested", "return", "children"})
<1> SUFFICES ASSUME NEW t \in Thread, NEW u \in Places(t, thread[t])
             PROVE  /\ u[1] = t /\ thread[t] # <<>> /\ u[3] \in Frames /\ u[3].run \in Run
                    /\ (u = Spot(t) \/ u[3].pc \in {"nested", "return", "children"})
  BY DEF Placed
<1>1. thread[t] # <<>> /\ u[1] = t
  BY DEF Places
<1>2. /\ Under(t) \in Unders /\ Top(t) \in Frames
      /\ u = Spot(t) \/ u \in Places(t, Under(t))
  BY <1>1, StackPlaces
<1>3. u[3] \in Frames
  <2>1. Spot(t)[3] = Top(t)
    BY DEF Spot
  <2> QED
    BY <1>2, <2>1, UnderPlaces
<1> QED
  BY <1>1, <1>2, <1>3, UnderPlaces, FrameFields

\* A run is delegated once: whoever is in it has begun it for a call that waits,
\* and that call would be a second one at the step.
LEMMA NotDelegated ==
  ASSUME RepeatInv, NEW t \in Thread, thread[t] # <<>>, Top(t).pc = "step",
         Kind(Top(t).run, Top(t).at) = "agent", row[Child[Top(t).run]].status = "none",
         Top(t).run \notin stale
  PROVE  \A u \in Placed : u[3].run # Child[Top(t).run]
<1> DEFINE x == Top(t)
           r == x.run
           c == Child[r]
<1>1. /\ x \in Frames /\ r \in Run /\ Spot(t) \in Placed /\ Spot(t)[3] = x
      /\ Sane(r, row[r], question, done, torn, Placed)
  BY Lively DEF RepeatInv, AllSane, SaneRun
<1>2. c \in Run /\ c # 0 /\ c \notin Root
  <2>1. x.at \in DOMAIN Flow[r]
    BY <1>1, FrameFields DEF OnStep
  <2>2. c # 0
    BY <1>1, <2>1, FlowAssumption DEF Kind
  <2> QED
    BY <1>1, <2>2, FlowAssumption DEF Root
<1>3. Spot(t) \in Abled(r, question, Placed) /\ ~Gone(x)
  BY <1>1 DEF Abled, Able, Ready, Closed, Question, Gone, Passing
<1> SUFFICES ASSUME NEW u \in Placed, u[3].run = c PROVE FALSE
  OBVIOUS
<1>4. Waited(u, Placed)
  BY <1>2 DEF RepeatInv, Orderly, Global, Unstarted
<1>5. PICK v \in Placed : v[3].pc = "nested" /\ Child[v[3].run] = c
  BY <1>2, <1>4 DEF Waited
<1>6. v[3].run \in Run
  BY FramesInPlace DEF RepeatInv
<1>7. v[3].run = r
  BY <1>1, <1>2, <1>5, <1>6, FlowAssumption
<1>8. v \in Abled(r, question, Placed) /\ Gone(v[3])
  BY <1>5, <1>7 DEF Abled, Able, Gone
<1> HIDE DEF x
<1>9. \A i \in DOMAIN Flow[r] : ~Open(<<r, i>>, question)
  BY <1>1, <1>8, ReadyNotGone DEF Sane, Crowd
<1>10. v = Spot(t)
  BY <1>1, <1>3, <1>8, <1>9 DEF Sane, Alone
<1> QED
  BY <1>1, <1>3, <1>8, <1>10

\* An agent step starts the run it delegates.
LEMMA DelegateSane ==
  ASSUME RepeatInv, NEW t \in Thread, Delegate(t)
  PROVE  Orderly' /\ AllSane'
<1> DEFINE x == Top(t)
           r == x.run
           c == Child[r]
           f == [x EXCEPT !.pc = "nested"]
           g == RunOne(c, 1, FALSE)
           m == <<t, Len(Under(t)) + 1, f>>
           n == <<t, Len(Under(t)) + 2, g>>
<1>1. /\ thread[t] # <<>> /\ x.pc = "step" /\ Kind(r, x.at) = "agent" /\ row[c].status = "none"
      /\ CallOut(t, f, g) /\ stale' = IF r \in stale THEN stale \cup {c} ELSE stale
      /\ UNCHANGED <<row, question, done, torn>>
  BY DEF Delegate, AtStep, Is
<1>2. UNCHANGED <<sweeping, boot>>
  BY DEF Delegate, faults
<1>3. /\ x \in Frames /\ r \in Run /\ Spot(t) \in Placed /\ Spot(t)[3] = x
      /\ FrameOK(x, question) /\ row[r].status # "none"
      /\ (\A b \in boot : b.run # r) /\ (x.op => boot = {})
  BY <1>1, Lively
<1>4. c \in Run /\ c # r /\ c \notin Root
  <2>1. x.at \in DOMAIN Flow[r]
    BY <1>1, <1>3, FrameFields DEF OnStep
  <2>2. c # 0
    BY <1>1, <1>3, <2>1, FlowAssumption DEF Kind
  <2>3. r \in Nat /\ c \in Run /\ r < c
    BY <1>3, <2>2, FlowAssumption, Runs
  <2> QED
    BY <1>3, <2>3 DEF Root
<1>5. f.run = r /\ f.at = x.at /\ f.end = x.end /\ f.why = x.why /\ f.op = x.op /\ f.pc = "nested"
  BY <1>3, NewPc
<1>6. g.run = c /\ g.pc = "start" /\ g.why = "none" /\ ~g.op
  <2>1. PICK no \in BOOLEAN : g = RunOne(c, 1, no)
    OBVIOUS
  <2> HIDE DEF g, c
  <2> QED
    BY <2>1, StartFields
<1>7. /\ Placed' = (Placed \ {Spot(t)}) \cup {m, n}
      /\ m[1] = t /\ m[2] = Len(Under(t)) + 1 /\ m[3] = f
      /\ n[1] = t /\ n[2] = Len(Under(t)) + 2 /\ n[3] = g
  <2>1. f.pc # "return"
    BY <1>5
  <2> HIDE DEF f, g
  <2> QED
    BY <1>1, <2>1, CallOutPlaces DEF RepeatInv
<1>8. Len(Under(t)) \in Nat
  BY <1>1, StackPlaces, UnderPlaces DEF RepeatInv
<1> HIDE DEF m, n, f, g
<1>9. FrameOK(f, question) /\ FrameOK(g, question)
  BY <1>1, <1>3, <1>5, <1>6 DEF FrameOK
<1>10. Kin(x, f) /\ Entered(x) /\ ~Ending(x) /\ Ready(g) /\ Entered(f)
  BY <1>1, <1>5, <1>6 DEF Kin, Ready, Gone, Passing, Entered, Ending, Question
<1>11. Orderly'
  <2>1. RowsGo(row, row, question, question, done, done)
    BY DEF RowsGo, RepeatInv, Orderly, Global, Resting
  <2>2. Fits(m, row, question, boot, Placed')
    BY <1>3, <1>5, <1>7, <1>9 DEF Fits
  <2>3. Fits(n, row, question, boot, Placed')
    <3>1. Waited(n, Placed')
      <4>1. m \in Placed' /\ m[1] = n[1] /\ m[2] + 1 = n[2] /\ m[3].pc = "nested"
            /\ Child[m[3].run] = n[3].run
        BY <1>5, <1>6, <1>7, <1>8
      <4> QED
        BY <4>1 DEF Waited
    <3>2. \A b \in boot : b.run # c
      BY <1>1 DEF RepeatInv, Orderly, Global, Booted
    <3> QED
      BY <1>6, <1>7, <1>9, <3>1, <3>2 DEF Fits
  <2>4. ParentsStay(Placed, Placed')
    BY <1>1, <1>3, <1>7 DEF ParentsStay
  <2>5. Global(row, question, sweeping, done, boot, Placed)
    BY DEF RepeatInv, Orderly
  <2>6. QuestionsGo(question, question) /\ DoneGoes(done, done)
    BY DEF QuestionsGo, DoneGoes
  <2>7. Global(row, question, sweeping, done, boot, Placed')
    BY <1>7, <2>1, <2>2, <2>3, <2>4, <2>5, <2>6, GlobalKept
  <2> QED
    BY <1>1, <1>2, <2>7 DEF Orderly
<1>12. ASSUME NEW s \in Run, s \notin stale'
       PROVE  Sane(s, row[s], question, done, torn, Placed')
  <2>1. CASE s = c
    <3>1. r \notin stale
      BY <1>1, <1>12, <2>1
    <3>2. \A u \in Placed : u[3].run # c
      BY <1>1, <3>1, NotDelegated
    <3>3. \A u \in Placed' : u[3].run = c => u = n
      BY <1>4, <1>5, <1>7, <3>2
    <3>4. /\ row[c].status # "waiting" /\ row[c].cursor = 0
          /\ \A i \in DOMAIN Flow[c] : done[<<c, i>>] = 0
          /\ \A q \in Question : q[1] = c => question[q].status = "none"
      BY <1>1, <1>4 DEF RepeatInv, Orderly, Global, Resting, Rests, Unstarted
    <3>5. Ready(n[3])
      BY <1>7, <1>10
    <3> HIDE DEF c
    <3> QED
      BY <2>1, <3>3, <3>4, <3>5, Beginning
  <2>2. CASE s # c
    <3>1. Sane(s, row[s], question, done, torn, Placed)
      BY <1>1, <1>12 DEF RepeatInv, AllSane, SaneRun
    <3>2. Calmer(s, question, question)
      BY SameQuestions
    <3>3. Carried(s, question, Placed, Placed', Spot(t), m)
      BY <1>3, <1>6, <1>7, <1>10, <2>2 DEF Carried
    <3>4. NoneEnters(s, Placed, Placed') /\ StillEnding(s, Placed, Placed')
      BY <1>3, <1>5, <1>6, <1>7, <1>10, <2>2 DEF NoneEnters, StillEnding
    <3> QED
      BY <3>1, <3>2, <3>3, <3>4, Steady
  <2> QED
    BY <2>1, <2>2
<1> QED
  BY <1>1, <1>11, <1>12 DEF AllSane, SaneRun
-----------------------------------------------------------------------------
\* A call joins the others of its run, where it may.
LEMMA ClaimEnters ==
  ASSUME NEW r, NEW w, NEW v, NEW Q, NEW D, NEW T, NEW P, NEW S, NEW g,
         Sane(r, w, Q, D, T, P), w.status = "waiting", w.cursor # 0,
         v.status = "running", v.cursor = w.cursor, S = P \cup {g},
         g[3].run = r, g[3].at = w.cursor, g[3].pc \in {"unrequest", "start"}
  PROVE  Sane(r, v, Q, D, T, S)
<1>1. Ready(g[3]) /\ ~Entered(g[3])
  BY DEF Ready, Entered, Ending
<1>2. Closed(<<r, w.cursor>>, Q) \/ Joins(r, w, v, Q, D, T, P, w.cursor)
  BY ParkedJoins
<1> QED
  BY <1>1, <1>2, Entering

LEMMA QuestionEnters ==
  ASSUME NEW r, NEW w, NEW Q, NEW D, NEW T, NEW P, NEW S, NEW g,
         Sane(r, w, Q, D, T, P), g[3].at \in DOMAIN Flow[r], <<r, g[3].at>> \in Question,
         Q[<<r, g[3].at>>].status # "none", S = P \cup {g},
         g[3].run = r, g[3].pc \in {"unrequest", "start"}
  PROVE  Sane(r, w, Q, D, T, S)
<1>1. Ready(g[3]) /\ ~Entered(g[3])
  BY DEF Ready, Entered, Ending
<1>2. Closed(<<r, g[3].at>>, Q) \/ Joins(r, w, w, Q, D, T, P, g[3].at)
  BY QuestionJoins
<1> QED
  BY <1>1, <1>2, Entering

LEMMA BootEnters ==
  ASSUME NEW r, NEW w, NEW Q, NEW D, NEW T, NEW P, NEW S, NEW g,
         Sane(r, w, Q, D, T, P), w.status = "running", w.cursor # 0,
         \A u \in P : u[3].run # r,
         w.attempt = 0 \/ Flow[r][w.attempt].idempotent, S = P \cup {g},
         g[3].run = r, g[3].at = w.cursor, g[3].pc \in {"unrequest", "start"}
  PROVE  Sane(r, w, Q, D, T, S)
<1>1. Ready(g[3]) /\ ~Entered(g[3])
  BY DEF Ready, Entered, Ending
<1>2. Closed(<<r, w.cursor>>, Q) \/ Joins(r, w, w, Q, D, T, P, w.cursor)
  BY BootJoins
<1> QED
  BY <1>1, <1>2, Entering

\* A call goes on for run p, which it claimed, before it returns.
LEMMA WakenSane ==
  ASSUME RepeatInv, NEW t \in Thread, Wake(t) \/ Recheck(t), NEW p \in Run, MayClaim(row[p]),
         SetRow(p, Claimed(row[p])), NEW pc \in {"return", "children"},
         pc = "children" => Top(t).op,
         CallOut(t, [Top(t) EXCEPT !.pc = pc], ResumeClaimed(p))
  PROVE  Orderly' /\ AllSane'
<1> DEFINE x == Top(t)
           f == [x EXCEPT !.pc = pc]
           g == ResumeClaimed(p)
           m == <<t, Len(Under(t)) + 1, f>>
<1>1. /\ thread[t] # <<>> /\ x.pc \in {"wake", "recheck"}
      /\ UNCHANGED <<question, done, torn, stale, sweeping, boot>>
  BY DEF Wake, Recheck, Is, history, faults
<1>2. /\ x \in Frames /\ x.run \in Run /\ Spot(t) \in Placed /\ Spot(t)[3] = x
      /\ FrameOK(x, question) /\ row[x.run].status # "none" /\ RowsOK
      /\ (\A b \in boot : b.run # x.run) /\ (x.op => boot = {})
  BY <1>1, Lively DEF RepeatInv, Types
<1>3. /\ row[p].status = "waiting" /\ row[p].cursor # 0
      /\ row'[p].status = "running" /\ row'[p].cursor = row[p].cursor
      /\ \A r \in Run \ {p} : row'[r] = row[r]
  <2>1. row[p] \in RowType(Step) /\ row[p] \in Rows(p) /\ row[p].status = "waiting"
    BY <1>2 DEF RowsOK, MayClaim
  <2> QED
    BY <1>2, <2>1, RowSet, RowFields DEF Rows
<1>4. f.run = x.run /\ f.at = x.at /\ f.end = x.end /\ f.why = x.why /\ f.op = x.op /\ f.pc = pc
  BY <1>2, NewPc
<1>5. g.run = p /\ g.at = row[p].cursor /\ g.pc = "unrequest" /\ g.why = "none" /\ ~g.op
  BY StartFields
<1>6. PICK S, n : /\ Placed' = S \cup {n} /\ n[3] = g /\ m[3] = f
                  /\ S = Placed \ {Spot(t)} \/ S = (Placed \ {Spot(t)}) \cup {m}
  <2>0. CallOut(t, f, g)
    OBVIOUS
  <2> HIDE DEF f, g
  <2> DEFINE n == <<t, Len(Under(t)) + 1, g>>
             o == <<t, Len(Under(t)) + 2, g>>
  <2>1. \/ Placed' = (Placed \ {Spot(t)}) \cup {n}
        \/ Placed' = (Placed \ {Spot(t)}) \cup {m, o}
    BY <1>1, <2>0, CallOutPlaces DEF RepeatInv
  <2>2. n[3] = g /\ o[3] = g /\ m[3] = f
    OBVIOUS
  <2> HIDE DEF n, o, m
  <2>3. CASE Placed' = (Placed \ {Spot(t)}) \cup {n}
    BY <2>2, <2>3
  <2>4. CASE Placed' = (Placed \ {Spot(t)}) \cup {m, o}
    <3>1. Placed' = ((Placed \ {Spot(t)}) \cup {m}) \cup {o}
      BY <2>4
    <3> QED
      BY <2>2, <3>1
  <2> QED
    BY <2>1, <2>3, <2>4
<1> HIDE DEF f, g, m
<1>7. /\ FrameOK(f, question) /\ ~Ready(f) /\ ~Gone(f) /\ ~Entered(f) /\ ~Ending(x)
      /\ FrameOK(g, question)
  BY <1>1, <1>2, <1>4, <1>5 DEF FrameOK, Ready, Gone, Passing, Entered, Ending
<1>8. \A b \in boot : b.run # p
  BY <1>3 DEF RepeatInv, Orderly, Global, Booted
<1>9. Orderly'
  <2>1. RowsGo(row, row', question, question, done, done)
    BY <1>3 DEF RowsGo, RepeatInv, Orderly, Global, Resting, Rests
  <2>2. Fits(m, row', question, boot, Placed') /\ Fits(n, row', question, boot, Placed')
    <3>1. row'[x.run].status # "none"
      BY <1>2, <1>3
    <3> QED
      BY <1>2, <1>3, <1>4, <1>5, <1>6, <1>7, <1>8, <3>1 DEF Fits
  <2>3. ParentsStay(Placed, Placed')
    BY <1>1, <1>2, <1>6 DEF ParentsStay
  <2>4. \A b \in boot : row'[b.run] = row[b.run]
    BY <1>3, <1>8 DEF RepeatInv, Types, Rest
  <2>5. Global(row, question, sweeping, done, boot, Placed)
    BY DEF RepeatInv, Orderly
  <2>6. QuestionsGo(question, question) /\ DoneGoes(done, done)
    BY DEF QuestionsGo, DoneGoes
  <2>7. \A u \in Placed' : u \in Placed \/ Fits(u, row', question, boot, Placed')
    BY <1>6, <2>2
  <2>8. Global(row', question, sweeping, done, boot, Placed')
    BY <2>1, <2>3, <2>4, <2>5, <2>6, <2>7, GlobalKept
  <2> QED
    BY <1>1, <2>8 DEF Orderly
<1>10. ASSUME NEW r \in Run, r \notin stale
       PROVE  Sane(r, row'[r], question, done, torn, Placed')
  <2>1. Sane(r, row[r], question, done, torn, Placed) /\ Calmer(r, question, question)
    BY <1>10, SameQuestions DEF RepeatInv, AllSane, SaneRun
  <2>2. CASE r # p
    <3>1. row'[r] = row[r]
      BY <1>3, <2>2
    <3>2. \A u \in Placed' : u[3].run = r => \/ u \in Placed
                                             \/ ~(Ready(u[3]) \/ Gone(u[3]) \/ Entered(u[3]))
      BY <1>5, <1>6, <1>7, <2>2
    <3>3. \A u \in Placed : u[3].run = r /\ Ending(u[3]) => u \in Placed'
      BY <1>2, <1>6, <1>7
    <3> QED
      BY <2>1, <3>1, <3>2, <3>3, IdleStep
  <2>3. CASE r = p
    <3>1. Sane(p, row[p], question, done, torn, S)
      <4>1. \A u \in S : u \in Placed \/ ~(Ready(u[3]) \/ Gone(u[3]) \/ Entered(u[3]))
        BY <1>6, <1>7
      <4>2. \A u \in Placed : Ending(u[3]) => u \in S
        BY <1>2, <1>6, <1>7
      <4> QED
        BY <2>1, <2>3, <4>1, <4>2, IdleStep
    <3>2. Sane(p, row'[p], question, done, torn, Placed')
      BY <1>3, <1>5, <1>6, <3>1, ClaimEnters
    <3> QED
      BY <2>3, <3>2
  <2> QED
    BY <2>2, <2>3
<1> QED
  BY <1>1, <1>9, <1>10 DEF AllSane, SaneRun

\* A delegated run that ended wakes the run that delegated it, or nobody.
LEMMA WakesSane ==
  ASSUME RepeatInv, NEW t \in Thread, Wake(t) \/ Recheck(t)
  PROVE  Orderly' /\ AllSane'
<1> DEFINE x == Top(t)
<1>1. x.run \in Run
  BY Lively DEF Wake, Recheck, Is
<1>2. PICK pc \in {"return", "children"} :
        /\ pc = "children" => x.op
        /\ \/ UNCHANGED row /\ Become(t, [x EXCEPT !.pc = pc])
           \/ \E p \in Run : WakeUp(t, p, [x EXCEPT !.pc = pc])
  <2>1. CASE Wake(t)
    BY <2>1 DEF Wake, Parents
  <2>2. CASE Recheck(t)
    BY <1>1, <2>2 DEF Recheck
  <2> QED
    BY <2>1, <2>2
<1>3. CASE UNCHANGED row /\ Become(t, [x EXCEPT !.pc = pc])
  BY <1>2, <1>3, WakelessSane
<1>4. ASSUME NEW p \in Run, WakeUp(t, p, [x EXCEPT !.pc = pc]),
             ~(UNCHANGED row /\ Become(t, [x EXCEPT !.pc = pc]))
      PROVE  Orderly' /\ AllSane'
  <2>1. /\ MayClaim(row[p]) /\ SetRow(p, Claimed(row[p]))
        /\ CallOut(t, [x EXCEPT !.pc = pc], ResumeClaimed(p))
    BY <1>4 DEF WakeUp
  <2> QED
    BY <1>2, <2>1, WakenSane
<1> QED
  BY <1>2, <1>3, <1>4
-----------------------------------------------------------------------------
\* A call more, for a run that has a row: whoever can attach or answer.
LEMMA OneMore ==
  ASSUME NEW W, NEW Q, NEW X, NEW D, NEW B, NEW P, NEW S, NEW n,
         Global(W, Q, X, D, B, P), S = P \cup {n}, Fits(n, W, Q, B, S)
  PROVE  Global(W, Q, X, D, B, S)
<1>1. RowsGo(W, W, Q, Q, D, D)
  BY DEF RowsGo, Global, Resting
<1>2. ParentsStay(P, S)
  BY DEF ParentsStay
<1>3. QuestionsGo(Q, Q) /\ DoneGoes(D, D)
  BY DEF QuestionsGo, DoneGoes
<1>4. \A u \in S : u \in P \/ Fits(u, W, Q, B, S)
  OBVIOUS
<1> QED
  BY <1>1, <1>2, <1>3, <1>4, GlobalKept

\* What an answer or a late attach starts.
Resumer(n, q) == /\ n[3].run = q[1] /\ n[3].at = q[2] /\ n[3].pc = "start"
                 /\ n[3].why = "none" /\ ~n[3].op
LEMMA ResumerFrame ==
  ASSUME NEW q, NEW n, n[3] = RunOne(q[1], q[2], TRUE)
  PROVE  Resumer(n, q)
<1>1. PICK yes \in BOOLEAN : n[3] = RunOne(q[1], q[2], yes)
  OBVIOUS
<1> DEFINE r == q[1]
           i == q[2]
           f == RunOne(r, i, yes)
<1>2. n[3] = f
  BY <1>1
<1>3. f.run = r /\ f.at = i /\ f.pc = "start" /\ f.why = "none" /\ ~f.op
  <2> HIDE DEF r, i
  <2> QED
    BY StartFields
<1> HIDE DEF f
<1> QED
  BY <1>2, <1>3 DEF Resumer

\* Whoever continues a run at a question that was asked enters it.
LEMMA AnsweredEnters ==
  ASSUME NEW W, NEW Q, NEW X, NEW D, NEW B, NEW T, NEW Z, NEW P, NEW S, NEW n,
         Global(W, Q, X, D, B, P), \A r \in Run \ Z : Sane(r, W[r], Q, D, T, P),
         NEW q \in Question, Q[q].status # "none", \A b \in B : b.run # q[1],
         S = P \cup {n}, Resumer(n, q)
  PROVE  /\ Global(W, Q, X, D, B, S)
         /\ \A r \in Run \ Z : Sane(r, W[r], Q, D, T, S)
<1>2. n[3].run = q[1] /\ n[3].at = q[2] /\ n[3].pc = "start" /\ n[3].why = "none" /\ ~n[3].op
  BY DEF Resumer
<1>3. q[1] \in Run /\ q[2] \in DOMAIN Flow[q[1]] /\ q = <<q[1], q[2]>>
  BY DEF Question, At
<1>4. W[q[1]].status # "none"
  BY <1>3 DEF Global, Unstarted
<1>5. FrameOK(n[3], Q)
  BY <1>2 DEF FrameOK
<1>6. Fits(n, W, Q, B, S)
  BY <1>2, <1>4, <1>5 DEF Fits
<1>7. Global(W, Q, X, D, B, S)
  BY <1>6, OneMore
<1>8. ASSUME NEW r \in Run \ Z PROVE Sane(r, W[r], Q, D, T, S)
  <2>1. Sane(r, W[r], Q, D, T, P) /\ Calmer(r, Q, Q)
    BY SameQuestions
  <2>2. CASE r # q[1]
    <3>1. \A u \in S : u[3].run = r => u \in P
      BY <1>2, <2>2
    <3>2. \A u \in P : u \in S
      OBVIOUS
    <3> QED
      BY <2>1, <3>1, <3>2, IdleStep
  <2>3. CASE r = q[1]
    <3>1. <<r, n[3].at>> = q /\ n[3].run = r /\ n[3].pc \in {"unrequest", "start"}
          /\ n[3].at \in DOMAIN Flow[r]
      BY <1>2, <1>3, <2>3
    <3>2. Q[<<r, n[3].at>>].status # "none" /\ <<r, n[3].at>> \in Question
      BY <3>1
    <3> QED
      BY <2>1, <3>1, <3>2, QuestionEnters
  <2> QED
    BY <2>2, <2>3
<1> QED
  BY <1>7, <1>8

\* The attach finds the question decided and resumes the run itself, or returns.
LEMMA AttachedSane ==
  ASSUME RepeatInv, NEW t \in Thread, Attached(t)
  PROVE  Orderly' /\ AllSane'
<1> DEFINE x == Top(t)
           q == Here(t)
           g == RunOne(x.run, x.at, TRUE)
<1>1. /\ thread[t] # <<>> /\ x.pc = "attached"
      /\ UNCHANGED <<row, question, done, torn, stale, sweeping, boot>>
      /\ \/ Returns(t)
         \/ Under(t) = <<>> /\ Become(t, g)
         \/ Free # {} /\ thread' = [thread EXCEPT ![t] = Returned(t), ![New] = <<g>>]
  BY DEF Attached, Is, history, faults
<1>2. CASE Returns(t)
  <2>1. Move(t)
    BY DEF Move
  <2> QED
    BY <1>2, <2>1, ReturnsSane
<1>3. CASE ~Returns(t)
  <2>1. /\ Spot(t)[3] = x /\ FrameOK(x, question)
        /\ \A b \in boot : b.run # x.run
    BY <1>1, Lively
  <2>2. q \in Question /\ question[q].status # "none" /\ q[1] = x.run /\ q[2] = x.at
    BY <1>1, <2>1 DEF FrameOK, Here
  <2>3. /\ Global(row, question, sweeping, done, boot, Back(t))
        /\ \A r \in Run \ stale : Sane(r, row[r], question, done, torn, Back(t))
    BY <1>1, Backing
  <2> HIDE DEF g
  <2>4. PICK n : Placed' = Back(t) \cup {n} /\ n[3] = g
    <3>1. CASE Under(t) = <<>> /\ Become(t, g)
      <4> DEFINE n == <<t, Len(Under(t)) + 1, g>>
      <4>1. Placed' = (Placed \ {Spot(t)}) \cup {n} /\ n[3] = g
        BY <1>1, <3>1, BecomePlaces DEF RepeatInv
      <4>2. Back(t) = Placed \ {Spot(t)}
        BY <3>1 DEF Back, Resumed
      <4> QED
        BY <4>1, <4>2
    <3>2. CASE Free # {} /\ thread' = [thread EXCEPT ![t] = Returned(t), ![New] = <<g>>]
      <4> DEFINE n == <<New, 1, g>>
      <4>1. Placed' = Back(t) \cup {n} /\ n[3] = g
        BY <1>1, <3>2, ForkPlaces DEF RepeatInv
      <4> QED
        BY <4>1
    <3> QED
      BY <1>1, <1>3, <3>1, <3>2
  <2>5. Resumer(n, q) /\ \A b \in boot : b.run # q[1]
    <3>1. n[3] = RunOne(q[1], q[2], TRUE)
      BY <2>2, <2>4 DEF g
    <3> QED
      BY <2>1, <2>2, <3>1, ResumerFrame
  <2> HIDE DEF q, x
  <2>6. /\ Global(row, question, sweeping, done, boot, Placed')
        /\ \A r \in Run \ stale : Sane(r, row[r], question, done, torn, Placed')
    BY <2>2, <2>3, <2>4, <2>5, AnsweredEnters
  <2> QED
    BY <1>1, <2>6 DEF Orderly, AllSane, SaneRun
<1> QED
  BY <1>2, <1>3
-----------------------------------------------------------------------------
\* Every move keeps the invariant.
LEMMA MoveSane ==
  ASSUME RepeatInv, NEW t \in Thread, Move(t)
  PROVE  Orderly' /\ AllSane'
<1>1. CASE Unrequest(t) \/ Clear(t) \/ Begin(t) \/ Write(t) \/ Settle(t) \/ Trace(t)
           \/ RequestCancel(t)
  BY <1>1, PlainGoes
<1>2. CASE Model(t) \/ Wait(t) \/ StillOpen(t) \/ Refused(t) \/ Spent(t) \/ FindDelegate(t)
  BY <1>2, PlainEnds
<1>3. CASE Return(t) \/ RequestPause(t)
  BY <1>3, ReturnsSane DEF Return, RequestPause
<1>4. CASE CancelChildren(t)
  BY <1>4, ReturnsSane, CancelOn
<1>5. CASE Wake(t) \/ Recheck(t)
  BY <1>5, WakesSane
<1>6. CASE AskGate(t) \/ AskReview(t)
  BY <1>6, AskSane
<1> QED
  BY <1>1, <1>2, <1>3, <1>4, <1>5, <1>6, BeginsSane, ControlSane, CallSane, SeatsSane,
     ReleasedSane, DelegateSane, RecordSane, PushSane, AttachSane, AttachedSane, CloseSane
     DEF Move
-----------------------------------------------------------------------------
\* What comes from outside, a crash and the boot after it.
LEMMA SpawnedPlace ==
  ASSUME RepeatInv, NEW f, Spawn(f)
  PROVE  \E n : Placed' = Placed \cup {n} /\ n[3] = f
<1> DEFINE n == <<New, 1, f>>
<1>1. Placed' = Placed \cup {n} /\ n[3] = f
  BY SpawnPlaces DEF RepeatInv
<1> QED
  BY <1>1

LEMMA AliveInPlace ==
  ASSUME Threads, NEW u \in Placed
  PROVE  Alive(u[3].run)
<1>1. PICK t \in Thread : u \in Places(t, thread[t])
  BY DEF Placed
<1>2. PICK k \in DOMAIN thread[t] : u[3] = thread[t][k]
  BY <1>1 DEF Places
<1> QED
  BY <1>2 DEF Alive

\* A call that neither reaches nor leaves a step joins the others.
LEMMA IdleMore ==
  ASSUME NEW W, NEW Q, NEW X, NEW D, NEW B, NEW T, NEW Z, NEW P, NEW S, NEW n,
         Global(W, Q, X, D, B, P), \A r \in Run \ Z : Sane(r, W[r], Q, D, T, P),
         S = P \cup {n}, Fits(n, W, Q, B, S), ~(Ready(n[3]) \/ Gone(n[3]) \/ Entered(n[3]))
  PROVE  /\ Global(W, Q, X, D, B, S)
         /\ \A r \in Run \ Z : Sane(r, W[r], Q, D, T, S)
<1>1. Global(W, Q, X, D, B, S)
  BY OneMore
<1>2. ASSUME NEW r \in Run \ Z PROVE Sane(r, W[r], Q, D, T, S)
  <2>1. Sane(r, W[r], Q, D, T, P) /\ Calmer(r, Q, Q)
    BY SameQuestions
  <2>2. \A u \in S : u[3].run = r => u \in P \/ ~(Ready(u[3]) \/ Gone(u[3]) \/ Entered(u[3]))
    OBVIOUS
  <2>3. \A u \in P : u[3].run = r /\ Ending(u[3]) => u \in S
    OBVIOUS
  <2> QED
    BY <2>1, <2>2, <2>3, IdleStep
<1> QED
  BY <1>1, <1>2

\* A run that nobody delegates starts: it has no call yet.
LEMMA StartSane ==
  ASSUME RepeatInv, NEW r \in Run, Start(r)
  PROVE  Orderly' /\ AllSane'
<1> DEFINE g == RunOne(r, 1, FALSE)
<1>1. /\ boot = {} /\ r \in Root /\ row[r].status = "none" /\ ~Alive(r) /\ Spawn(g)
      /\ UNCHANGED <<row, question, sweeping, done, torn, stale, boot>>
  BY DEF Start, Started, history, faults
<1>2. g.run = r /\ g.pc = "start" /\ g.why = "none" /\ ~g.op
  <2>1. PICK no \in BOOLEAN : g = RunOne(r, 1, no)
    OBVIOUS
  <2> HIDE DEF g
  <2> QED
    BY <2>1, StartFields
<1> HIDE DEF g
<1>3. PICK n : Placed' = Placed \cup {n} /\ n[3] = g
  BY <1>1, SpawnedPlace
<1>4. \A u \in Placed : u[3].run # r
  BY <1>1, AliveInPlace DEF RepeatInv
<1>5. FrameOK(g, question) /\ Ready(g)
  BY <1>2 DEF FrameOK, Ready
<1>6. Global(row, question, sweeping, done, boot, Placed')
  <2>1. Fits(n, row, question, boot, Placed')
    BY <1>1, <1>2, <1>3, <1>5 DEF Fits, Waited
  <2>2. Global(row, question, sweeping, done, boot, Placed)
    BY DEF RepeatInv, Orderly
  <2> QED
    BY <1>3, <2>1, <2>2, OneMore
<1>7. ASSUME NEW s \in Run, s \notin stale
      PROVE  Sane(s, row[s], question, done, torn, Placed')
  <2>1. Sane(s, row[s], question, done, torn, Placed) /\ Calmer(s, question, question)
    BY <1>7, SameQuestions DEF RepeatInv, AllSane, SaneRun
  <2>2. CASE s # r
    <3>1. \A u \in Placed' : u[3].run = s => u \in Placed
      BY <1>2, <1>3, <2>2
    <3>2. Placed \subseteq Placed'
      BY <1>3
    <3> QED
      BY <2>1, <3>1, <3>2, IdleStep
  <2>3. CASE s = r
    <3>1. /\ row[r].status # "waiting" /\ row[r].cursor = 0
          /\ \A i \in DOMAIN Flow[r] : done[<<r, i>>] = 0
          /\ \A q \in Question : q[1] = r => question[q].status = "none"
      BY <1>1 DEF RepeatInv, Orderly, Global, Resting, Rests, Unstarted
    <3>2. \A u \in Placed' : u[3].run = r => u = n
      BY <1>3, <1>4
    <3>3. Ready(n[3])
      BY <1>3, <1>5
    <3> QED
      BY <2>3, <3>1, <3>2, <3>3, Beginning
  <2> QED
    BY <2>2, <2>3
<1> QED
  BY <1>1, <1>6, <1>7 DEF Orderly, AllSane, SaneRun

\* A pause and a cancel begin beside the calls of the run.
LEMMA OperatorSane ==
  ASSUME RepeatInv, NEW r \in Run, Pause(r) \/ Cancel(r)
  PROVE  Orderly' /\ AllSane'
<1>1. /\ boot = {} /\ row[r].status \in {"running", "waiting"}
      /\ UNCHANGED <<row, question, sweeping, done, torn, stale, boot>>
  BY DEF Pause, Cancel, Ask, Cancellable, history
<1>2. PICK g : /\ Spawn(g) /\ g.run = r /\ g.pc \in {"pausing", "close"} /\ g.why = "none"
               /\ g.op
  <2>1. CASE Pause(r)
    <3> DEFINE g == [Frame0 EXCEPT !.run = r, !.pc = "pausing", !.op = TRUE]
    <3>1. Spawn(g) /\ g.run = r /\ g.pc = "pausing" /\ g.why = "none"
      BY <2>1, Frame0IsBlank DEF Pause, Blank
    <3>2. g.op
      BY Frame0IsBlank DEF Blank
    <3> HIDE DEF g
    <3> QED
      BY <3>1, <3>2
  <2>2. CASE Cancel(r)
    BY <2>2, CancelsFields DEF Cancel
  <2> QED
    BY <2>1, <2>2
<1>3. PICK n : Placed' = Placed \cup {n} /\ n[3] = g
  BY <1>2, SpawnedPlace
<1>4. FrameOK(g, question) /\ ~Ready(g) /\ ~Gone(g) /\ ~Entered(g)
  BY <1>2 DEF FrameOK, Ready, Gone, Passing, Entered, Ending
<1>5. Fits(n, row, question, boot, Placed')
  BY <1>1, <1>2, <1>3, <1>4 DEF Fits
<1>6. /\ Global(row, question, sweeping, done, boot, Placed)
      /\ \A s \in Run \ stale : Sane(s, row[s], question, done, torn, Placed)
  BY DEF RepeatInv, Orderly, AllSane, SaneRun
<1>7. /\ Global(row, question, sweeping, done, boot, Placed')
      /\ \A s \in Run \ stale : Sane(s, row[s], question, done, torn, Placed')
  BY <1>3, <1>4, <1>5, <1>6, IdleMore
<1> QED
  BY <1>1, <1>7 DEF Orderly, AllSane, SaneRun

\* An operator resumes a parked run by its claim.
LEMMA ResumeSane ==
  ASSUME RepeatInv, NEW r \in Run, Resume(r)
  PROVE  Orderly' /\ AllSane'
<1> DEFINE g == ResumeClaimed(r)
<1>1. /\ boot = {} /\ MayClaim(row[r]) /\ SetRow(r, Claimed(row[r])) /\ Spawn(g)
      /\ UNCHANGED <<question, sweeping, done, torn, stale, boot>>
  BY DEF Resume, Ask, history
<1>2. /\ row[r].status = "waiting" /\ row[r].cursor # 0
      /\ row'[r].status = "running" /\ row'[r].cursor = row[r].cursor
      /\ \A s \in Run \ {r} : row'[s] = row[s]
  <2>1. RowsOK /\ row[r] \in RowType(Step) /\ row[r] \in Rows(r) /\ row[r].status = "waiting"
    BY <1>1 DEF RepeatInv, Types, RowsOK, MayClaim
  <2> QED
    BY <1>1, <2>1, RowSet, RowFields DEF Rows
<1>3. g.run = r /\ g.at = row[r].cursor /\ g.pc = "unrequest" /\ g.why = "none" /\ ~g.op
  BY StartFields
<1> HIDE DEF g
<1>4. PICK n : Placed' = Placed \cup {n} /\ n[3] = g
  BY <1>1, SpawnedPlace
<1>5. FrameOK(g, question)
  BY <1>3 DEF FrameOK
<1>6. Global(row', question, sweeping, done, boot, Placed')
  <2>1. RowsGo(row, row', question, question, done, done)
    BY <1>2 DEF RowsGo, RepeatInv, Orderly, Global, Resting, Rests
  <2>2. Fits(n, row', question, boot, Placed')
    BY <1>1, <1>2, <1>3, <1>4, <1>5 DEF Fits
  <2>3. ParentsStay(Placed, Placed')
    BY <1>4 DEF ParentsStay
  <2>4. Global(row, question, sweeping, done, boot, Placed)
    BY DEF RepeatInv, Orderly
  <2>5. QuestionsGo(question, question) /\ DoneGoes(done, done)
    BY DEF QuestionsGo, DoneGoes
  <2>6. \A u \in Placed' : u \in Placed \/ Fits(u, row', question, boot, Placed')
    BY <1>4, <2>2
  <2> QED
    BY <1>1, <2>1, <2>3, <2>4, <2>5, <2>6, GlobalKept
<1>7. ASSUME NEW s \in Run, s \notin stale
      PROVE  Sane(s, row'[s], question, done, torn, Placed')
  <2>1. Sane(s, row[s], question, done, torn, Placed) /\ Calmer(s, question, question)
    BY <1>7, SameQuestions DEF RepeatInv, AllSane, SaneRun
  <2>2. CASE s # r
    <3>1. \A u \in Placed' : u[3].run = s => u \in Placed
      BY <1>3, <1>4, <2>2
    <3>2. Placed \subseteq Placed' /\ row'[s] = row[s]
      BY <1>2, <1>4, <2>2
    <3> QED
      BY <2>1, <3>1, <3>2, IdleStep
  <2>3. CASE s = r
    BY <1>2, <1>3, <1>4, <2>1, <2>3, ClaimEnters
  <2> QED
    BY <2>2, <2>3
<1> QED
  BY <1>1, <1>6, <1>7 DEF Orderly, AllSane, SaneRun
-----------------------------------------------------------------------------
\* A question that was pending is decided.
LEMMA DecideSane ==
  ASSUME RepeatInv, boot = {}, NEW q \in Question, question[q].status = "pending",
         NEW v, v.status \in {"answered", "timed_out"}, v.resume = question[q].resume,
         SetQuestion(q, v), NEW Y, Y \subseteq sweeping \cup {q}
  PROVE  /\ Global(row, question', Y, done, boot, Placed)
         /\ \A r \in Run \ stale : Sane(r, row[r], question', done, torn, Placed)
<1>1. question'[q] = v /\ \A p \in Question : p # q => question'[p] = question[p]
  BY DEF SetQuestion, RepeatInv, Types, QuestionsOK
<1>2. QuestionsGo(question, question')
  BY <1>1 DEF QuestionsGo
<1>3. Global(row, question', Y, done, boot, Placed)
  <2>1. RowsGo(row, row, question, question', done, done)
    BY <1>1 DEF RowsGo, RepeatInv, Orderly, Global, Resting, Unstarted
  <2>2. ParentsStay(Placed, Placed) /\ DoneGoes(done, done)
    BY DEF ParentsStay, DoneGoes
  <2>3. \A p \in Y : p \in sweeping \/ question'[p].status # "none"
    BY <1>1
  <2>4. Global(row, question, sweeping, done, boot, Placed)
    BY DEF RepeatInv, Orderly
  <2> QED
    BY <1>2, <2>1, <2>2, <2>3, <2>4, GlobalKept
<1>4. ASSUME NEW r \in Run \ stale PROVE Sane(r, row[r], question', done, torn, Placed)
  <2>1. Sane(r, row[r], question, done, torn, Placed)
    BY DEF RepeatInv, AllSane, SaneRun
  <2>2. Calmer(r, question, question')
    BY <1>1 DEF Calmer, Closed
  <2> QED
    BY <2>1, <2>2, IdleStep
<1> QED
  BY <1>3, <1>4

\* ... and whoever attached is resumed by it.
LEMMA ResumesGoOn ==
  ASSUME RepeatInv, NEW q \in Question, NEW Q, NEW Y, Q[q].status # "none", boot = {},
         Global(row, Q, Y, done, boot, Placed),
         \A r \in Run \ stale : Sane(r, row[r], Q, done, torn, Placed), Resumes(q)
  PROVE  /\ Global(row, Q, Y, done, boot, Placed')
         /\ \A r \in Run \ stale : Sane(r, row[r], Q, done, torn, Placed')
<1> DEFINE g == RunOne(q[1], q[2], TRUE)
<1>1. CASE UNCHANGED thread
  <2>1. Placed' = Placed
    BY <1>1 DEF Placed, Places
  <2> QED
    BY <2>1
<1>2. CASE Spawn(g)
  <2> HIDE DEF g
  <2>1. PICK n : Placed' = Placed \cup {n} /\ n[3] = g
    BY <1>2, SpawnedPlace
  <2>2. n[3] = RunOne(q[1], q[2], TRUE)
    BY <2>1 DEF g
  <2>3. Resumer(n, q)
    BY <2>2, ResumerFrame
  <2>4. \A b \in boot : b.run # q[1]
    OBVIOUS
  <2> QED
    BY <2>1, <2>3, <2>4, AnsweredEnters
<1> QED
  BY <1>1, <1>2 DEF Resumes

\* An answer, a deadline swept and the resume the sweep starts.
LEMMA AnswerSane ==
  ASSUME RepeatInv, NEW q \in Question, NEW outcome, Answer(q, outcome)
  PROVE  Orderly' /\ AllSane'
<1> DEFINE v == [question[q] EXCEPT !.status = "answered", !.outcome = outcome]
<1>1. /\ boot = {} /\ question[q].status = "pending" /\ SetQuestion(q, v) /\ Resumes(q)
      /\ UNCHANGED <<row, sweeping, done, torn, stale, boot>>
  BY DEF Answer, faults
<1>2. v.status = "answered" /\ v.resume = question[q].resume /\ question'[q] = v
  BY <1>1 DEF RepeatInv, Types, QuestionsOK, QuestionType, SetQuestion
<1> HIDE DEF v
<1>3. /\ Global(row, question', sweeping, done, boot, Placed)
      /\ \A r \in Run \ stale : Sane(r, row[r], question', done, torn, Placed)
  BY <1>1, <1>2, DecideSane
<1>4. question'[q].status # "none"
  BY <1>2
<1>5. /\ Global(row, question', sweeping, done, boot, Placed')
      /\ \A r \in Run \ stale : Sane(r, row[r], question', done, torn, Placed')
  BY <1>1, <1>3, <1>4, ResumesGoOn
<1> QED
  BY <1>1, <1>5 DEF Orderly, AllSane, SaneRun

LEMMA SweepSane ==
  ASSUME RepeatInv, NEW q \in Question, Sweep(q)
  PROVE  Orderly' /\ AllSane'
<1> DEFINE v == [question[q] EXCEPT !.status = "timed_out", !.outcome = "timed_out"]
<1>1. /\ boot = {} /\ question[q].status = "pending" /\ SetQuestion(q, v) /\ sweeping' = {q}
      /\ UNCHANGED <<row, thread, done, torn, stale, boot>>
  BY DEF Sweep, faults, history
<1>2. v.status = "timed_out" /\ v.resume = question[q].resume
  BY DEF RepeatInv, Types, QuestionsOK, QuestionType
<1> HIDE DEF v
<1>3. /\ Global(row, question', {q}, done, boot, Placed)
      /\ \A r \in Run \ stale : Sane(r, row[r], question', done, torn, Placed)
  BY <1>1, <1>2, DecideSane
<1>4. Placed' = Placed
  BY <1>1 DEF Placed, Places
<1> QED
  BY <1>1, <1>3, <1>4 DEF Orderly, AllSane, SaneRun

LEMMA SweepResumesSane ==
  ASSUME RepeatInv, NEW q \in Question, SweepResumes(q)
  PROVE  Orderly' /\ AllSane'
<1>1. /\ q \in sweeping /\ sweeping' = {} /\ Resumes(q)
      /\ UNCHANGED <<row, question, done, torn, stale, boot>>
  BY DEF SweepResumes, history, faults
<1>2. boot = {} /\ question[q].status # "none"
  BY <1>1 DEF RepeatInv, Orderly, Global, Booted, AskedFirst
<1>3. /\ Global(row, question, {}, done, boot, Placed)
      /\ \A r \in Run \ stale : Sane(r, row[r], question, done, torn, Placed)
  BY <1>2 DEF RepeatInv, Orderly, AllSane, SaneRun, Global, AskedFirst, Booted
<1>4. /\ Global(row, question, {}, done, boot, Placed')
      /\ \A r \in Run \ stale : Sane(r, row[r], question, done, torn, Placed')
  BY <1>1, <1>2, <1>3, ResumesGoOn
<1> QED
  BY <1>1, <1>4 DEF Orderly, AllSane, SaneRun
-----------------------------------------------------------------------------
\* The process dies, and whatever was settled or recorded by nobody is torn.
LEMMA CrashSane ==
  ASSUME RepeatInv, Crash
  PROVE  Orderly' /\ AllSane'
<1>1. /\ torn' = torn \cup {Here(t) : t \in {u \in Thread : Untold(u)}}
      /\ thread' = [t \in Thread |-> <<>>] /\ sweeping' = {}
      /\ boot' = {[run |-> r, row |-> row[r]] : r \in {s \in Run : row[s].status = "running"}}
      /\ UNCHANGED <<row, question, done, stale>>
  BY DEF Crash
<1>2. Placed' = {}
  BY <1>1 DEF Placed, Places
<1>3. Global(row, question, sweeping, done, boot, Placed)
  BY DEF RepeatInv, Orderly
<1>4. Global(row, question, {}, done, boot', {})
  <2>1. AskedFirst(question, {}) /\ DoneAt(done) /\ Resting(row) /\ Framed({}, question)
    BY <1>3 DEF Global, AskedFirst, Framed
  <2>2. Booted(boot', row, {}, {})
    BY <1>1 DEF Booted
  <2>3. Unstarted(row, done, question, {})
    BY <1>3 DEF Global, Unstarted
  <2> QED
    BY <2>1, <2>2, <2>3 DEF Global
<1>5. ASSUME NEW r \in Run, r \notin stale PROVE Sane(r, row[r], question, done, torn', {})
  <2>1. Sane(r, row[r], question, done, torn, Placed)
    BY <1>5 DEF RepeatInv, AllSane, SaneRun
  <2>2. torn \subseteq torn'
    BY <1>1
  <2>3. row[r].cursor # 0 => row[r].status \in {"running", "waiting"}
    BY <1>3 DEF Global, Resting, Rests
  <2>4. ASSUME NEW i \in DOMAIN Flow[r]
        PROVE  i # 0 /\ (done[<<r, i>>] # 0 => HasEffect(r, i) \/ <<r, i>> \in Question)
    <3>1. <<r, i>> \in At /\ i # 0
      BY Runs DEF At
    <3> QED
      BY <1>3, <3>1 DEF Global, DoneAt
  <2>5. ASSUME NEW u \in Placed, u[3].run = r, Ending(u[3]), HasEffect(r, u[3].at)
        PROVE  <<r, u[3].at>> \in torn' \/ row[r].attempt = u[3].at
    <3>1. u[1] \in Thread /\ thread[u[1]] # <<>> /\ u = Spot(u[1])
      BY <2>5, FramesInPlace DEF RepeatInv, Ending
    <3> DEFINE t == u[1]
    <3>2. u[3] = Top(t)
      BY <3>1 DEF Spot
    <3> HIDE DEF t
    <3>3. Is(t, "settle") \/ Is(t, "record")
      BY <2>5, <3>1, <3>2 DEF Is, Ending, t
    <3>4. t \in Thread
      BY <3>1 DEF t
    <3>5. CASE row[r].attempt # u[3].at
      <4>1. Untold(t)
        BY <2>5, <3>2, <3>3, <3>5 DEF Untold
      <4>2. Here(t) = <<r, u[3].at>>
        BY <2>5, <3>2 DEF Here
      <4> QED
        BY <1>1, <3>4, <4>1, <4>2
    <3> QED
      BY <3>5
  <2> QED
    BY <2>1, <2>2, <2>3, <2>4, <2>5, Crashing
<1> QED
  BY <1>1, <1>2, <1>4, <1>5 DEF Orderly, AllSane, SaneRun

\* The call the boot starts for a run that has come to an end.
BootTrace(r, end) == [RunOne(r, 0, FALSE) EXCEPT !.pc = "trace", !.end = end]
LEMMA BootFrame ==
  ASSUME NEW r, NEW end \in Terminal
  PROVE  /\ BootTrace(r, end).run = r /\ BootTrace(r, end).pc = "trace"
         /\ BootTrace(r, end).why = "none" /\ ~BootTrace(r, end).op
         /\ BootTrace(r, end).end # "waiting"
<1> DEFINE f == RunOne(r, 0, FALSE)
           g == BootTrace(r, end)
<1>1. f = [Frame0 EXCEPT !.run = r, !.at = 0, !.first = FALSE]
  BY DEF RunOne
<1>2. g = [f EXCEPT !.pc = "trace", !.end = end]
  BY DEF BootTrace
<1> HIDE DEF f, g
<1>3. f \in [run : {r}, pc : {"start"}, at : {0}, end : {"none"}, why : {"none"},
             first : {FALSE}, op : {FALSE}]
  BY <1>1, Frame0IsBlank DEF Blank
<1>4. g.run = r /\ g.pc = "trace" /\ g.why = "none" /\ g.op \in {FALSE} /\ g.end = end
  BY <1>2, <1>3
<1>5. g.end # "waiting" /\ ~g.op
  BY <1>4 DEF Terminal
<1> QED
  BY <1>4, <1>5 DEF g

\* The boot ends a run, or resumes it where its row leads.
LEMMA RecoverSane ==
  ASSUME RepeatInv, Recover
  PROVE  Orderly' /\ AllSane'
<1>1. PICK b \in boot :
        /\ boot' = boot \ {b}
        /\ \/ \E end \in Terminal :
                Spawn([RunOne(b.run, 0, FALSE) EXCEPT !.pc = "trace", !.end = end])
           \/ ~InFlight(b) /\ b.row.cursor # 0 /\ Spawn(RunOne(b.run, b.row.cursor, TRUE))
        /\ UNCHANGED <<row, question, sweeping, done, torn, stale>>
  <2>1. "error" \in Terminal
    BY DEF Terminal
  <2> QED
    BY <2>1 DEF Recover, history
<1> DEFINE r == b.run
           w == b.row
<1>2. /\ row[r] = w /\ w.status = "running" /\ \A u \in Placed : u[3].run # r
      /\ r \in Run
  BY DEF RepeatInv, Orderly, Global, Booted, Types, Rest
<1>3. \A c \in boot' : c.run # r
  <2>1. \A c \in boot : c \in [run : Run, row : RowType(Step)] /\ row[c.run] = c.row
    BY DEF RepeatInv, Orderly, Global, Booted, Types, Rest
  <2>2. \A c \in boot : c.run = r => c = b
    BY <2>1
  <2> QED
    BY <1>1, <2>2
<1>4. /\ Global(row, question, sweeping, done, boot', Placed)
      /\ \A s \in Run \ stale : Sane(s, row[s], question, done, torn, Placed)
  BY <1>1 DEF RepeatInv, Orderly, AllSane, SaneRun, Global, Booted
<1>5. PICK f, n : /\ Spawn(f) /\ Placed' = Placed \cup {n} /\ n[3] = f
                  /\ \/ \E end \in Terminal :
                          f = [RunOne(b.run, 0, FALSE) EXCEPT !.pc = "trace", !.end = end]
                     \/ ~InFlight(b) /\ b.row.cursor # 0 /\ f = RunOne(b.run, b.row.cursor, TRUE)
  BY <1>1, SpawnedPlace
<1>6. CASE \E end \in Terminal : f = [RunOne(r, 0, FALSE) EXCEPT !.pc = "trace", !.end = end]
  <2>1. f.run = r /\ f.pc = "trace" /\ f.why = "none" /\ ~f.op /\ f.end # "waiting"
    <3>1. PICK end \in Terminal : f = BootTrace(r, end)
      BY <1>6, Zenon DEF BootTrace
    <3> QED
      BY <3>1, BootFrame
  <2>2. FrameOK(f, question) /\ ~Ready(f) /\ ~Gone(f) /\ ~Entered(f)
    BY <2>1 DEF FrameOK, Ready, Gone, Passing, Entered, Ending
  <2> HIDE DEF r, w
  <2>3. Fits(n, row, question, boot', Placed')
    BY <1>2, <1>3, <1>5, <2>1, <2>2 DEF Fits
  <2>4. /\ Global(row, question, sweeping, done, boot', Placed')
        /\ \A s \in Run \ stale : Sane(s, row[s], question, done, torn, Placed')
    BY <1>4, <1>5, <2>2, <2>3, IdleMore
  <2> QED
    BY <1>1, <2>4 DEF Orderly, AllSane, SaneRun
<1>7. CASE ~InFlight(b) /\ w.cursor # 0 /\ f = RunOne(r, w.cursor, TRUE)
  <2>1. f.run = r /\ f.at = w.cursor /\ f.pc = "start" /\ f.why = "none" /\ ~f.op
    <3>1. PICK yes \in BOOLEAN : f = RunOne(r, w.cursor, yes)
      BY <1>7
    <3> DEFINE i == w.cursor
    <3> HIDE DEF i, r
    <3> QED
      BY <3>1, StartFields DEF i
  <2>2. w.attempt = 0 \/ Flow[r][w.attempt].idempotent
    BY <1>7 DEF InFlight
  <2> HIDE DEF r, w
  <2>3. FrameOK(f, question)
    BY <2>1 DEF FrameOK
  <2>4. Fits(n, row, question, boot', Placed')
    BY <1>2, <1>3, <1>5, <2>1, <2>3 DEF Fits
  <2>5. Global(row, question, sweeping, done, boot', Placed')
    BY <1>4, <1>5, <2>4, OneMore
  <2>6. ASSUME NEW s \in Run \ stale PROVE Sane(s, row[s], question, done, torn, Placed')
    <3>1. Sane(s, row[s], question, done, torn, Placed) /\ Calmer(s, question, question)
      BY <1>4, SameQuestions
    <3>2. CASE s # r
      <4>1. \A u \in Placed' : u[3].run = s => u \in Placed
        BY <1>5, <2>1, <3>2
      <4>2. Placed \subseteq Placed'
        BY <1>5
      <4> QED
        BY <3>1, <4>1, <4>2, IdleStep
    <3>3. CASE s = r
      <4>1. Sane(r, row[r], question, done, torn, Placed)
        BY <3>1, <3>3
      <4>2. /\ row[r].status = "running" /\ row[r].cursor # 0
            /\ row[r].attempt = 0 \/ Flow[r][row[r].attempt].idempotent
            /\ n[3].run = r /\ n[3].at = row[r].cursor /\ n[3].pc \in {"unrequest", "start"}
        BY <1>2, <1>5, <1>7, <2>1, <2>2
      <4>3. Sane(r, row[r], question, done, torn, Placed')
        BY <1>2, <1>5, <4>1, <4>2, BootEnters
      <4> QED
        BY <3>3, <4>3
    <3> QED
      BY <3>2, <3>3
  <2> QED
    BY <1>1, <2>5, <2>6 DEF Orderly, AllSane, SaneRun
<1> QED
  BY <1>5, <1>6, <1>7
-----------------------------------------------------------------------------
\* The invariant holds at first, and every step keeps it.
LEMMA RepeatStart == Init => RepeatInv
<1> SUFFICES ASSUME Init PROVE RepeatInv
  OBVIOUS
<1>1. Types /\ Threads
  BY TypesInit
<1>2. Placed = {}
  BY DEF Init, Placed, Places
<1>3. /\ \A r \in Run : row[r].status = "none" /\ row[r].cursor = 0
      /\ \A q \in Question : question[q].status = "none" /\ ~question[q].resume
      /\ \A a \in At : done[a] = 0
      /\ sweeping = {} /\ boot = {}
  BY DEF Init, NoRow, Unasked
<1>4. Orderly
  <2>1. Framed({}, question) /\ AskedFirst(question, {}) /\ DoneAt(done) /\ Booted({}, row, {}, {})
        /\ Resting(row)
    BY <1>3 DEF Framed, AskedFirst, DoneAt, Booted, Resting, Rests
  <2>2. Unstarted(row, done, question, {})
    BY <1>3 DEF Unstarted, At
  <2> QED
    BY <1>2, <1>3, <2>1, <2>2 DEF Orderly, Global
<1>5. ASSUME NEW r \in Run PROVE Sane(r, row[r], question, done, torn, {})
  <2>1. \A i : ~Open(<<r, i>>, question)
    BY <1>3 DEF Open
  <2>2. Abled(r, question, {}) = {}
    BY DEF Abled
  <2>3. \A i \in DOMAIN Flow[r] : done[<<r, i>>] = 0
    BY <1>3 DEF At
  <2> QED
    BY <2>1, <2>2, <2>3 DEF Sane, OneOpen, Crowd, Alone, Near, Past, OnceOut
<1> QED
  BY <1>1, <1>2, <1>4, <1>5 DEF RepeatInv, AllSane, SaneRun

LEMMA RepeatStep == RepeatInv /\ [Next]_vars => RepeatInv'
<1> SUFFICES ASSUME RepeatInv, [Next]_vars PROVE RepeatInv'
  OBVIOUS
<1>1. Types' /\ Threads'
  BY TypesStep DEF RepeatInv
<1>2. CASE UNCHANGED vars
  <2>1. UNCHANGED <<row, question, sweeping, done, boot, torn, stale, thread>>
    BY <1>2 DEF vars, history, faults
  <2>2. Placed' = Placed
    BY <2>1 DEF Placed, Places
  <2>3. Orderly' /\ AllSane'
    BY <2>1, <2>2 DEF RepeatInv, Orderly, AllSane, SaneRun
  <2> QED
    BY <1>1, <2>3 DEF RepeatInv
<1>3. CASE Next
  <2>1. ASSUME NEW r \in Run, Start(r) \/ Pause(r) \/ Resume(r) \/ Cancel(r)
        PROVE  Orderly' /\ AllSane'
    BY <2>1, StartSane, OperatorSane, ResumeSane
  <2>2. ASSUME NEW t \in Thread, Move(t) PROVE Orderly' /\ AllSane'
    BY <2>2, MoveSane
  <2>3. ASSUME NEW q \in Question, NEW outcome, Answer(q, outcome) \/ Sweep(q) \/ SweepResumes(q)
        PROVE  Orderly' /\ AllSane'
    BY <2>3, AnswerSane, SweepSane, SweepResumesSane
  <2>4. Orderly' /\ AllSane'
    BY <1>3, <2>1, <2>2, <2>3, CrashSane, RecoverSane DEF Next
  <2> QED
    BY <1>1, <2>4 DEF RepeatInv
<1> QED
  BY <1>2, <1>3

\* A call goes out twice only if its step is declared idempotent, if a crash came
\* between the end of the step and its checkpoint with no attempt left in flight,
\* or if the row of its run was overwritten by the write that parked it: whatever
\* the flows, however answers, resumes, wake-ups, cancels, crashes and boots
\* interleave (run.ts settles, records and resumes; flows.ts claims and boots).
THEOREM RepeatsAreExplained == Spec => []RepeatsNeedAWindow
<1>1. RepeatInv => RepeatsNeedAWindow
  <2> SUFFICES ASSUME RepeatInv, NEW a \in At, done[a] > 1, a \notin torn, a[1] \notin stale,
                      ~Flow[a[1]][a[2]].idempotent
               PROVE  FALSE
    BY DEF RepeatsNeedAWindow
  <2>1. a[1] \in Run /\ a[2] \in DOMAIN Flow[a[1]] /\ a = <<a[1], a[2]>>
    BY DEF At
  <2>2. Sane(a[1], row[a[1]], question, done, torn, Placed)
    BY <2>1 DEF RepeatInv, AllSane, SaneRun
  <2>3. done[a] \in Nat
    BY DEF RepeatInv, Types, Counters
  <2>4. done[a] = 1
    BY <2>1, <2>2, <2>3 DEF Sane, OnceOut
  <2> QED
    BY <2>4
<1> QED
  BY <1>1, RepeatStart, RepeatStep, PTL DEF Spec
=============================================================================
