--------------------------- MODULE ConnectorAsks ----------------------------
(***************************************************************************)
(* One write a connector asks a person about, and the record that decides  *)
(* whether it may go out (packages/orchestrator/src/connectorAsks.ts, the  *)
(* table of packages/db/src/connectors.ts).  The record is named after the *)
(* run, the agent, the route and the arguments, so whoever reaches that    *)
(* write again, in any order, finds it.  Every change is made in memory    *)
(* and sent to the store, which answers later: writes land in any order,   *)
(* or fail and are only logged, and outlive the process.                   *)
(***************************************************************************)
EXTENDS Naturals, FiniteSets

CONSTANTS MaxAnswers, MaxSaves,    \* bounds: answers decided, writes sent,
          MaxRevivals              \* and stale yeses read back

ASSUME AsksAssumption == {MaxAnswers, MaxSaves, MaxRevivals} \subseteq Nat

VARIABLES ask,          \* the record in memory, "none" before the question
          askRow,       \* its row, with the number of the write it is from
          saves,        \* saveConnectorAsk calls not yet answered
          saved,        \* number of writes sent
          gateUp,       \* the process is up
          yeses,        \* history: answers that said yes,
          callsOut,     \* and calls that went out
          revived       \* history: starts that read a yes from a row that was
                        \* not the last one sent

asksVars == <<ask, askRow, saves, saved, gateUp, yeses, callsOut, revived>>

Shut   == {"declined", "expired", "cancelled"}
Settled  == {"approved"} \cup Shut
AskState == {"none", "pending", "consumed"} \cup Settled

AsksInit ==
  /\ ask = "none" /\ askRow = [number |-> 0, status |-> "none"]
  /\ saves = {} /\ saved = 0
  /\ gateUp = TRUE
  /\ yeses = 0 /\ callsOut = 0
  /\ revived = 0

\* persist: the record is sent as it is now.  A gate that waits for the answer
\* to let its call go is noted in calling.
Send(status, calling) ==
  /\ gateUp /\ saved < MaxSaves
  /\ ask' = status
  /\ saved' = saved + 1
  /\ saves' = saves \cup {[number |-> saved + 1, status |-> status, calling |-> calling]}
  /\ UNCHANGED <<askRow, gateUp, callsOut, revived>>

\* gate, where there is no record: the question is posted, the run waits.
PostQuestion == ask = "none" /\ Send("pending", FALSE) /\ UNCHANGED yeses

\* A mutant of LetOut: the record is spent once the store has answered.
LetOutFirst == ask = "approved" /\ Send("approved", TRUE) /\ UNCHANGED yeses

\* gate on a yes: it is spent, and the call goes out.
LetOut == ask = "approved" /\ Send("consumed", TRUE) /\ UNCHANGED yeses

\* gate on anything else that was decided: spent, and the step is refused.  A
\* pending record keeps the run waiting; a spent one refuses it.
Refuse == ask \in Shut /\ Send("consumed", FALSE) /\ UNCHANGED yeses

\* observe: an answer to the question of a pending record.
AnswerYes ==
  /\ ask = "pending" /\ yeses < MaxAnswers
  /\ Send("approved", FALSE)
  /\ yeses' = yeses + 1

\* observe of a no, expireIfDue of a gate or the sweep, cancelRun.
CloseAsk == ask = "pending" /\ (\E s \in Shut : Send(s, FALSE)) /\ UNCHANGED yeses

\* An answer that is neither: the question is posted again; and attachResume,
\* which saves the record whatever it has become.
Resend == ask # "none" /\ Send(ask, FALSE) /\ UNCHANGED yeses

\* saveConnectorAsk answers, landed or failed.
SaveAnswers(w) ==
  /\ saves' = saves \ {w}
  /\ callsOut' = IF w.calling THEN callsOut + 1 ELSE callsOut
  /\ \/ askRow' = [number |-> w.number, status |-> w.status]
     \/ UNCHANGED askRow
  /\ UNCHANGED <<ask, saved, gateUp, yeses, revived>>

GateStops ==
  /\ gateUp
  /\ gateUp' = FALSE
  /\ ask' = "none"
  /\ saves' = {[w EXCEPT !.calling = FALSE] : w \in saves}
  /\ UNCHANGED <<askRow, saved, yeses, callsOut, revived>>

\* A yes that the row still has although something was sent after it.
StaleYes == askRow.status = "approved" /\ askRow.number # saved

\* hydrate reads the newest records only, or fails, and the process starts
\* without it.
GateStarts ==
  /\ ~gateUp
  /\ gateUp' = TRUE
  /\ \/ /\ ask' = askRow.status
        /\ revived' = IF StaleYes THEN revived + 1 ELSE revived
        /\ revived' <= MaxRevivals
     \/ UNCHANGED <<ask, revived>>
  /\ UNCHANGED <<askRow, saves, saved, yeses, callsOut>>

AsksNext ==
  \/ PostQuestion \/ LetOut \/ Refuse \/ AnswerYes \/ CloseAsk \/ Resend
  \/ \E w \in saves : SaveAnswers(w)
  \/ GateStops \/ GateStarts

AsksSpec == AsksInit /\ [][AsksNext]_asksVars
-----------------------------------------------------------------------------
(* Properties.                                                             *)
AsksTypeOK ==
  /\ ask \in AskState
  /\ askRow \in [number : 0 .. saved, status : AskState]
  /\ saved \in 0 .. MaxSaves /\ yeses \in 0 .. MaxAnswers /\ callsOut \in Nat
  /\ saves \subseteq [number : 1 .. saved, status : AskState, calling : BOOLEAN]
  /\ gateUp \in BOOLEAN /\ revived \in 0 .. MaxRevivals

Leaving == {w \in saves : w.calling}

\* "Answer yes to let this call go out once" (connectorAsks.ts:305), with what
\* restarts do to it: the calls that have gone out, or wait for the store to go,
\* are never more than the yeses given and the yeses a restart read back from a
\* row that a later write had yet to replace, or never did.  A yes in memory, in
\* a write under way and in the row is one yes, and each stale one adds one call.
OneYesOneCall == callsOut + Cardinality(Leaving) <= yeses + revived

\* What the comment says, of every restart.  The code does not keep it: the
\* write of a yes is not waited for and may land after that of its spending.
YesIsSpentOnce == callsOut + Cardinality(Leaving) <= yeses
=============================================================================
