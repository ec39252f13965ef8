--------------------------- MODULE AgentControls ----------------------------
(***************************************************************************)
(* What an operator leaves standing about one agent: whether it is paused, *)
(* and its brief (packages/orchestrator/src/agentControls.ts, the table of *)
(* packages/db/src/runtime.ts).  A command changes the memory of the       *)
(* process and sends the whole row to the store without waiting: writes in *)
(* flight land in any order, or not at all, and outlive the process.       *)
(***************************************************************************)
EXTENDS Naturals, FiniteSets

CONSTANTS Directive,    \* the briefs an operator writes
          NoBrief,      \* the cleared one
          MaxWrites     \* bound: writes sent

ASSUME ControlsAssumption == NoBrief \notin Directive /\ MaxWrites \in Nat

VARIABLES serving,      \* the process is up
          standing,     \* AgentControls.paused and .briefs
          stored,       \* the agent's row, with the number of its write
          writes,       \* saveAgentControl calls not yet answered
          issued,       \* number of writes sent
          wish,         \* history: what was last commanded of each field
          since,        \* history: number of the first write to carry it,
          undone          \* history: fields not commanded since a restart that
                        \* read none of the writes that carry their command

controlsVars == <<serving, standing, stored, writes, issued, wish, since, undone>>

Field   == {"paused", "brief"}
AgentControl == [paused : BOOLEAN, brief : Directive \cup {NoBrief}]
Nothing == [paused |-> FALSE, brief |-> NoBrief]

ControlsInit ==
  /\ serving = TRUE
  /\ standing = Nothing /\ stored = [number |-> 0, control |-> Nothing]
  /\ wish = Nothing
  /\ writes = {} /\ issued = 0
  /\ since = [f \in Field |-> 0] /\ undone = {}

\* persist: the row is overwritten whole.
Persist(control) ==
  /\ issued < MaxWrites
  /\ issued' = issued + 1
  /\ writes' = writes \cup {[number |-> issued + 1, control |-> control]}

Commanded(f, control) ==
  /\ standing' = control
  /\ Persist(control)
  /\ wish' = [wish EXCEPT ![f] = control[f]]
  /\ since' = [since EXCEPT ![f] = issued + 1]
  /\ undone' = undone \ {f}
  /\ UNCHANGED <<serving, stored>>

\* A second pause changes nothing and is not written.  Given to a process that
\* is paused by what an old row said, it goes with the next write.
PauseGate ==
  /\ serving
  /\ IF standing.paused
     THEN /\ wish' = [wish EXCEPT !.paused = TRUE]
          /\ since' = IF "paused" \in undone THEN [since EXCEPT !["paused"] = issued + 1] ELSE since
          /\ undone' = undone \ {"paused"}
          /\ UNCHANGED <<serving, standing, stored, writes, issued>>
     ELSE Commanded("paused", [standing EXCEPT !.paused = TRUE])

\* A resume is always written: the row may still say paused.
ResumeGate ==
  /\ serving
  /\ Commanded("paused", [standing EXCEPT !.paused = FALSE])

\* A mutant of SetBrief: the row is written without what the brief says nothing
\* about.
SetBriefAlone(b) ==
  /\ serving
  /\ standing' = [standing EXCEPT !.brief = b]
  /\ Persist([Nothing EXCEPT !.brief = b])
  /\ wish' = [wish EXCEPT !.brief = b]
  /\ since' = [since EXCEPT !["brief"] = issued + 1]
  /\ undone' = undone \ {"brief"}
  /\ UNCHANGED <<serving, stored>>

SetBrief(b) ==
  /\ serving
  /\ Commanded("brief", [standing EXCEPT !.brief = b])

SaveLands(w) ==
  /\ stored' = w
  /\ writes' = writes \ {w}
  /\ UNCHANGED <<serving, standing, issued, wish, since, undone>>

\* A failed write is only logged.
SaveLost(w) ==
  /\ writes' = writes \ {w}
  /\ UNCHANGED <<serving, standing, stored, issued, wish, since, undone>>

ProcessStops ==
  /\ serving
  /\ serving' = FALSE
  /\ standing' = Nothing
  /\ UNCHANGED <<stored, writes, issued, wish, since, undone>>

\* hydrate, before the server listens: the process starts even when the row
\* cannot be read, and then with nothing standing.
Hydrate ==
  /\ ~serving
  /\ serving' = TRUE
  /\ \/ /\ standing' = stored.control
        /\ undone' = undone \cup {f \in Field : since[f] > stored.number}
     \/ /\ standing' = Nothing
        /\ undone' = undone \cup {f \in Field : since[f] > 0}
  /\ UNCHANGED <<stored, writes, issued, wish, since>>

Saves == \E w \in writes : SaveLands(w) \/ SaveLost(w)

ControlsNext ==
  \/ PauseGate \/ ResumeGate
  \/ \E b \in Directive \cup {NoBrief} : SetBrief(b)
  \/ Saves \/ ProcessStops \/ Hydrate

ControlsSpec == ControlsInit /\ [][ControlsNext]_controlsVars
-----------------------------------------------------------------------------
(* Properties.                                                             *)
ControlsTypeOK ==
  /\ serving \in BOOLEAN
  /\ {standing, wish} \subseteq AgentControl
  /\ issued \in 0 .. MaxWrites
  /\ stored \in [number : 0 .. issued, control : AgentControl]
  /\ writes \subseteq [number : 1 .. issued, control : AgentControl]
  /\ since \in [Field -> Nat] /\ undone \subseteq Field

\* "A restart restores exactly what an operator left" (agentControls.ts:263),
\* for a store whose writes are lost and overtake one another: the memory holds
\* the last command on each field, and so does the row when the write it is from
\* was sent with or after that command, whichever write it is and whatever was
\* commanded of the other field.  Only a restart on a row from before a command
\* (its write lost, overtaken or still out), or on none, undoes it, for that
\* field and until it is commanded again.
WishesStand ==
  \A f \in Field \ undone :
    /\ serving => standing[f] = wish[f]
    /\ stored.number >= since[f] => stored.control[f] = wish[f]

\* What one command says nothing about stays as it was stored.  The code does
\* not keep it: after a failed hydration a pause erases the stored brief, and a
\* new brief the stored pause.
CommandsKeepTheRest ==
  [][\A w \in writes : SaveLands(w) => \E f \in Field : stored'.control[f] = stored.control[f]]_controlsVars
=============================================================================
