----------------------------- MODULE Heartbeats -----------------------------
(***************************************************************************)
(* The sweep of the minute (orchestrator/src/server.ts onFlowCron): cron   *)
(* flows (runCronDue, flows.ts) and then the crew's heartbeat              *)
(* (heartbeat.ts, the Postgres store of heartbeatStore.ts), which an       *)
(* operator can also run by hand.  One crew, one cron flow.                *)
(***************************************************************************)
EXTENDS JobQueue

CONSTANTS MaxMinute,   \* bound: the clock
          CronDue,     \* the minutes in which the cron flow is due,
          BeatDue,     \* and the heartbeat
          Stale,       \* the minutes after which a running tick is given up
          MaxPresses,  \* bounds: how often the operator presses Run now,
          MaxBeatsCrashes \* and crashes

MinuteSweep == "sweep"

Minute == 1 .. MaxMinute

ASSUME TimeAssumption ==
  /\ MaxMinute \in Nat \ {0} /\ CronDue \subseteq Minute /\ BeatDue \subseteq Minute
  /\ {Stale, MaxPresses, MaxBeatsCrashes} \subseteq Nat

VARIABLES clock,
          fired,       \* cronFiredAt, in the memory of a replica
          fires,       \* history: how often the cron flow fired in a minute
          ticks,       \* orchestrator_crew_heartbeat_ticks, oldest first
          inFlight,    \* the replicas that are working through the checklist
          beat,        \* what a replica's sweep and its pressed run are doing
          presses,
          worked,      \* history: how often the checklist was worked by window
          raced,       \* history: a tick was claimed since busy looked
          beatsCrashes

beatsVars == <<jobs, clock, fired, fires, ticks, inFlight, beat, presses, worked,
               raced, beatsCrashes>>

\* A pressed run has a window of its own, numbered past the clock.
Pressed(n) == MaxMinute + n
Window == 1 .. MaxMinute + MaxPresses
Turn   == {"sweep", "press"}

NoBeat == [pc |-> "idle", window |-> 0, job |-> 0, seen |-> 0]

BeatsInit ==
  /\ jobs = <<>>
  /\ clock = 1
  /\ fired = [p \in Replica |-> 0]
  /\ fires = [m \in Minute |-> 0]
  /\ ticks = <<>>
  /\ inFlight = {}
  /\ beat = [p \in Replica |-> [s \in Turn |-> NoBeat]]
  /\ presses = 0
  /\ worked = [w \in Window |-> 0]
  /\ raced = FALSE
  /\ beatsCrashes = 0

Beats(p, s, pc) == beat' = [beat EXCEPT ![p][s].pc = pc]
\* The sweep or the request is over.
Over(p, s) ==
  /\ beat' = [beat EXCEPT ![p][s] = NoBeat]
  /\ jobs' = IF s = "sweep" THEN Finished(beat[p][s].job) ELSE jobs

TakeSweep(p, i) ==
  /\ beat[p]["sweep"] = NoBeat
  /\ Queued(i)
  /\ jobs' = Taken(i)
  /\ beat' = [beat EXCEPT ![p]["sweep"] = [NoBeat EXCEPT !.pc = "fire", !.job = i]]
  /\ UNCHANGED <<clock, fired, fires, ticks, inFlight, presses, worked, raced, beatsCrashes>>

\* runCronDue: the minute is the one in which the job is worked on, and what
\* this replica has fired is in its memory only.
Fire(p) ==
  /\ beat[p]["sweep"].pc = "fire"
  /\ IF clock \in CronDue /\ fired[p] # clock
     THEN /\ fired' = [fired EXCEPT ![p] = clock]
          /\ fires' = [fires EXCEPT ![clock] = @ + 1]
     ELSE UNCHANGED <<fired, fires>>
  /\ Beats(p, "sweep", "due")
  /\ UNCHANGED <<jobs, clock, ticks, inFlight, presses, worked, raced, beatsCrashes>>

Due(p) ==
  /\ beat[p]["sweep"].pc = "due"
  /\ IF clock \in BeatDue
     THEN /\ beat' = [beat EXCEPT ![p]["sweep"].pc = "busy", ![p]["sweep"].window = clock]
          /\ UNCHANGED jobs
     ELSE Over(p, "sweep")
  /\ UNCHANGED <<clock, fired, fires, ticks, inFlight, presses, worked, raced, beatsCrashes>>

\* runNow, unless a budget holds it.
Press(p) ==
  /\ beat[p]["press"] = NoBeat
  /\ presses < MaxPresses
  /\ presses' = presses + 1
  /\ beat' = [beat EXCEPT ![p]["press"] =
                [NoBeat EXCEPT !.pc = "busy", !.window = Pressed(presses + 1)]]
  /\ UNCHANGED <<jobs, clock, fired, fires, ticks, inFlight, worked, raced, beatsCrashes>>

\* A mutant of Occupied: this replica only.
OccupiedHere(p) == p \in inFlight

\* busy: this replica is mid-tick, or the newest tick is running and not stale.
Occupied(p) ==
  \/ p \in inFlight
  \/ /\ ticks # <<>>
     /\ LET last == ticks[Len(ticks)] IN last.running /\ clock - last.since < Stale

\* A budget may hold the crew's timer, too.
Check(p, s) ==
  /\ beat[p][s].pc = "busy"
  /\ \/ /\ ~Occupied(p)
        /\ beat' = [beat EXCEPT ![p][s].pc = "claim", ![p][s].seen = Len(ticks)]
        /\ UNCHANGED jobs
     \/ Over(p, s)
  /\ UNCHANGED <<clock, fired, fires, ticks, inFlight, presses, worked, raced, beatsCrashes>>

\* A mutant of Ticked: a tick that is over is not looked at.
TickedNow(w) == \E i \in DOMAIN ticks : ticks[i].window = w /\ ticks[i].running
Ticked(w) == \E i \in DOMAIN ticks : ticks[i].window = w

ClaimTick(p, s) ==
  LET w == beat[p][s].window IN
  /\ beat[p][s].pc = "claim"
  /\ IF Ticked(w) THEN Over(p, s) /\ UNCHANGED <<ticks, inFlight, worked, raced>>
     ELSE /\ ticks' = Append(ticks, [window |-> w, running |-> TRUE, since |-> clock])
          /\ inFlight' = inFlight \cup {p}
          /\ worked' = [worked EXCEPT ![w] = @ + 1]
          /\ raced' = (raced \/ Len(ticks) # beat[p][s].seen)
          /\ beat' = [beat EXCEPT ![p][s].pc = "items", ![p][s].seen = 0]
          /\ UNCHANGED jobs
  /\ UNCHANGED <<clock, fired, fires, presses, beatsCrashes>>

\* The checklist is done.  A replica remembers one tick of a crew.
Items(p, s) ==
  /\ beat[p][s].pc = "items"
  /\ inFlight' = inFlight \ {p}
  /\ Beats(p, s, "settle")
  /\ UNCHANGED <<jobs, clock, fired, fires, ticks, presses, worked, raced, beatsCrashes>>

\* A failed write is only logged.
SettleTick(p, s) ==
  /\ beat[p][s].pc = "settle"
  /\ \/ ticks' = [i \in DOMAIN ticks |->
                    IF ticks[i].window = beat[p][s].window
                    THEN [ticks[i] EXCEPT !.running = FALSE] ELSE ticks[i]]
     \/ UNCHANGED ticks
  /\ Over(p, s)
  /\ UNCHANGED <<clock, fired, fires, inFlight, presses, worked, raced, beatsCrashes>>

\* A replica dies and is started again; its job expires.
BeatsCrash(p) ==
  /\ beatsCrashes < MaxBeatsCrashes
  /\ beatsCrashes' = beatsCrashes + 1
  /\ fired' = [fired EXCEPT ![p] = 0]
  /\ inFlight' = inFlight \ {p}
  /\ beat' = [beat EXCEPT ![p] = [s \in Turn |-> NoBeat]]
  /\ UNCHANGED <<jobs, clock, fires, ticks, presses, worked, raced>>

\* The schedule sends one sweep a minute, whatever the replicas are doing.
NextMinute ==
  /\ clock < MaxMinute
  /\ clock' = clock + 1
  /\ jobs' = Sent(MinuteSweep)
  /\ UNCHANGED <<fired, fires, ticks, inFlight, beat, presses, worked, raced, beatsCrashes>>

SweepAgain(i) ==
  Expire(i) /\ UNCHANGED <<clock, fired, fires, ticks, inFlight, beat, presses, worked, raced, beatsCrashes>>

BeatsNext ==
  \/ NextMinute
  \/ \E p \in Replica :
       \/ \E i \in DOMAIN jobs : TakeSweep(p, i)
       \/ Fire(p) \/ Due(p) \/ Press(p) \/ BeatsCrash(p)
       \/ \E s \in Turn : Check(p, s) \/ ClaimTick(p, s) \/ Items(p, s) \/ SettleTick(p, s)
  \/ \E i \in DOMAIN jobs : SweepAgain(i)

BeatsSpec == BeatsInit /\ [][BeatsNext]_beatsVars
-----------------------------------------------------------------------------
(* Properties.                                                             *)
BeatsTypeOK ==
  /\ jobs \in Seq(JobAbout({MinuteSweep}))
  /\ clock \in Minute
  /\ fired \in [Replica -> Minute \cup {0}]
  /\ fires \in [Minute -> Nat]
  /\ ticks \in Seq([window : Window, running : BOOLEAN, since : Minute])
  /\ inFlight \subseteq Replica
  /\ beat \in [Replica -> [Turn -> [pc : {"idle", "fire", "due", "busy", "claim", "items",
                                          "settle"},
                                    window : Window \cup {0}, job : Nat, seen : Nat]]]
  /\ presses \in 0 .. MaxPresses
  /\ worked \in [Window -> Nat]
  /\ raced \in BOOLEAN
  /\ beatsCrashes \in 0 .. MaxBeatsCrashes

\* The checklist of a window is worked through at most once, however often
\* the sweep of that minute is handed out, by however many replicas
\* (heartbeat.ts sweep, claimCrewHeartbeatTick).
WindowOnce == \A w \in Window : worked[w] <= 1

\* Two checklists run at the same time only if the older was given up as stale,
\* or if a tick was claimed between another's look at the ledger and its own
\* claim ("Concurrent ticks are coalesced", heartbeat.md).
Running == {a \in Replica \X Turn : beat[a[1]][a[2]].pc = "items"}
IsStale(p, s) == \E i \in DOMAIN ticks :
  ticks[i].window = beat[p][s].window /\ clock - ticks[i].since >= Stale
OverlapIsExplained ==
  \A a, b \in Running : a # b =>
    raced \/ IsStale(a[1], a[2]) \/ IsStale(b[1], b[2])

\* "a multi-replica deployment fires each due flow once rather than once each"
\* (server.ts).  The code does not keep it.
CronFiresOnce == \A m \in Minute : fires[m] <= 1

\* What does hold: each replica fires it once, and once more for every crash.
CronFiresAreFew == \A m \in Minute : fires[m] <= Cardinality(Replica) + beatsCrashes
=============================================================================
