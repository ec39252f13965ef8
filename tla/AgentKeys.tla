----------------------------- MODULE AgentKeys ------------------------------
(***************************************************************************)
(* The session keys of one agent as the orchestrator holds them            *)
(* (packages/orchestrator/src/runtime.ts boot, revokeSessionById,          *)
(* rotateSessionById, pauseAgent, resumeAgent, hydrateSessions), with the  *)
(* pause gate of AgentControls.  A key is issued on the chain, funded,     *)
(* cached and saved in steps, each of which other calls may fall between.  *)
(*                                                                         *)
(* A session's id is what the registry numbered it; an issuer learns it    *)
(* from a simulation before the transaction lands, so two issues at once   *)
(* believe in the same id.  A slot stands for the bounds keys are cached   *)
(* under.  Expiry, delegations and revocations from outside this process   *)
(* are left out.                                                           *)
(***************************************************************************)
EXTENDS AgentControls, Sequences

CONSTANTS Slot,         \* sessionCacheKey: ceiling, target, window, rate
          Scopes,       \* the scopes asked for
          Operation,       \* calls in progress at once
          MaxSessions   \* bound: sessions issued

ASSUME KeysAssumption == MaxSessions \in Nat /\ Slot # {} /\ Scopes # {}

VARIABLES session,      \* SessionRegistry.sessions, in the order of their ids
          held,         \* this.sessions: the key under each slot
          sessionRow,   \* runtime_sessions: the key saved under each id
          caller,       \* what each call is doing
          answered,     \* history: a pause answered, and no resume since
          named,        \* history: sessions those pauses named as failed,
          slipped,      \* and those landing late, from boots the gate let in
          confused      \* history: keys that died before they were cached,
                        \* or whose id another key was believed to have

chainVars   == <<session>>
memoryVars  == <<held, caller>>
historyVars == <<answered, named, slipped, confused>>
keysVars    == <<chainVars, memoryVars, sessionRow, historyVars>>

SessionId == 1 .. MaxSessions
NoKey  == [key |-> 0, id |-> 0, usable |-> FALSE]
NoSessionRow  == [key |-> 0, active |-> FALSE]
Live   == {k \in DOMAIN session : session[k].live}
Slots  == [Slot -> 0 .. MaxSessions]

Stage == {"idle", "simulate", "write", "fund", "save", "list", "revoke", "settle"}
Errand   == {"none", "boot", "revoke", "rotate", "pause"}

\* key is the session a boot landed, id the one it believes in, or the one
\* being revoked; valid is history: a boot that the gate let in, a pause that
\* no resume followed.
CallerType ==
  [at : Stage, job : Errand, slot : Slot, scopes : Scopes, key : 0 .. MaxSessions,
   id : 0 .. MaxSessions, todo : SUBSET SessionId, failed : SUBSET SessionId,
   valid : BOOLEAN]
AtRest ==
  [at |-> "idle", job |-> "none", slot |-> CHOOSE s \in Slot : TRUE,
   scopes |-> CHOOSE s \in Scopes : TRUE, key |-> 0, id |-> 0,
   todo |-> {}, failed |-> {}, valid |-> FALSE]

KeysInit ==
  /\ ControlsInit
  /\ session = <<>>
  /\ held = [s \in Slot |-> NoKey]
  /\ sessionRow = [i \in SessionId |-> NoSessionRow]
  /\ caller = [c \in Operation |-> AtRest]
  /\ answered = FALSE /\ named = {} /\ slipped = {} /\ confused = {}

Doing(c, stage) == caller[c].at = stage
Turns(c, t)  == caller' = [caller EXCEPT ![c] = t]

-----------------------------------------------------------------------------
(* boot.                                                                   *)

\* A paused agent is refused; a key of the cache is handed back, if it is not
\* known to be revoked and has the scopes asked for.
MayBoot(slot, scopes) ==
  /\ ~standing.paused
  /\ ~(held[slot].usable /\ session[held[slot].key].scopes = scopes)

Booting(slot, scopes) ==
  [AtRest EXCEPT !.at = "simulate", !.job = "boot", !.slot = slot,
               !.scopes = scopes, !.valid = ~standing.paused]

AskBoot(c, slot, scopes) ==
  /\ serving /\ Doing(c, "idle")
  /\ MayBoot(slot, scopes)
  /\ Turns(c, Booting(slot, scopes))
  /\ UNCHANGED <<controlsVars, chainVars, held, sessionRow, historyVars>>

\* issueSession: the id is the one the simulation would be given.
Simulate(c) ==
  /\ Doing(c, "simulate")
  /\ Len(session) < MaxSessions
  /\ Turns(c, [caller[c] EXCEPT !.at = "write", !.id = Len(session) + 1])
  /\ UNCHANGED <<controlsVars, chainVars, held, sessionRow, historyVars>>

IssueLands(c) ==
  LET t == caller[c]
      k == Len(session) + 1
  IN  /\ Doing(c, "write")
      /\ Len(session) < MaxSessions
      /\ session' = Append(session, [slot |-> t.slot, scopes |-> t.scopes, live |-> TRUE])
      /\ Turns(c, [t EXCEPT !.at = "fund", !.key = k])
      /\ slipped' = IF standing.paused /\ t.valid THEN slipped \cup {k} ELSE slipped
      /\ confused' = IF t.id # k THEN confused \cup {t.id, k} ELSE confused
      /\ UNCHANGED <<controlsVars, held, sessionRow, answered, named>>

\* fundSessionKey succeeded: the key replaces what the slot held.
Cached(c) ==
  LET t == caller[c] IN
  /\ Doing(c, "fund")
  /\ held' = [held EXCEPT ![t.slot] = [key |-> t.key, id |-> t.id, usable |-> TRUE]]
  /\ Turns(c, [t EXCEPT !.at = "save"])
  /\ UNCHANGED <<controlsVars, chainVars, sessionRow, historyVars>>

\* recordSession, an upsert; a row that cannot be written is only logged.
RecordSession(c) ==
  LET t == caller[c] IN
  /\ Doing(c, "save")
  /\ \/ sessionRow' = [sessionRow EXCEPT ![t.id] = [key |-> t.key, active |-> TRUE]]
     \/ UNCHANGED sessionRow
  /\ Turns(c, AtRest)
  /\ UNCHANGED <<controlsVars, chainVars, held, historyVars>>

\* An issue that fails, or a key that could not be funded: it stays live on
\* the chain, known to nobody here.
BootFails(c) ==
  /\ caller[c].at \in {"simulate", "write", "fund"}
  /\ Turns(c, AtRest)
  /\ UNCHANGED <<controlsVars, chainVars, held, sessionRow, historyVars>>

-----------------------------------------------------------------------------
(* Revocation, by id.                                                      *)

AskRevoke(c, i) ==
  /\ serving /\ Doing(c, "idle")
  /\ i \in DOMAIN session
  /\ Turns(c, [AtRest EXCEPT !.at = "revoke", !.job = "revoke", !.todo = {i}])
  /\ UNCHANGED <<controlsVars, chainVars, held, sessionRow, historyVars>>

AskRotate(c, i) ==
  /\ serving /\ Doing(c, "idle")
  /\ i \in DOMAIN session
  /\ Turns(c, [AtRest EXCEPT !.at = "revoke", !.job = "rotate", !.todo = {i},
                           !.slot = session[i].slot, !.scopes = session[i].scopes])
  /\ UNCHANGED <<controlsVars, chainVars, held, sessionRow, historyVars>>

IsNext(i, c) == i \in caller[c].todo /\ \A j \in caller[c].todo : i <= j

RevokeLands(c, i) ==
  /\ Doing(c, "revoke") /\ IsNext(i, c)
  /\ session[i].live
  /\ session' = [session EXCEPT ![i].live = FALSE]
  /\ Turns(c, [caller[c] EXCEPT !.at = "settle", !.id = i])
  /\ confused' = IF \E d \in Operation : Doing(d, "fund") /\ caller[d].key = i
                  THEN confused \cup {i} ELSE confused
  /\ UNCHANGED <<controlsVars, held, sessionRow, answered, named, slipped>>

\* findSessionEntry: the entry believed to be the session's loses its key.
Forgotten(i) ==
  LET entries == {s \in Slot : held[s].id = i} IN
  IF entries = {} THEN {held}
  ELSE {[held EXCEPT ![s].usable = FALSE] : s \in entries}

\* markSessionRevoked is not awaited and may be lost.
RevokeSettles(c) ==
  LET i == caller[c].id IN
  /\ Doing(c, "settle")
  /\ held' \in Forgotten(i)
  /\ sessionRow' \in {sessionRow, [sessionRow EXCEPT ![i].active = FALSE]}
  /\ Turns(c, [caller[c] EXCEPT !.at = "revoke", !.todo = @ \ {i}])
  /\ UNCHANGED <<controlsVars, chainVars, historyVars>>

\* The chain could not be asked, or the session was already revoked: a pause
\* goes on and names it, the others give up.
RevokeFails(c, i) ==
  /\ Doing(c, "revoke") /\ IsNext(i, c)
  /\ Turns(c, IF caller[c].job = "pause"
              THEN [caller[c] EXCEPT !.todo = @ \ {i}, !.failed = @ \cup {i}]
              ELSE AtRest)
  /\ UNCHANGED <<controlsVars, chainVars, held, sessionRow, historyVars>>

\* The rest of revokeSessionById, or of rotateSessionById: a boot under the
\* bounds of the key that is gone.
RevokeEnds(c) ==
  LET t == caller[c] IN
  /\ Doing(c, "revoke") /\ t.todo = {} /\ t.job # "pause"
  /\ Turns(c, IF t.job = "rotate" /\ MayBoot(t.slot, t.scopes)
              THEN Booting(t.slot, t.scopes) ELSE AtRest)
  /\ UNCHANGED <<controlsVars, chainVars, held, sessionRow, historyVars>>

-----------------------------------------------------------------------------
(* Pause and resume.                                                       *)

\* The gate closes before anything is awaited.
AskPause(c) ==
  /\ Doing(c, "idle")
  /\ PauseGate
  /\ Turns(c, [AtRest EXCEPT !.at = "list", !.job = "pause", !.valid = TRUE])
  /\ UNCHANGED <<chainVars, held, sessionRow, historyVars>>

\* A mutant of ToRevoke: what this process holds.
ToRevokeHere == {held[s].key : s \in {s \in Slot : held[s].usable}}

\* listSessions: the registry's, whoever issued them.
ToRevoke == Live

\* A registry that cannot be read ends the pause: the gate stays closed, and
\* nothing is revoked.
ListSessions(c) ==
  /\ Doing(c, "list")
  /\ \/ Turns(c, [caller[c] EXCEPT !.at = "revoke", !.todo = ToRevoke])
     \/ Turns(c, AtRest)
  /\ UNCHANGED <<controlsVars, chainVars, held, sessionRow, historyVars>>

\* purgeHeldSessionsFor, and the answer.
PauseEnds(c) ==
  LET t == caller[c] IN
  /\ Doing(c, "revoke") /\ t.todo = {} /\ t.job = "pause"
  /\ held' = [s \in Slot |-> [held[s] EXCEPT !.usable = FALSE]]
  /\ Turns(c, AtRest)
  /\ answered' = (answered \/ t.valid)
  /\ named' = IF t.valid THEN named \cup t.failed ELSE named
  /\ UNCHANGED <<controlsVars, chainVars, sessionRow, slipped, confused>>

\* Nothing said by a pause holds any more.
Lapsed(yes) ==
  /\ answered' = (answered /\ ~yes)
  /\ named' = IF yes THEN {} ELSE named
  /\ slipped' = IF yes THEN {} ELSE slipped
  /\ UNCHANGED confused

AskResume ==
  /\ ResumeGate
  /\ Lapsed(TRUE)
  /\ caller' = [c \in Operation |->
       IF caller[c].job = "pause" THEN [caller[c] EXCEPT !.valid = FALSE] ELSE caller[c]]
  /\ UNCHANGED <<chainVars, held, sessionRow>>

-----------------------------------------------------------------------------
(* Restarts.                                                               *)

RuntimeStops ==
  /\ ProcessStops
  /\ held' = [s \in Slot |-> NoKey]
  /\ caller' = [c \in Operation |-> AtRest]
  /\ UNCHANGED <<chainVars, sessionRow, historyVars>>

\* A mutant of Confirmed: the store is believed.
ConfirmedByRow(i) == sessionRow[i].active

\* keyLimits: the chain decides.
Confirmed(i) == sessionRow[i].active /\ session[sessionRow[i].key].live

\* hydrateSessions, then hydrate of the controls.  Each slot gets one of the
\* rows that are confirmed, or none where they could not be read.
Restart ==
  LET of(s) == {i \in SessionId : Confirmed(i) /\ session[sessionRow[i].key].slot = s} IN
  /\ Hydrate
  /\ \E pick \in Slots :
       /\ \A s \in Slot : pick[s] \in of(s) \cup {0}
       /\ held' = [s \in Slot |->
            IF pick[s] = 0 THEN NoKey
            ELSE [key |-> sessionRow[pick[s]].key, id |-> pick[s], usable |-> TRUE]]
  /\ Lapsed(~standing'.paused)
  /\ UNCHANGED <<chainVars, caller, sessionRow>>

KeysMove ==
  \/ \E c \in Operation :
       \/ \E s \in Slot, w \in Scopes : AskBoot(c, s, w)
       \/ Simulate(c) \/ IssueLands(c) \/ Cached(c) \/ RecordSession(c) \/ BootFails(c)
       \/ \E i \in SessionId :
            \/ AskRevoke(c, i) \/ AskRotate(c, i)
            \/ RevokeLands(c, i) \/ RevokeFails(c, i)
       \/ RevokeSettles(c) \/ RevokeEnds(c)
       \/ AskPause(c) \/ ListSessions(c) \/ PauseEnds(c)
  \/ AskResume \/ RuntimeStops \/ Restart
  \/ Saves /\ UNCHANGED keysVars

\* A brief does not touch the keys.
KeysNext ==
  \/ KeysMove
  \/ \E b \in Directive \cup {NoBrief} : SetBrief(b) /\ UNCHANGED keysVars

KeysSpec == KeysInit /\ [][KeysNext]_<<controlsVars, keysVars>>
-----------------------------------------------------------------------------
(* Properties.                                                             *)
KeysTypeOK ==
  /\ session \in Seq([slot : Slot, scopes : Scopes, live : BOOLEAN])
  /\ Len(session) <= MaxSessions
  /\ held \in [Slot -> [key : 0 .. Len(session), id : 0 .. MaxSessions, usable : BOOLEAN]]
  /\ \A s \in Slot : held[s].usable => held[s].key # 0
  /\ sessionRow \in [SessionId -> [key : 0 .. Len(session), active : BOOLEAN]]
  /\ \A i \in SessionId : sessionRow[i].active => sessionRow[i].key # 0
  /\ caller \in [Operation -> CallerType]
  /\ answered \in BOOLEAN
  /\ named \subseteq SessionId /\ slipped \subseteq SessionId /\ confused \subseteq SessionId

\* "Every live key for the agent is revoked", and "the partial result named"
\* (runtime.ts:1268-1276): once a pause has answered, and while the agent stays
\* paused, across restarts too, every session that is live on the chain is one
\* it named as failed, or one whose boot had passed the gate before.
PauseLeavesOnlyNamed ==
  standing.paused /\ answered => Live \subseteq named \cup slipped

\* A key that boot would hand back is one the chain honours, whatever died
\* while the process was down: only while its revocation is being settled, or
\* when it died before it was cached, or when its id was mistaken, does a dead
\* key stay in the cache (runtime.ts:482-486, :704-709).
HeldKeysAreLive ==
  \A s \in Slot : held[s].usable =>
    \/ held[s].key \in Live \cup confused
    \/ \E c \in Operation : Doing(c, "settle") /\ caller[c].id = held[s].key

\* A paused agent has no live session but those the pause named.  The code does
\* not keep it: a boot that was under way lands its key after the pause.
PauseIsComplete ==
  standing.paused /\ answered => Live \subseteq named
=============================================================================
