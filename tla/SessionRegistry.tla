-------------------------- MODULE SessionRegistry ---------------------------
(***************************************************************************)
(* Scoped, expiring session keys (contracts/src/SessionRegistry.sol).      *)
(* Session ids are 1, 2, ...; session is the sequence of the structs ever  *)
(* written, so exists is DOMAIN membership and nextSessionId is            *)
(* Len(session) + 1.  now is block.timestamp in scaled-down seconds.       *)
(* A scope mask is the set of its bits and the pinned targets of a session *)
(* are a set (empty: any target).                                          *)
(***************************************************************************)
EXTENDS Naturals, Sequences, FiniteSets

CONSTANTS Agent, Key, Target,
          Root,          \* humanRoot, immutable
          Issuer,        \* addresses the root appoints as issuer
          Router,        \* EscalationRouters whose sessionRegistry is this one
          Zero, NoGrant,
          Scope,         \* SessionScopes.ALL
          Value,         \* the maxValue limits in use
          Ttl,           \* the values of maxIssuerTtl in use
          Window,        \* daily windows <<start, end>> asked for
          Rate,          \* propose limits <<maxProposals, ratePeriod>> asked for
          Day,           \* 1 days, scaled down
          MaxTime, MaxSessions   \* model bounds

ASSUME AddressAssumption ==
  Zero \notin Router \cup Issuer \cup {Root} /\ NoGrant \notin Value
ASSUME NumberAssumption ==
  /\ Value \cup Ttl \subseteq Nat /\ Day \in Nat \ {0}
  /\ Window \cup Rate \subseteq Nat \X Nat
  /\ MaxTime \in Nat \ {0} /\ MaxSessions \in Nat
ASSUME TtlAssumption == Ttl # {} /\ 0 \notin Ttl

VARIABLES session, activeKeySession, rateLimit, issuer, maxIssuerTtl,
          escalationRouter, now,
          proposed   \* history: proposed[id][t], proposals counted at time t

config == <<issuer, maxIssuerTtl, escalationRouter>>
vars   == <<session, activeKeySession, rateLimit, config, now, proposed>>

NoWindow == <<0, 0>>
NoRate   == <<0, 0>>
Id       == DOMAIN session
Pair     == Agent \X Key

IsValid(id) == id \in Id /\ ~session[id].revoked /\ now < session[id].expiresAt

WithinTimeWindow(a, k) ==
  LET id == activeKeySession[<<a, k>>] IN
  \/ id = 0
  \/ session[id].window[2] = 0
  \/ /\ session[id].window[1] <= now % Day
     /\ now % Day < session[id].window[2]

\* keyLimits and isTargetAllowed, as one record.  A grant read through the
\* daily window as well would come and go without an issue.
KeyGrantInWindow(a, k) ==
  LET id == activeKeySession[<<a, k>>] IN
  IF IsValid(id) /\ WithinTimeWindow(a, k)
  THEN [scopes   |-> session[id].scopes,
        maxValue |-> session[id].maxValue,
        targets  |-> session[id].targets]
  ELSE NoGrant

KeyGrant(a, k) ==
  LET id == activeKeySession[<<a, k>>] IN
  IF IsValid(id)
  THEN [scopes   |-> session[id].scopes,
        maxValue |-> session[id].maxValue,
        targets  |-> session[id].targets]
  ELSE NoGrant

Init ==
  /\ session = <<>>
  /\ activeKeySession = [p \in Pair |-> 0]
  /\ rateLimit = <<>>
  /\ issuer = Root
  /\ maxIssuerTtl \in Ttl
  /\ escalationRouter = Zero
  /\ now = 1
  /\ proposed = <<>>

SetIssuer(caller, i) ==
  /\ caller = Root
  /\ issuer' = i
  /\ UNCHANGED <<session, activeKeySession, rateLimit, maxIssuerTtl,
                 escalationRouter, now, proposed>>

SetMaxIssuerTtl(caller, ttl) ==
  /\ caller = Root
  /\ maxIssuerTtl' = ttl
  /\ UNCHANGED <<session, activeKeySession, rateLimit, issuer,
                 escalationRouter, now, proposed>>

SetEscalationRouter(caller, r) ==
  /\ caller = Root
  /\ escalationRouter' = r
  /\ UNCHANGED <<session, activeKeySession, rateLimit, issuer, maxIssuerTtl,
                 now, proposed>>

MayIssue(caller) == caller \in {Root, issuer}

WindowOK(w) == w # NoWindow => w[1] < w[2] /\ w[2] <= Day
RateOK(r)   == r # NoRate => r[1] # 0 /\ r[2] # 0

\* _rateLimits of the session to be; an unlimited session has a zero one.
OpenRateLimit(rate) ==
  rateLimit' = Append(rateLimit, [max |-> rate[1], period |-> rate[2],
                                  windowStart |-> 0, count |-> 0])

\* _issue, behind issue, issueScoped and issueScopedTimed.
Issue(caller, a, k, expiresAt, scopes, maxValue, targets, window, rate) ==
  /\ MayIssue(caller)
  /\ Len(session) < MaxSessions
  /\ now < expiresAt
  /\ caller # Root => expiresAt <= now + maxIssuerTtl
  /\ scopes # {}
  /\ WindowOK(window)
  /\ RateOK(rate)
  /\ LET prior == activeKeySession[<<a, k>>]
         new   == [agent |-> a, key |-> k, expiresAt |-> expiresAt,
                   scopes |-> scopes, maxValue |-> maxValue,
                   targets |-> targets, window |-> window, revoked |-> FALSE]
         kept  == IF prior = 0 THEN session
                  ELSE [session EXCEPT ![prior].revoked = TRUE]
     IN  session' = Append(kept, new)
  /\ activeKeySession' = [activeKeySession EXCEPT ![<<a, k>>] = Len(session) + 1]
  /\ OpenRateLimit(rate)
  /\ proposed' = Append(proposed, [t \in 1..MaxTime |-> 0])
  /\ UNCHANGED <<config, now>>

Revoke(caller, id) ==
  /\ MayIssue(caller)
  /\ id \in Id
  /\ ~session[id].revoked
  /\ session' = [session EXCEPT ![id].revoked = TRUE]
  /\ LET pair == <<session[id].agent, session[id].key>> IN
       activeKeySession' = IF activeKeySession[pair] = id
                           THEN [activeKeySession EXCEPT ![pair] = 0]
                           ELSE activeKeySession
  /\ UNCHANGED <<rateLimit, config, now, proposed>>

\* recordProposal returns without counting when the registry is unwired, the
\* key has no session or the session has no limit.
IsCounted(a, k) ==
  LET id == activeKeySession[<<a, k>>] IN
  escalationRouter # Zero /\ id # 0 /\ rateLimit[id].max # 0

ElapsedEarly(id) ==
  \/ rateLimit[id].windowStart = 0
  \/ now + 1 >= rateLimit[id].windowStart + rateLimit[id].period

WindowElapsed(id) ==
  \/ rateLimit[id].windowStart = 0
  \/ now >= rateLimit[id].windowStart + rateLimit[id].period

\* recordProposal does not revert for this router and key.
Accepts(router, a, k) ==
  /\ escalationRouter # Zero => router = escalationRouter
  /\ IsCounted(a, k) =>
       LET id == activeKeySession[<<a, k>>] IN
       WindowElapsed(id) \/ rateLimit[id].count + 1 <= rateLimit[id].max

\* The router's propose for a key: the session checks, then recordProposal.
RecordProposal(router, a, k) ==
  /\ KeyGrant(a, k) # NoGrant
  /\ WithinTimeWindow(a, k)
  /\ Accepts(router, a, k)
  /\ IsCounted(a, k)
  /\ LET id == activeKeySession[<<a, k>>] IN
       /\ rateLimit' = IF WindowElapsed(id)
            THEN [rateLimit EXCEPT ![id].windowStart = now, ![id].count = 1]
            ELSE [rateLimit EXCEPT ![id].count = @ + 1]
       /\ proposed' = [proposed EXCEPT ![id][now] = @ + 1]
  /\ UNCHANGED <<session, activeKeySession, config, now>>

Tick ==
  /\ now < MaxTime
  /\ now' = now + 1
  /\ UNCHANGED <<session, activeKeySession, rateLimit, config, proposed>>

Next ==
  \/ \E i \in Issuer : SetIssuer(Root, i)
  \/ \E ttl \in Ttl : SetMaxIssuerTtl(Root, ttl)
  \/ \E r \in Router : SetEscalationRouter(Root, r)
  \/ \E caller \in Issuer \cup {Root} :
       \/ \E a \in Agent, k \in Key, e \in 1..(MaxTime + 1),
             s \in SUBSET Scope, v \in Value, ts \in SUBSET Target,
             w \in Window, r \in Rate : Issue(caller, a, k, e, s, v, ts, w, r)
       \/ \E id \in Id : Revoke(caller, id)
  \/ \E router \in Router, a \in Agent, k \in Key : RecordProposal(router, a, k)
  \/ Tick

Spec == Init /\ [][Next]_vars

-----------------------------------------------------------------------------
SessionType ==
  [agent : Agent, key : Key, expiresAt : Nat, scopes : SUBSET Scope,
   maxValue : Value, targets : SUBSET Target, window : Nat \X Nat,
   revoked : BOOLEAN]
RateType == [max : Nat, period : Nat, windowStart : Nat, count : Nat]

\* Types of the registry's state; every session has its rate-limit slot.
TypeOK ==
  /\ session \in Seq(SessionType)
  /\ activeKeySession \in [Pair -> Nat]
  /\ rateLimit \in Seq(RateType)
  /\ issuer \in Issuer \cup {Root}
  /\ maxIssuerTtl \in Ttl
  /\ escalationRouter \in Router \cup {Zero}
  /\ now \in Nat
  /\ proposed \in Seq([1..MaxTime -> Nat])
  /\ Len(rateLimit) = Len(session) /\ Len(proposed) = Len(session)

\* The pointer of a key names its one unrevoked session and nothing else: a
\* re-issue leaves no older session of the key alive behind it, and a revoke
\* by id, of whatever session, never leaves the pointer on a dead one.
OneLiveSession ==
  \A p \in Pair, id \in 1..Len(session) :
    activeKeySession[p] = id
      <=> p = <<session[id].agent, session[id].key>> /\ ~session[id].revoked

\* The pointer never runs ahead of the sessions issued.
PointersInRange == \A p \in Pair : activeKeySession[p] \in 0..Len(session)

\* A dead session never lives again: revoked or expired, it stays so whatever
\* is issued, revoked, re-pointed or reconfigured later.
DeadStaysDead == [][\A id \in Id : ~IsValid(id) => ~IsValid(id)']_vars

\* No key is used beyond its limit by more than the seam of two windows: any
\* ratePeriod seconds hold fewer than twice maxProposals counted proposals
\* (the counter restarts with the first proposal after a window elapsed).
BurstBound ==
  \A id \in Id : LET r == rateLimit[id] IN
    \A t \in 1..MaxTime : r.max # 0 =>
      Cardinality({e \in (1..MaxTime) \X (1..2 * r.max) :
                     e[1] \in t..(t + r.period - 1) /\ e[2] <= proposed[id][e[1]]}) < 2 * r.max

Grants == [p \in Pair |-> KeyGrant(p[1], p[2])]
Promised == INSTANCE KeyGrants WITH
  grant <- Grants,
  Grant <- [scopes : SUBSET Scope, maxValue : Value, targets : SUBSET Target]

\* The registry keeps the promise of module KeyGrants: what the router reads
\* through keyLimits and isTargetAllowed changes by an issue for that key, or
\* lapses for good.
KeepsGrants == Promised!GrantSpec

\* Every router wired to this registry can have a live key's propose counted:
\* DeployMockOrg wires a second one "so session-gated proposes work per asset".
\* The code does not keep it: recordProposal serves the one router it knows.
EveryRouterIsServed ==
  \A router \in Router, a \in Agent, k \in Key :
    KeyGrant(a, k) # NoGrant /\ ~IsCounted(a, k) => Accepts(router, a, k)
=============================================================================
