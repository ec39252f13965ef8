------------------------ MODULE SessionRegistryProofs ------------------------
(***************************************************************************)
(* Theorems about session keys, for any agents, keys, limits and any       *)
(* number of sessions: the pointer of a key names its only live session,   *)
(* a dead session stays dead, the registry implements the grants the       *)
(* router reads, and a key's proposals in any period are bounded.          *)
(***************************************************************************)
EXTENDS SessionRegistry, SequenceTheorems, Amounts

KeyInv == TypeOK /\ PointersInRange /\ OneLiveSession

\* The pointers agree with the sessions, said of any pair of values.
OneLive(ss, ptr) ==
  \A p \in Pair, id \in 1..Len(ss) :
    ptr[p] = id <=> p = <<ss[id].agent, ss[id].key>> /\ ~ss[id].revoked

LEMMA SessionStart ==
  ASSUME Init
  PROVE  KeyInv
<1> USE NumberAssumption, TtlAssumption
<1>1. session = <<>> /\ rateLimit = <<>> /\ proposed = <<>> /\ Len(session) = 0
  BY DEF Init
<1>2. TypeOK
  BY <1>1 DEF Init, TypeOK
<1>3. PointersInRange
  BY <1>1 DEF Init, PointersInRange
<1>4. OneLiveSession
  BY <1>1 DEF OneLiveSession
<1> QED
  BY <1>2, <1>3, <1>4 DEF KeyInv

(* What _issue and revoke make of the sessions and of the pointers. *)
Revoked(ss, i)        == [ss EXCEPT ![i].revoked = TRUE]
Replaced(ss, i, new)  == Append(IF i = 0 THEN ss ELSE Revoked(ss, i), new)
Pointed(ptr, a, k, n) == [ptr EXCEPT ![<<a, k>>] = n]

\* Marking a session revoked changes nothing else about the sequence.
LEMMA RevokedAt ==
  ASSUME NEW ss \in Seq(SessionType), NEW i \in 1..Len(ss)
  PROVE  /\ Revoked(ss, i) \in Seq(SessionType)
         /\ Len(Revoked(ss, i)) = Len(ss)
         /\ \A j \in 1..Len(ss) :
              /\ Revoked(ss, i)[j].agent = ss[j].agent
              /\ Revoked(ss, i)[j].key = ss[j].key
              /\ Revoked(ss, i)[j].expiresAt = ss[j].expiresAt
              /\ (Revoked(ss, i)[j].revoked <=> (ss[j].revoked \/ j = i))
<1> DEFINE s1 == [ss[i] EXCEPT !.revoked = TRUE]
           tt == [ss EXCEPT ![i] = s1]
<1>0. \A j \in 1..Len(ss) : ss[j] \in SessionType
  BY ElementOfSeq
<1>1. /\ s1 \in SessionType
      /\ s1.agent = ss[i].agent /\ s1.key = ss[i].key
      /\ s1.expiresAt = ss[i].expiresAt /\ s1.revoked = TRUE
  BY <1>0 DEF SessionType
<1>5. tt = Revoked(ss, i)
  BY DEF Revoked
<1> HIDE DEF s1
<1>2. /\ tt \in Seq(SessionType) /\ Len(tt) = Len(ss)
      /\ \A j \in 1..Len(ss) : tt[j] = IF j = i THEN s1 ELSE ss[j]
  BY <1>1, ExceptSeq
<1> HIDE DEF tt
<1>3. \A j \in 1..Len(ss) : ss[j].revoked \in BOOLEAN
  BY <1>0 DEF SessionType
<1>4. \A j \in 1..Len(ss) :
        /\ tt[j].agent = ss[j].agent /\ tt[j].key = ss[j].key
        /\ tt[j].expiresAt = ss[j].expiresAt
        /\ (tt[j].revoked <=> (ss[j].revoked \/ j = i))
  <2> TAKE j \in 1..Len(ss)
  <2>1. CASE j = i
    BY <1>1, <1>2, <2>1
  <2>2. CASE j # i
    BY <1>2, <1>3, <2>2
  <2> QED
    BY <2>1, <2>2
<1> QED
  BY <1>2, <1>4, <1>5

\* The sessions and pointers that _issue leaves: the key's prior session is
\* revoked, the new one is appended and pointed to.
LEMMA IssueKeepsOneLive ==
  ASSUME KeyInv, NEW a \in Agent, NEW k \in Key,
         NEW new \in SessionType, ~new.revoked, new.agent = a, new.key = k
  PROVE  LET next == Replaced(session, activeKeySession[<<a, k>>], new)
             ptr  == Pointed(activeKeySession, a, k, Len(session) + 1)
         IN  /\ next \in Seq(SessionType)
             /\ Len(next) = Len(session) + 1
             /\ \A j \in 1..Len(session) :
                  next[j].expiresAt = session[j].expiresAt
                  /\ (session[j].revoked => next[j].revoked)
             /\ OneLive(next, ptr)
<1> DEFINE n     == Len(session)
           prior == activeKeySession[<<a, k>>]
           kept  == IF prior = 0 THEN session ELSE Revoked(session, prior)
           next  == Replaced(session, prior, new)
           ptr   == Pointed(activeKeySession, a, k, n + 1)
<1>0. <<a, k>> \in Pair
  BY DEF Pair
<1>1. /\ session \in Seq(SessionType) /\ n \in Nat
      /\ activeKeySession \in [Pair -> Nat] /\ prior \in 0..n
  BY <1>0, LenProperties DEF KeyInv, TypeOK, PointersInRange
<1>2. \A j \in 1..n : session[j] \in SessionType /\ session[j].revoked \in BOOLEAN
  <2>1. \A j \in 1..n : session[j] \in SessionType
    BY <1>1, ElementOfSeq
  <2> QED
    BY <2>1 DEF SessionType
<1>3. /\ kept \in Seq(SessionType) /\ Len(kept) = n
      /\ \A j \in 1..n :
           /\ kept[j].agent = session[j].agent /\ kept[j].key = session[j].key
           /\ kept[j].expiresAt = session[j].expiresAt
           /\ (kept[j].revoked <=> (session[j].revoked \/ j = prior))
  <2>1. CASE prior = 0
    BY <1>1, <1>2, <2>1
  <2>2. CASE prior # 0
    <3>1. prior \in 1..n /\ kept = Revoked(session, prior)
      BY <1>1, <2>2
    <3> QED
      BY <1>1, <3>1, RevokedAt
  <2> QED
    BY <2>1, <2>2
<1>9. prior = activeKeySession[<<a, k>>]
  OBVIOUS
<1>10. next = Append(kept, new)
  BY DEF Replaced
<1> HIDE DEF prior, kept, next
<1>4. /\ next \in Seq(SessionType) /\ Len(next) = n + 1
      /\ \A j \in 1..n : next[j] = kept[j]
      /\ next[n + 1] = new
  BY <1>1, <1>3, <1>10, AppendProperties
<1>5. \A p \in Pair : ptr[p] = IF p = <<a, k>> THEN n + 1 ELSE activeKeySession[p]
  BY <1>1 DEF Pointed
<1> HIDE DEF ptr
<1>6. ASSUME NEW p \in Pair, NEW id \in 1..(n + 1)
      PROVE  ptr[p] = id <=> p = <<next[id].agent, next[id].key>> /\ ~next[id].revoked
  <2>1. CASE id = n + 1
    <3>1. <<next[id].agent, next[id].key>> = <<a, k>> /\ ~next[id].revoked
      BY <1>4, <2>1
    <3>2. activeKeySession[p] # n + 1
      BY <1>1 DEF KeyInv, PointersInRange
    <3> QED
      BY <1>5, <2>1, <3>1, <3>2
  <2>2. CASE id # n + 1
    <3>1. id \in 1..n
      BY <1>1, <2>2
    <3>2. /\ <<next[id].agent, next[id].key>> = <<session[id].agent, session[id].key>>
          /\ (next[id].revoked <=> (session[id].revoked \/ id = prior))
      BY <1>3, <1>4, <3>1
    <3>3. activeKeySession[p] = id
            <=> p = <<session[id].agent, session[id].key>> /\ ~session[id].revoked
      BY <3>1 DEF KeyInv, OneLiveSession
    <3>4. activeKeySession[<<a, k>>] = id
            <=> <<a, k>> = <<session[id].agent, session[id].key>> /\ ~session[id].revoked
      BY <1>0, <3>1 DEF KeyInv, OneLiveSession
    <3>6. CASE p = <<a, k>>
      BY <1>5, <2>2, <3>2, <3>4, <1>9, <3>6
    <3>7. CASE p # <<a, k>>
      BY <1>5, <3>2, <3>3, <3>4, <1>9, <3>7
    <3> QED
      BY <3>6, <3>7
  <2> QED
    BY <2>1, <2>2
<1>7. OneLive(next, ptr)
  BY <1>4, <1>6 DEF OneLive
<1>8. \A j \in 1..n : /\ next[j].expiresAt = session[j].expiresAt
                      /\ session[j].revoked => next[j].revoked
  BY <1>3, <1>4
<1> QED
  BY <1>4, <1>7, <1>8 DEF next, ptr, prior

\* A step that leaves sessions, pointers and clock alone.
LEMMA SameSessions ==
  ASSUME KeyInv, UNCHANGED <<session, activeKeySession>>
  PROVE  PointersInRange' /\ OneLiveSession'
  BY DEF KeyInv, PointersInRange, OneLiveSession

LEMMA IssueStep ==
  ASSUME KeyInv, NEW caller, NEW a \in Agent, NEW k \in Key, NEW e \in Nat,
         NEW s \in SUBSET Scope, NEW v \in Value, NEW ts \in SUBSET Target,
         NEW w \in Window, NEW r \in Rate, Issue(caller, a, k, e, s, v, ts, w, r)
  PROVE  /\ KeyInv'
         /\ \A id \in Id : id \in Id' /\ session'[id].expiresAt = session[id].expiresAt
                           /\ (session[id].revoked => session'[id].revoked)
<1> USE NumberAssumption
<1> DEFINE prior == activeKeySession[<<a, k>>]
           new   == [agent |-> a, key |-> k, expiresAt |-> e,
                     scopes |-> s, maxValue |-> v,
                     targets |-> ts, window |-> w, revoked |-> FALSE]
           kept  == IF prior = 0 THEN session
                    ELSE [session EXCEPT ![prior].revoked = TRUE]
           slot  == [max |-> r[1], period |-> r[2], windowStart |-> 0, count |-> 0]
           none  == [t \in 1..MaxTime |-> 0]
<1>1. /\ session' = Append(kept, new)
      /\ activeKeySession' = [activeKeySession EXCEPT ![<<a, k>>] = Len(session) + 1]
      /\ rateLimit' = Append(rateLimit, slot)
      /\ proposed' = Append(proposed, none)
      /\ UNCHANGED <<issuer, maxIssuerTtl, escalationRouter, now>>
  BY DEF Issue, OpenRateLimit, config
<1>2. new \in SessionType /\ ~new.revoked /\ new.agent = a /\ new.key = k
  BY DEF SessionType
<1>3. slot \in RateType /\ none \in [1..MaxTime -> Nat]
  BY DEF RateType
<1> HIDE DEF new, slot, none
<1>4. /\ session' \in Seq(SessionType)
      /\ Len(session') = Len(session) + 1
      /\ \A j \in 1..Len(session) : session'[j].expiresAt = session[j].expiresAt
                                    /\ (session[j].revoked => session'[j].revoked)
      /\ OneLive(session', activeKeySession')
  <2>1. /\ session' = Replaced(session, activeKeySession[<<a, k>>], new)
        /\ activeKeySession' = Pointed(activeKeySession, a, k, Len(session) + 1)
    BY <1>1 DEF Replaced, Revoked, Pointed
  <2> QED
    BY <1>2, <2>1, IssueKeepsOneLive
<1>5. /\ session \in Seq(SessionType) /\ Len(session) \in Nat
      /\ Len(rateLimit) = Len(session) /\ Len(proposed) = Len(session)
      /\ rateLimit \in Seq(RateType) /\ proposed \in Seq([1..MaxTime -> Nat])
      /\ activeKeySession \in [Pair -> Nat]
  BY LenProperties DEF KeyInv, TypeOK
<1>6. activeKeySession' \in [Pair -> Nat]
  <2>1. Len(session) + 1 \in Nat
    BY <1>5
  <2>2. activeKeySession' \in [Pair -> Nat \cup {Len(session) + 1}]
    BY <1>1, <1>5, Zenon
  <2> QED
    BY <2>1, <2>2
<1>7. /\ rateLimit' \in Seq(RateType) /\ Len(rateLimit') = Len(session) + 1
      /\ proposed' \in Seq([1..MaxTime -> Nat]) /\ Len(proposed') = Len(session) + 1
  <2>1. rateLimit' \in Seq(RateType) /\ Len(rateLimit') = Len(rateLimit) + 1
    BY <1>1, <1>3, <1>5, AppendProperties
  <2>2. /\ proposed' \in Seq([1..MaxTime -> Nat])
        /\ Len(proposed') = Len(proposed) + 1
    <3> DEFINE H == [1..MaxTime -> Nat]
    <3>1. proposed \in Seq(H) /\ none \in H /\ proposed' = Append(proposed, none)
      BY <1>1, <1>3, <1>5
    <3> HIDE DEF H
    <3>2. proposed' \in Seq(H) /\ Len(proposed') = Len(proposed) + 1
      BY <3>1, AppendProperties
    <3> QED
      BY <3>2 DEF H
  <2> QED
    BY <1>5, <2>1, <2>2
<1>8. TypeOK'
  BY <1>1, <1>4, <1>6, <1>7 DEF KeyInv, TypeOK
<1>9. PointersInRange'
  BY <1>1, <1>4, <1>5 DEF KeyInv, PointersInRange, Pair
<1>10. OneLiveSession'
  BY <1>4 DEF OneLive, OneLiveSession
<1>11. DOMAIN session = 1..Len(session) /\ DOMAIN session' = 1..(Len(session) + 1)
  BY <1>4, <1>5, LenProperties
<1> QED
  BY <1>4, <1>5, <1>8, <1>9, <1>10, <1>11 DEF KeyInv, Id

\* Revoking by id clears the pointer exactly when it was on that session.
LEMMA RevokeStep ==
  ASSUME KeyInv, NEW caller, NEW id \in Id, Revoke(caller, id)
  PROVE  /\ KeyInv'
         /\ \A i \in Id : i \in Id' /\ session'[i].expiresAt = session[i].expiresAt
                          /\ (session[i].revoked => session'[i].revoked)
<1> DEFINE n    == Len(session)
           pair == <<session[id].agent, session[id].key>>
<1>1. /\ ~session[id].revoked
      /\ session' = [session EXCEPT ![id].revoked = TRUE]
      /\ activeKeySession' = IF activeKeySession[pair] = id
                             THEN [activeKeySession EXCEPT ![pair] = 0]
                             ELSE activeKeySession
      /\ UNCHANGED <<rateLimit, issuer, maxIssuerTtl, escalationRouter, now, proposed>>
  BY DEF Revoke, config
<1>2. /\ session \in Seq(SessionType) /\ n \in Nat /\ id \in 1..n /\ DOMAIN session = 1..n
      /\ activeKeySession \in [Pair -> Nat]
  BY LenProperties DEF KeyInv, TypeOK, Id
<1>3. /\ session' \in Seq(SessionType) /\ Len(session') = n
      /\ \A j \in 1..n :
           /\ session'[j].agent = session[j].agent /\ session'[j].key = session[j].key
           /\ session'[j].expiresAt = session[j].expiresAt
           /\ (session'[j].revoked <=> (session[j].revoked \/ j = id))
  <2>1. session' = Revoked(session, id)
    BY <1>1 DEF Revoked
  <2> QED
    BY <1>2, <2>1, RevokedAt
<1>4. session[id].agent \in Agent /\ session[id].key \in Key
  <2>1. session[id] \in SessionType
    BY <1>2, ElementOfSeq
  <2> QED
    BY <2>1 DEF SessionType
<1>5. pair \in Pair
  BY <1>4 DEF Pair
<1>6. activeKeySession[pair] = id
  BY <1>1, <1>2, <1>5 DEF KeyInv, OneLiveSession
<1>12. pair = <<session[id].agent, session[id].key>>
  OBVIOUS
<1> HIDE DEF pair
<1>7. \A p \in Pair : activeKeySession'[p] = IF p = pair THEN 0 ELSE activeKeySession[p]
  BY <1>1, <1>2, <1>6
<1>8. TypeOK'
  <2>1. activeKeySession' \in [Pair -> Nat]
    BY <1>1, <1>2
  <2> QED
    BY <1>1, <1>3, <2>1 DEF KeyInv, TypeOK
<1>9. PointersInRange'
  BY <1>2, <1>3, <1>7 DEF KeyInv, PointersInRange, Pair
<1>10. OneLiveSession'
  <2> SUFFICES ASSUME NEW p \in Pair, NEW j \in 1..n
               PROVE  activeKeySession'[p] = j
                        <=> p = <<session'[j].agent, session'[j].key>> /\ ~session'[j].revoked
    BY <1>3 DEF OneLiveSession, Pair
  <2>1. <<session'[j].agent, session'[j].key>> = <<session[j].agent, session[j].key>>
    BY <1>3
  <2>2. activeKeySession[p] = j
          <=> p = <<session[j].agent, session[j].key>> /\ ~session[j].revoked
    BY DEF KeyInv, OneLiveSession
  <2>3. activeKeySession[pair] = j
          <=> pair = <<session[j].agent, session[j].key>> /\ ~session[j].revoked
    BY <1>5 DEF KeyInv, OneLiveSession
  <2>4. CASE j = id
    BY <1>2, <1>3, <1>7, <1>12, <2>2, <2>4
  <2>5. CASE j # id
    BY <1>2, <1>3, <1>6, <1>7, <2>1, <2>2, <2>3, <2>5
  <2> QED
    BY <2>4, <2>5
<1>11. DOMAIN session' = 1..n
  BY <1>3, LenProperties
<1> QED
  BY <1>2, <1>3, <1>8, <1>9, <1>10, <1>11 DEF KeyInv, Id

\* Counting a proposal writes the limiter's slot and the history only.
LEMMA RecordStep ==
  ASSUME KeyInv, NEW router, NEW a \in Agent, NEW k \in Key,
         RecordProposal(router, a, k)
  PROVE  KeyInv' /\ UNCHANGED <<session, now>>
<1> USE NumberAssumption
<1> DEFINE id == activeKeySession[<<a, k>>]
<1>1. /\ rateLimit' = IF WindowElapsed(id)
           THEN [rateLimit EXCEPT ![id].windowStart = now, ![id].count = 1]
           ELSE [rateLimit EXCEPT ![id].count = @ + 1]
      /\ proposed' = [proposed EXCEPT ![id][now] = @ + 1]
      /\ UNCHANGED <<session, activeKeySession, issuer, maxIssuerTtl,
                     escalationRouter, now>>
  BY DEF RecordProposal, config
<1>2. id \in 1..Len(session)
  <2>1. id # 0
    BY DEF RecordProposal, IsCounted
  <2>2. id \in 0..Len(session)
    BY DEF KeyInv, PointersInRange, Pair
  <2>3. Len(session) \in Nat
    BY LenProperties DEF KeyInv, TypeOK
  <2> QED
    BY <2>1, <2>2, <2>3
<1>3. /\ rateLimit \in Seq(RateType) /\ id \in 1..Len(rateLimit)
      /\ proposed \in Seq([1..MaxTime -> Nat]) /\ id \in 1..Len(proposed)
      /\ now \in Nat
  BY <1>2 DEF KeyInv, TypeOK
<1> HIDE DEF id
<1>4. rateLimit' \in Seq(RateType) /\ Len(rateLimit') = Len(rateLimit)
  <2>1. rateLimit[id] \in RateType
    BY <1>3, ElementOfSeq
  <2>2. CASE WindowElapsed(id)
    <3>1. [rateLimit[id] EXCEPT !.windowStart = now, !.count = 1] \in RateType
      BY <1>3, <2>1 DEF RateType
    <3>2. rateLimit' = [rateLimit EXCEPT
                          ![id] = [rateLimit[id] EXCEPT !.windowStart = now, !.count = 1]]
      BY <1>1, <1>3, <2>2
    <3> QED
      BY <1>3, <3>1, <3>2, ExceptSeq
  <2>3. CASE ~WindowElapsed(id)
    <3>1. [rateLimit[id] EXCEPT !.count = @ + 1] \in RateType
      BY <2>1 DEF RateType
    <3>2. rateLimit' = [rateLimit EXCEPT ![id] = [rateLimit[id] EXCEPT !.count = @ + 1]]
      BY <1>1, <2>3
    <3> QED
      BY <1>3, <3>1, <3>2, ExceptSeq
  <2> QED
    BY <2>2, <2>3
<1>5. proposed' \in Seq([1..MaxTime -> Nat]) /\ Len(proposed') = Len(proposed)
  <2>1. proposed[id] \in [1..MaxTime -> Nat]
    BY <1>3, ElementOfSeq
  <2>2. [proposed[id] EXCEPT ![now] = @ + 1] \in [1..MaxTime -> Nat]
    <3>1. CASE now \in 1..MaxTime
      BY <2>1, <3>1
    <3>2. CASE now \notin 1..MaxTime
      BY <2>1, <3>2
    <3> QED
      BY <3>1, <3>2
  <2>3. proposed' = [proposed EXCEPT ![id] = [proposed[id] EXCEPT ![now] = @ + 1]]
    BY <1>1
  <2> QED
    BY <1>3, <2>2, <2>3, ExceptSeq
<1>6. TypeOK'
  BY <1>1, <1>4, <1>5 DEF KeyInv, TypeOK
<1>7. PointersInRange' /\ OneLiveSession'
  BY <1>1, SameSessions
<1> QED
  BY <1>1, <1>6, <1>7 DEF KeyInv

LEMMA SettingStep ==
  ASSUME KeyInv,
         \/ \E i \in Issuer : SetIssuer(Root, i)
         \/ \E ttl \in Ttl : SetMaxIssuerTtl(Root, ttl)
         \/ \E r \in Router : SetEscalationRouter(Root, r)
         \/ Tick
         \/ UNCHANGED vars
  PROVE  KeyInv' /\ UNCHANGED session /\ now <= now'
<1>1. /\ UNCHANGED <<session, activeKeySession, rateLimit, proposed>>
      /\ now' \in {now, now + 1}
      /\ issuer' \in Issuer \cup {issuer}
      /\ maxIssuerTtl' \in Ttl
      /\ escalationRouter' \in Router \cup {escalationRouter}
  BY DEF KeyInv, TypeOK, SetIssuer, SetMaxIssuerTtl, SetEscalationRouter, Tick, vars, config
<1>2. now \in Nat
  BY DEF KeyInv, TypeOK
<1>3. TypeOK'
  BY <1>1, <1>2 DEF KeyInv, TypeOK
<1>4. PointersInRange' /\ OneLiveSession'
  BY <1>1, SameSessions
<1> QED
  BY <1>1, <1>2, <1>3, <1>4 DEF KeyInv

\* One step: the invariant stays, sessions are kept with their expiry, what
\* is revoked stays revoked and the clock does not go back.
LEMMA SessionStep ==
  ASSUME KeyInv, [Next]_vars
  PROVE  /\ KeyInv'
         /\ now <= now'
         /\ \A id \in Id : id \in Id' /\ session'[id].expiresAt = session[id].expiresAt
                           /\ (session[id].revoked => session'[id].revoked)
<1> USE NumberAssumption
<1>0. now \in Nat
  BY DEF KeyInv, TypeOK
<1>1. CASE \/ \E i \in Issuer : SetIssuer(Root, i)
           \/ \E ttl \in Ttl : SetMaxIssuerTtl(Root, ttl)
           \/ \E r \in Router : SetEscalationRouter(Root, r)
           \/ Tick
           \/ UNCHANGED vars
  BY <1>1, SettingStep DEF Id
<1>2. ASSUME NEW caller \in Issuer \cup {Root}, NEW a \in Agent, NEW k \in Key,
             NEW e \in 1..(MaxTime + 1), NEW s \in SUBSET Scope, NEW v \in Value,
             NEW ts \in SUBSET Target, NEW w \in Window, NEW r \in Rate,
             Issue(caller, a, k, e, s, v, ts, w, r)
      PROVE  /\ KeyInv' /\ now' = now
             /\ \A id \in Id : id \in Id' /\ session'[id].expiresAt = session[id].expiresAt
                               /\ (session[id].revoked => session'[id].revoked)
  <2>1. e \in Nat
    OBVIOUS
  <2>2. now' = now
    BY <1>2 DEF Issue
  <2> QED
    BY <1>2, <2>1, <2>2, IssueStep
<1>3. ASSUME NEW caller \in Issuer \cup {Root}, NEW id \in Id, Revoke(caller, id)
      PROVE  /\ KeyInv' /\ now' = now
             /\ \A i \in Id : i \in Id' /\ session'[i].expiresAt = session[i].expiresAt
                              /\ (session[i].revoked => session'[i].revoked)
  <2>1. now' = now
    BY <1>3 DEF Revoke
  <2> QED
    BY <1>3, <2>1, RevokeStep
<1>4. ASSUME NEW router \in Router, NEW a \in Agent, NEW k \in Key,
             RecordProposal(router, a, k)
      PROVE  KeyInv' /\ UNCHANGED <<session, now>>
  BY <1>4, RecordStep
<1>5. CASE Next /\ ~(\/ \E i \in Issuer : SetIssuer(Root, i)
                     \/ \E ttl \in Ttl : SetMaxIssuerTtl(Root, ttl)
                     \/ \E r \in Router : SetEscalationRouter(Root, r)
                     \/ Tick)
  <2>1. CASE \E router \in Router, a \in Agent, k \in Key : RecordProposal(router, a, k)
    BY <1>0, <1>4, <2>1 DEF Id
  <2>2. CASE \E caller \in Issuer \cup {Root}, id \in Id : Revoke(caller, id)
    BY <1>0, <1>3, <2>2
  <2>3. CASE \E caller \in Issuer \cup {Root} :
               \E a \in Agent, k \in Key, e \in 1..(MaxTime + 1),
                  s \in SUBSET Scope, v \in Value, ts \in SUBSET Target,
                  w \in Window, r \in Rate : Issue(caller, a, k, e, s, v, ts, w, r)
    <3>1. PICK caller \in Issuer \cup {Root}, a \in Agent, k \in Key, e \in 1..(MaxTime + 1),
               s \in SUBSET Scope, v \in Value, ts \in SUBSET Target, w \in Window, r \in Rate :
                 Issue(caller, a, k, e, s, v, ts, w, r)
      BY <2>3
    <3>2. /\ KeyInv' /\ now' = now
          /\ \A id \in Id : id \in Id' /\ session'[id].expiresAt = session[id].expiresAt
                            /\ (session[id].revoked => session'[id].revoked)
      BY <1>2, <3>1
    <3> QED
      BY <1>0, <3>2
  <2> QED
    BY <1>5, <2>1, <2>2, <2>3 DEF Next
<1> QED
  BY <1>1, <1>5

\* Type correctness, and the pointer of every key names its one live session
\* or nothing, after any sequence of issues and revocations.
THEOREM KeysAreConsistent == Spec => [](TypeOK /\ PointersInRange /\ OneLiveSession)
<1>1. KeyInv => TypeOK /\ PointersInRange /\ OneLiveSession
  BY DEF KeyInv
<1> QED
  BY <1>1, SessionStart, SessionStep, PTL DEF Spec

\* A revoked or expired session never becomes valid again.
THEOREM SessionsStayDead == Spec => DeadStaysDead
<1>1. KeyInv /\ [Next]_vars => [\A id \in Id : ~IsValid(id) => ~IsValid(id)']_vars
  <2> SUFFICES ASSUME KeyInv, [Next]_vars, NEW id \in Id, ~IsValid(id)
               PROVE  ~IsValid(id)'
    OBVIOUS
  <2>1. /\ session'[id].expiresAt = session[id].expiresAt
        /\ session[id].revoked => session'[id].revoked
        /\ now <= now'
    BY SessionStep
  <2>2. session[id].revoked \/ ~(now < session[id].expiresAt)
    BY DEF IsValid
  <2>3. session[id].expiresAt \in Nat /\ now \in Nat /\ now' \in Nat
    <3>1. session[id] \in SessionType
      BY LenProperties, ElementOfSeq DEF KeyInv, TypeOK, Id
    <3>2. now \in Nat /\ now' \in Nat
      BY SessionStep DEF KeyInv, TypeOK
    <3> QED
      BY <3>1, <3>2 DEF SessionType
  <2> QED
    BY <2>1, <2>2, <2>3 DEF IsValid
<1> QED
  BY <1>1, SessionStart, SessionStep, PTL DEF Spec, DeadStaysDead

-----------------------------------------------------------------------------
(* The registry implements KeyGrants. *)

GrantType == [scopes : SUBSET Scope, maxValue : Value, targets : SUBSET Target]
GrantIn(s) == [scopes |-> s.scopes, maxValue |-> s.maxValue, targets |-> s.targets]

LEMMA GrantAt ==
  ASSUME NEW p \in Pair
  PROVE  /\ Grants[p] = IF IsValid(activeKeySession[p])
                       THEN GrantIn(session[activeKeySession[p]]) ELSE NoGrant
         /\ Grants'[p] = IF IsValid(activeKeySession[p])'
                        THEN GrantIn(session'[activeKeySession'[p]]) ELSE NoGrant
<1>1. p = <<p[1], p[2]>>
  BY DEF Pair
<1> QED
  BY <1>1 DEF Grants, KeyGrant, GrantIn, Pair

LEMMA RevokedEntry ==
  ASSUME NEW ss \in Seq(SessionType), NEW i \in 1..Len(ss), NEW j \in 1..Len(ss)
  PROVE  /\ GrantIn(Revoked(ss, i)[j]) = GrantIn(ss[j])
         /\ j # i => Revoked(ss, i)[j] = ss[j]
<1> DEFINE s1 == [ss[i] EXCEPT !.revoked = TRUE]
<1>1. ss[i] \in SessionType
  BY ElementOfSeq
<1>2. s1 \in SessionType /\ GrantIn(s1) = GrantIn(ss[i])
  BY <1>1 DEF SessionType, GrantIn
<1>3. [ss EXCEPT ![i] = s1] = Revoked(ss, i)
  BY DEF Revoked
<1> HIDE DEF s1
<1>4. [ss EXCEPT ![i] = s1][j] = IF j = i THEN s1 ELSE ss[j]
  BY <1>2, ExceptSeq
<1> QED
  BY <1>2, <1>3, <1>4

\* Grants that stay as they are or are gone have lapsed.
LEMMA Lapses ==
  ASSUME \A p \in Pair : Grants'[p] \in {Grants[p], NoGrant}
  PROVE  Promised!GrantNext
<1> DEFINE gone == {p \in Pair : Grants'[p] = NoGrant}
<1>1. Grants' = [p \in Pair |-> IF p \in gone THEN NoGrant ELSE Grants[p]]
  <2>1. Grants' = [p \in Pair |-> Grants'[p]]
    BY DEF Grants, Pair
  <2> QED
    BY <2>1
<1>2. Promised!Lapse(gone)
  BY <1>1 DEF Promised!Lapse, Promised!Pair, Pair
<1>3. gone \in SUBSET Promised!Pair
  BY DEF Promised!Pair, Pair
<1> QED
  BY <1>2, <1>3 DEF Promised!GrantNext

\* Time passes, or something else than sessions and pointers changes.
LEMMA TimeLapses ==
  ASSUME KeyInv, KeyInv', now <= now', UNCHANGED <<session, activeKeySession>>
  PROVE  Promised!GrantNext
<1>1. ASSUME NEW p \in Pair PROVE Grants'[p] \in {Grants[p], NoGrant}
  <2> DEFINE id == activeKeySession[p]
  <2>1. IsValid(id)' => IsValid(id)
    <3> SUFFICES ASSUME IsValid(id)' PROVE IsValid(id)
      OBVIOUS
    <3>1. id \in Id /\ ~session[id].revoked /\ now' < session[id].expiresAt
      BY DEF IsValid, Id
    <3>2. session[id].expiresAt \in Nat /\ now \in Nat /\ now' \in Nat
      <4>1. session[id] \in SessionType
        BY <3>1, LenProperties, ElementOfSeq DEF KeyInv, TypeOK, Id
      <4> QED
        BY <4>1 DEF SessionType, KeyInv, TypeOK
    <3> QED
      BY <3>1, <3>2 DEF IsValid
  <2> QED
    BY <2>1, GrantAt
<1> QED
  BY <1>1, Lapses

LEMMA RevokeLapses ==
  ASSUME KeyInv, NEW caller, NEW id \in Id, Revoke(caller, id)
  PROVE  Promised!GrantNext
<1> DEFINE pair == <<session[id].agent, session[id].key>>
<1>1. /\ session \in Seq(SessionType) /\ id \in 1..Len(session)
      /\ Id = 1..Len(session) /\ Len(session) \in Nat
      /\ activeKeySession \in [Pair -> Nat]
  BY LenProperties DEF KeyInv, TypeOK, Id
<1>2. session' = Revoked(session, id) /\ now' = now /\ ~session[id].revoked
  BY DEF Revoke, Revoked
<1>3. /\ Len(session') = Len(session) /\ session' \in Seq(SessionType)
      /\ \A j \in Id : /\ session'[j].expiresAt = session[j].expiresAt
                        /\ (session'[j].revoked <=> (session[j].revoked \/ j = id))
                        /\ GrantIn(session'[j]) = GrantIn(session[j])
  BY <1>1, <1>2, RevokedAt, RevokedEntry
<1>4. Id' = Id
  BY <1>1, <1>3, LenProperties DEF Id
<1>5. \A p \in Pair : activeKeySession'[p] \in {0, activeKeySession[p]}
  BY <1>1 DEF Revoke
<1>6. ASSUME NEW p \in Pair PROVE Grants'[p] \in {Grants[p], NoGrant}
  <2>1. CASE activeKeySession'[p] = 0
    <3>1. ~IsValid(activeKeySession[p])'
      BY <1>1, <1>4, <2>1 DEF IsValid
    <3> QED
      BY <3>1, GrantAt
  <2>2. CASE activeKeySession'[p] = activeKeySession[p]
    <3> DEFINE j == activeKeySession[p]
    <3>1. IsValid(j)' => j \in Id /\ IsValid(j)
      BY <1>2, <1>3, <1>4, <2>2 DEF IsValid
    <3>2. IsValid(j)' => GrantIn(session'[j]) = GrantIn(session[j])
      BY <1>3, <3>1
    <3> QED
      BY <2>2, <3>1, <3>2, GrantAt
  <2> QED
    BY <1>5, <2>1, <2>2
<1> QED
  BY <1>6, Lapses

LEMMA IssueGives ==
  ASSUME KeyInv, NEW caller, NEW a \in Agent, NEW k \in Key, NEW e \in Nat,
         NEW s \in SUBSET Scope, NEW v \in Value, NEW ts \in SUBSET Target,
         NEW w \in Window, NEW r \in Rate, Issue(caller, a, k, e, s, v, ts, w, r)
  PROVE  Promised!GrantNext
<1> USE NumberAssumption
<1> DEFINE n     == Len(session)
           pair  == <<a, k>>
           prior == activeKeySession[pair]
           new   == [agent |-> a, key |-> k, expiresAt |-> e,
                     scopes |-> s, maxValue |-> v,
                     targets |-> ts, window |-> w, revoked |-> FALSE]
           kept  == IF prior = 0 THEN session ELSE Revoked(session, prior)
           g     == [scopes |-> s, maxValue |-> v, targets |-> ts]
<1>1. /\ session' = Append(kept, new)
      /\ activeKeySession' = [activeKeySession EXCEPT ![pair] = n + 1]
      /\ now' = now /\ now < e
  BY DEF Issue, Revoked
<1>2. pair \in Pair /\ new \in SessionType /\ GrantIn(new) = g /\ g \in GrantType
  BY DEF Pair, SessionType, GrantIn, GrantType
<1>3. /\ session \in Seq(SessionType) /\ n \in Nat /\ Id = 1..n
      /\ activeKeySession \in [Pair -> Nat] /\ prior \in 0..n
  BY <1>2, LenProperties DEF KeyInv, TypeOK, PointersInRange, Id
<1>4. /\ kept \in Seq(SessionType) /\ Len(kept) = n
      /\ \A j \in 1..n : j # prior => kept[j] = session[j]
  <2>1. CASE prior = 0
    BY <1>3, <2>1
  <2>2. CASE prior # 0
    <3>1. prior \in 1..n /\ kept = Revoked(session, prior)
      BY <1>3, <2>2
    <3> QED
      BY <1>3, <3>1, RevokedAt, RevokedEntry
  <2> QED
    BY <2>1, <2>2
<1> HIDE DEF kept
<1>5. /\ session' \in Seq(SessionType) /\ Len(session') = n + 1
      /\ \A j \in 1..n : session'[j] = kept[j]
      /\ session'[n + 1] = new
  BY <1>1, <1>2, <1>3, <1>4, AppendProperties
<1>6. Id' = 1..(n + 1)
  BY <1>5, LenProperties DEF Id
<1>7. Grants'[pair] = g
  <2>1. activeKeySession'[pair] = n + 1
    BY <1>1, <1>2, <1>3
  <2>2. IsValid(activeKeySession[pair])'
    BY <1>1, <1>3, <1>5, <1>6, <2>1 DEF IsValid
  <2> QED
    BY <1>2, <1>5, <2>1, <2>2, GrantAt
<1>8. ASSUME NEW p \in Pair, p # pair PROVE Grants'[p] = Grants[p]
  <2> DEFINE j == activeKeySession[p]
  <2>1. activeKeySession'[p] = j /\ j \in 0..n
    BY <1>1, <1>3, <1>8 DEF KeyInv, PointersInRange
  <2>2. CASE j = 0
    <3>1. ~IsValid(j) /\ ~IsValid(activeKeySession[p])'
      BY <1>3, <1>6, <2>1, <2>2 DEF IsValid
    <3> QED
      BY <3>1, GrantAt
  <2>3. CASE j # 0
    <3>1. j \in 1..n
      BY <1>3, <2>1, <2>3
    <3>2. p = <<session[j].agent, session[j].key>>
      BY <3>1 DEF KeyInv, OneLiveSession
    <3>3. j # prior
      BY <1>2, <1>8, <3>1, <3>2 DEF KeyInv, OneLiveSession
    <3>4. session'[j] = session[j]
      BY <1>4, <1>5, <3>1, <3>3
    <3>5. IsValid(activeKeySession[p])' <=> IsValid(j)
      <4>1. j \in Id /\ j \in Id'
        BY <1>3, <1>6, <3>1
      <4>2. IsValid(activeKeySession[p])'
              <=> /\ activeKeySession'[p] \in Id'
                  /\ ~session'[activeKeySession'[p]].revoked
                  /\ now' < session'[activeKeySession'[p]].expiresAt
        BY DEF IsValid
      <4>3. IsValid(j) <=> j \in Id /\ ~session[j].revoked /\ now < session[j].expiresAt
        BY DEF IsValid
      <4> HIDE DEF j
      <4> QED
        BY <1>1, <2>1, <3>4, <4>1, <4>2, <4>3
    <3> QED
      BY <2>1, <3>4, <3>5, GrantAt
  <2> QED
    BY <2>2, <2>3
<1>9. Grants' = [Grants EXCEPT ![pair] = g]
  <2>1. Grants = [p \in Pair |-> Grants[p]] /\ Grants' = [p \in Pair |-> Grants'[p]]
    BY DEF Grants, Pair
  <2> HIDE DEF pair, g
  <2> QED
    BY <1>7, <1>8, <2>1
<1>10. Promised!Give(a, k, g)
  BY <1>9 DEF Promised!Give
<1> QED
  BY <1>2, <1>10 DEF Promised!GrantNext, GrantType

LEMMA GrantStart ==
  ASSUME Init
  PROVE  Promised!GrantInit
<1>1. \A p \in Pair : ~IsValid(activeKeySession[p])
  BY DEF Init, IsValid, Id
<1>2. \A p \in Pair : Grants[p] = NoGrant
  BY <1>1, GrantAt
<1>3. Grants = [p \in Pair |-> Grants[p]]
  BY DEF Grants, Pair
<1> QED
  BY <1>2, <1>3 DEF Promised!GrantInit, Promised!Pair, Pair

LEMMA StepGrants ==
  ASSUME KeyInv, [Next]_vars
  PROVE  [Promised!GrantNext]_Grants
<1> USE NumberAssumption
<1>1. KeyInv' /\ now <= now'
  BY SessionStep
<1>2. ASSUME UNCHANGED <<session, activeKeySession>> PROVE Promised!GrantNext
  BY <1>1, <1>2, TimeLapses
<1>3. CASE \E caller \in Issuer \cup {Root}, id \in Id : Revoke(caller, id)
  BY <1>3, RevokeLapses
<1>4. CASE \E caller \in Issuer \cup {Root} :
             \E a \in Agent, k \in Key, e \in 1..(MaxTime + 1),
                s \in SUBSET Scope, v \in Value, ts \in SUBSET Target,
                w \in Window, r \in Rate : Issue(caller, a, k, e, s, v, ts, w, r)
  <2>1. PICK caller \in Issuer \cup {Root}, a \in Agent, k \in Key, e \in 1..(MaxTime + 1),
             s \in SUBSET Scope, v \in Value, ts \in SUBSET Target, w \in Window, r \in Rate :
               Issue(caller, a, k, e, s, v, ts, w, r)
    BY <1>4
  <2>2. e \in Nat
    OBVIOUS
  <2> QED
    BY <2>1, <2>2, IssueGives
<1>5. CASE \E router \in Router, a \in Agent, k \in Key : RecordProposal(router, a, k)
  BY <1>2, <1>5 DEF RecordProposal
<1>6. CASE \/ \E i \in Issuer : SetIssuer(Root, i)
           \/ \E ttl \in Ttl : SetMaxIssuerTtl(Root, ttl)
           \/ \E r \in Router : SetEscalationRouter(Root, r)
           \/ Tick
           \/ UNCHANGED vars
  BY <1>2, <1>6 DEF SetIssuer, SetMaxIssuerTtl, SetEscalationRouter, Tick, vars
<1> QED
  BY <1>3, <1>4, <1>5, <1>6 DEF Next

\* The registry implements KeyGrants: what the router reads of a key (keyLimits,
\* isTargetAllowed) is given by an issue for that key and lapses for good.
THEOREM RegistryKeepsGrants == Spec => KeepsGrants
<1>1. KeyInv /\ [Next]_vars => [Promised!GrantNext]_Grants
  BY StepGrants
<1>2. KeyInv /\ [Next]_vars => KeyInv'
  BY SessionStep
<1> QED
  BY <1>1, <1>2, SessionStart, GrantStart, PTL DEF Spec, KeepsGrants, Promised!GrantSpec

-----------------------------------------------------------------------------
(* No key is used beyond its limit by more than the seam of two windows.   *)
(* A session's history is a sheet of how many proposals were counted when; *)
(* Spent(h, S) are those of the times S.                                   *)

Time == 1..MaxTime
Spent(h, S) == {u \in Units(h) : u[1] \in S}
Count(h, S) == Cardinality(Spent(h, S))
OneMore(h, t) == [h EXCEPT ![t] = @ + 1]

LEMMA InSpent ==
  ASSUME NEW h \in [Time -> Nat], NEW S, NEW t, NEW k
  PROVE  <<t, k>> \in Spent(h, S) <=> t \in Time /\ t \in S /\ k \in 1..h[t]
<1>1. <<t, k>> \in Units(h) <=> \E x \in Time : t = x /\ k \in 1..h[x]
  BY DEF Units
<1> QED
  BY <1>1 DEF Spent

LEMMA SpentPairs ==
  ASSUME NEW h \in [Time -> Nat], NEW S, NEW u \in Spent(h, S)
  PROVE  u = <<u[1], u[2]>>
  BY DEF Spent, Units

LEMMA SpentFinite ==
  ASSUME NEW h \in [Time -> Nat], NEW S
  PROVE  IsFiniteSet(Spent(h, S)) /\ Count(h, S) \in Nat
<1>1. IsFiniteSet(Time)
  BY NumberAssumption, FS_Interval DEF Time
<1>2. IsFiniteSet(Units(h)) /\ Spent(h, S) \subseteq Units(h)
  BY <1>1, UnitsFinite DEF Spent
<1> QED
  BY <1>2, FS_Subset, FS_CardinalityType DEF Count

LEMMA CountWithin ==
  ASSUME NEW h \in [Time -> Nat], NEW S, NEW U,
         \A t \in Time : t \in S /\ h[t] > 0 => t \in U
  PROVE  Count(h, S) <= Count(h, U)
<1>1. Spent(h, S) \subseteq Spent(h, U)
  <2> SUFFICES ASSUME NEW u \in Spent(h, S) PROVE u \in Spent(h, U)
    OBVIOUS
  <2>1. u[1] \in Time /\ u[1] \in S /\ u[2] \in 1..h[u[1]] /\ u = <<u[1], u[2]>>
    BY InSpent, SpentPairs
  <2>2. h[u[1]] > 0
    BY <2>1
  <2> QED
    BY <2>1, <2>2, InSpent
<1> QED
  BY <1>1, SpentFinite, FS_Subset DEF Count

LEMMA CountParts ==
  ASSUME NEW h \in [Time -> Nat], NEW S, NEW U
  PROVE  Count(h, S \cup U) <= Count(h, S) + Count(h, U)
<1>1. Spent(h, S \cup U) = Spent(h, S) \cup Spent(h, U)
  BY DEF Spent
<1>2. Cardinality(Spent(h, S) \cap Spent(h, U)) \in Nat
  BY SpentFinite, FS_Intersection, FS_CardinalityType
<1>3. Cardinality(Spent(h, S) \cup Spent(h, U)) =
        Count(h, S) + Count(h, U) - Cardinality(Spent(h, S) \cap Spent(h, U))
  BY SpentFinite, FS_Union DEF Count
<1>4. Count(h, S \cup U) = Cardinality(Spent(h, S) \cup Spent(h, U))
  BY <1>1 DEF Count
<1>5. Count(h, S) \in Nat /\ Count(h, U) \in Nat
  BY SpentFinite
<1> QED
  BY <1>2, <1>3, <1>4, <1>5

LEMMA CountNone ==
  ASSUME NEW h \in [Time -> Nat], NEW S, \A t \in Time : t \in S => h[t] = 0
  PROVE  Count(h, S) = 0
<1>1. Spent(h, S) = {}
  <2> SUFFICES ASSUME NEW u \in Spent(h, S) PROVE FALSE
    OBVIOUS
  <2>1. u[1] \in Time /\ u[1] \in S /\ u[2] \in 1..h[u[1]]
    BY InSpent, SpentPairs
  <2> QED
    BY <2>1
<1> QED
  BY <1>1, FS_EmptySet DEF Count

\* Leaving out a time with a proposal leaves one fewer.
LEMMA CountWithout ==
  ASSUME NEW h \in [Time -> Nat], NEW S, NEW t \in Time, t \in S, h[t] > 0
  PROVE  Count(h, S \ {t}) <= Count(h, S) - 1
<1>1. <<t, 1>> \in Spent(h, S)
  BY InSpent
<1>2. Spent(h, S \ {t}) \subseteq Spent(h, S) \ {<<t, 1>>}
  BY InSpent DEF Spent
<1>3. /\ IsFiniteSet(Spent(h, S) \ {<<t, 1>>})
      /\ Cardinality(Spent(h, S) \ {<<t, 1>>}) = Count(h, S) - 1
  BY <1>1, SpentFinite, FS_RemoveElement DEF Count
<1>4. Count(h, S \ {t}) <= Cardinality(Spent(h, S) \ {<<t, 1>>})
  BY <1>2, <1>3, FS_Subset DEF Count
<1> QED
  BY <1>3, <1>4

LEMMA CountOneMore ==
  ASSUME NEW h \in [Time -> Nat], NEW S, NEW t \in Time
  PROVE  /\ OneMore(h, t) \in [Time -> Nat]
         /\ \A x \in Time : OneMore(h, t)[x] = IF x = t THEN h[x] + 1 ELSE h[x]
         /\ Count(OneMore(h, t), S) = IF t \in S THEN Count(h, S) + 1 ELSE Count(h, S)
<1> DEFINE g == OneMore(h, t)
<1>1. g \in [Time -> Nat] /\ \A x \in Time : g[x] = IF x = t THEN h[x] + 1 ELSE h[x]
  BY DEF OneMore
<1> HIDE DEF g
<1>2. CASE t \notin S
  <2>1. \A u : u \in Spent(g, S) <=> u \in Spent(h, S)
    BY <1>1, <1>2, InSpent, SpentPairs
  <2>2. Spent(g, S) = Spent(h, S)
    BY <2>1
  <2> QED
    BY <1>1, <1>2, <2>2 DEF Count, g
<1>3. CASE t \in S
  <2> DEFINE new == <<t, h[t] + 1>>
  <2>1. new \notin Spent(h, S)
    BY InSpent
  <2>2. ASSUME NEW x, NEW k
        PROVE  <<x, k>> \in Spent(g, S) <=> <<x, k>> \in Spent(h, S) \cup {new}
    <3>1. CASE x = t
      <4>1. k \in 1..g[t] <=> k \in 1..h[t] \/ k = h[t] + 1
        BY <1>1
      <4> QED
        BY <1>1, <1>3, <3>1, <4>1, InSpent
    <3>2. CASE x # t
      BY <1>1, <3>2, InSpent
    <3> QED
      BY <3>1, <3>2
  <2>3. \A u : u \in Spent(g, S) => u = <<u[1], u[2]>>
    BY <1>1, SpentPairs
  <2>4. \A u : u \in Spent(h, S) \cup {new} => u = <<u[1], u[2]>>
    BY SpentPairs
  <2>5. Spent(g, S) = Spent(h, S) \cup {new}
    BY <2>2, <2>3, <2>4
  <2>6. Cardinality(Spent(h, S) \cup {new}) = Count(h, S) + 1
    BY <2>1, SpentFinite, FS_AddElement DEF Count
  <2> QED
    BY <1>1, <1>3, <2>5, <2>6 DEF Count, g
<1> QED
  BY <1>2, <1>3

\* What the limiter r of a session knows of its history h: nothing was counted
\* yet; or the window that is open began with a proposal, its counter covers
\* all since, and whatever interval reaches into it from before misses at
\* least one proposal of the windows before.
Fresh(h) == \A t \in Time : h[t] = 0
Windowed(r, h, n) ==
  /\ r.windowStart \in 1..n /\ r.count <= r.max
  /\ h[r.windowStart] > 0
  /\ \A t \in Time : h[t] > 0 => t <= n /\ t < r.windowStart + r.period
  /\ Count(h, r.windowStart..MaxTime) <= r.count
  /\ \A t \in Time : r.windowStart < t + r.period =>
                       Count(h, t..(r.windowStart - 1)) <= r.max - 1
  /\ \A t \in Time : Count(h, t..(t + r.period - 1)) < 2 * r.max
Limited(r, h, n) ==
  r.max # 0 => /\ r.period # 0
               /\ \/ r.windowStart = 0 /\ Fresh(h)
                  \/ Windowed(r, h, n)

LEMMA Times == /\ MaxTime \in Nat \ {0}
                /\ \A t : t \in Time <=> t \in Nat /\ 1 <= t /\ t <= MaxTime
  BY NumberAssumption DEF Time

LEMMA LimiterNumbers ==
  ASSUME NEW r \in RateType
  PROVE  /\ r.max \in Nat /\ r.period \in Nat /\ r.windowStart \in Nat /\ r.count \in Nat
         /\ r.max # 0 => r.max > 0
  BY DEF RateType

\* A proposal opens a new window.
LEMMA WindowOpens ==
  ASSUME NEW r \in RateType, NEW h \in [Time -> Nat], NEW n \in Time,
         r.max # 0, Limited(r, h, n),
         r.windowStart = 0 \/ n >= r.windowStart + r.period
  PROVE  Limited([r EXCEPT !.windowStart = n, !.count = 1], OneMore(h, n), n)
<1> USE Times
<1> DEFINE q == [r EXCEPT !.windowStart = n, !.count = 1]
           g == OneMore(h, n)
<1>1. /\ q.windowStart = n /\ q.count = 1 /\ q.max = r.max /\ q.period = r.period
      /\ r.max \in Nat \ {0} /\ r.period \in Nat \ {0} /\ r.windowStart \in Nat
      /\ r.count \in Nat /\ n \in Nat \ {0} /\ n <= MaxTime
  <2>1. q.windowStart = n /\ q.count = 1 /\ q.max = r.max /\ q.period = r.period
    BY DEF RateType
  <2>2. r.period # 0
    BY DEF Limited
  <2> QED
    BY <2>1, <2>2, LimiterNumbers
<1>2. /\ g \in [Time -> Nat]
      /\ \A x \in Time : g[x] = IF x = n THEN h[x] + 1 ELSE h[x]
      /\ \A S : Count(g, S) = IF n \in S THEN Count(h, S) + 1 ELSE Count(h, S)
  BY CountOneMore
<1> HIDE DEF q, g
<1>3. \A t \in Time : h[t] > 0 => t < n
  BY <1>1 DEF Limited, Fresh, Windowed
<1>4. g[n] > 0 /\ \A t \in Time : g[t] > 0 => t <= n /\ t < n + r.period
  BY <1>1, <1>2, <1>3
<1>5. Count(g, n..MaxTime) = 1
  <2>1. Count(h, n..MaxTime) = 0
    BY <1>3, CountNone
  <2> QED
    BY <1>2, <2>1
<1>6. ASSUME NEW t \in Time, n < t + r.period
      PROVE  Count(h, t..(n - 1)) <= r.max - 1
  <2>1. CASE r.windowStart = 0 /\ Fresh(h)
    <3>1. Count(h, t..(n - 1)) = 0
      BY <2>1, CountNone DEF Fresh
    <3> QED
      BY <1>1, <3>1
  <2>2. CASE Windowed(r, h, n)
    <3> DEFINE w == r.windowStart
    <3>1. w \in Time /\ h[w] > 0 /\ w < t /\ Count(h, w..MaxTime) <= r.max
      <4>1. w \in 1..n /\ h[w] > 0 /\ Count(h, w..MaxTime) <= r.count /\ r.count <= r.max
        BY <2>2 DEF Windowed
      <4>2. Count(h, w..MaxTime) \in Nat
        BY SpentFinite
      <4>3. w # 0 /\ n >= w + r.period
        BY <1>1, <4>1
      <4>4. w < t
        BY <1>1, <1>6, <4>3
      <4> QED
        BY <1>1, <4>1, <4>2, <4>4
    <3>2. Count(h, (w..MaxTime) \ {w}) <= Count(h, w..MaxTime) - 1
      <4>1. w \in w..MaxTime
        BY <3>1
      <4> QED
        BY <3>1, <4>1, CountWithout
    <3>3. Count(h, t..(n - 1)) <= Count(h, (w..MaxTime) \ {w})
      <4>1. \A x \in Time : x \in t..(n - 1) /\ h[x] > 0 => x \in (w..MaxTime) \ {w}
        BY <1>1, <3>1
      <4> QED
        BY <4>1, CountWithin
    <3>4. /\ Count(h, (w..MaxTime) \ {w}) \in Nat /\ Count(h, w..MaxTime) \in Nat
          /\ Count(h, t..(n - 1)) \in Nat
      BY SpentFinite
    <3> QED
      BY <1>1, <3>1, <3>2, <3>3, <3>4
  <2> QED
    BY <1>1, <2>1, <2>2 DEF Limited
<1>7. \A t \in Time : n < t + r.period => Count(g, t..(n - 1)) <= r.max - 1
  BY <1>2, <1>6
<1>8. ASSUME NEW t \in Time PROVE Count(g, t..(t + r.period - 1)) < 2 * r.max
  <2> DEFINE S == t..(t + r.period - 1)
  <2>0. Count(h, S) \in Nat
    BY SpentFinite
  <2>1. CASE n \in S
    <3>0. \A x \in Time : x \in S /\ h[x] > 0 => x \in t..(n - 1)
      BY <1>1, <1>3
    <3>1. Count(h, S) <= Count(h, t..(n - 1))
      BY <3>0, CountWithin
    <3>2. Count(h, t..(n - 1)) <= r.max - 1 /\ Count(h, t..(n - 1)) \in Nat
      BY <1>1, <1>6, <2>1, SpentFinite
    <3>3. Count(g, S) = Count(h, S) + 1
      BY <1>2, <2>1
    <3> QED
      BY <1>1, <2>0, <3>1, <3>2, <3>3
  <2>2. CASE n \notin S
    <3>1. Count(g, S) = Count(h, S)
      BY <1>2, <2>2
    <3>2. CASE r.windowStart = 0 /\ Fresh(h)
      <4>1. Count(h, S) = 0
        BY <3>2, CountNone DEF Fresh
      <4> QED
        BY <1>1, <3>1, <4>1
    <3>3. CASE Windowed(r, h, n)
      BY <3>1, <3>3 DEF Windowed
    <3> QED
      BY <1>1, <3>2, <3>3 DEF Limited
  <2> QED
    BY <2>1, <2>2
<1>9. Windowed(q, g, n)
  BY <1>1, <1>4, <1>5, <1>7, <1>8 DEF Windowed
<1> QED
  BY <1>1, <1>9 DEF Limited, q, g

\* Before the window at most max - 1, in it at most max.
LEMMA SeamArithmetic ==
  ASSUME NEW all \in Nat, NEW both \in Nat, NEW before \in Nat, NEW since \in Nat,
         NEW count \in Nat, NEW max \in Nat \ {0},
         all <= both, both <= before + since, before <= max - 1,
         since <= count + 1, count + 1 <= max
  PROVE  all < 2 * max
  OBVIOUS

\* A proposal is counted in the window that is open.
LEMMA WindowGoesOn ==
  ASSUME NEW r \in RateType, NEW h \in [Time -> Nat], NEW n \in Time,
         r.max # 0, Limited(r, h, n), r.count + 1 <= r.max,
         ~(r.windowStart = 0 \/ n >= r.windowStart + r.period)
  PROVE  Limited([r EXCEPT !.count = @ + 1], OneMore(h, n), n)
<1> USE Times
<1> DEFINE q == [r EXCEPT !.count = @ + 1]
           g == OneMore(h, n)
           w == r.windowStart
<1>0. w \in Nat /\ r.max \in Nat \ {0} /\ r.count \in Nat /\ n \in Nat /\ n <= MaxTime
  BY LimiterNumbers
<1>1. /\ q.windowStart = w /\ q.count = r.count + 1 /\ q.max = r.max /\ q.period = r.period
      /\ r.period \in Nat \ {0}
      /\ n < w + r.period
  <2>1. q.windowStart = w /\ q.count = r.count + 1 /\ q.max = r.max /\ q.period = r.period
    BY DEF RateType
  <2>2. r.period \in Nat \ {0}
    BY LimiterNumbers DEF Limited
  <2>3. n < w + r.period
    BY <1>0, <2>2
  <2> QED
    BY <2>1, <2>2, <2>3
<1>2. Windowed(r, h, n)
  BY <1>0 DEF Limited
<1>3. /\ g \in [Time -> Nat]
      /\ \A x \in Time : g[x] = IF x = n THEN h[x] + 1 ELSE h[x]
      /\ \A S : Count(g, S) = IF n \in S THEN Count(h, S) + 1 ELSE Count(h, S)
  BY CountOneMore
<1>4. w \in 1..n /\ w \in Time
  BY <1>2 DEF Windowed
<1> HIDE DEF q, g
<1>5. g[w] > 0 /\ \A t \in Time : g[t] > 0 => t <= n /\ t < w + r.period
  <2>1. h[w] > 0 /\ h[w] \in Nat /\ \A t \in Time : h[t] > 0 => t <= n /\ t < w + r.period
    BY <1>2, <1>4 DEF Windowed
  <2>2. g[w] > 0
    BY <1>3, <1>4, <2>1
  <2>3. ASSUME NEW t \in Time, g[t] > 0 PROVE t <= n /\ t < w + r.period
    BY <1>0, <1>1, <1>3, <2>1, <2>3
  <2> QED
    BY <2>2, <2>3
<1>6. Count(g, w..MaxTime) <= r.count + 1
  <2>1. Count(h, w..MaxTime) <= r.count /\ Count(h, w..MaxTime) \in Nat
    BY <1>2, SpentFinite DEF Windowed
  <2>2. Count(g, w..MaxTime) = Count(h, w..MaxTime) + 1
    BY <1>3, <1>4
  <2> QED
    BY <1>0, <2>1, <2>2
<1>7. ASSUME NEW t \in Time, w < t + r.period
      PROVE  Count(g, t..(w - 1)) <= r.max - 1
  <2>1. n \notin t..(w - 1)
    BY <1>4
  <2> QED
    BY <1>2, <1>3, <1>7, <2>1 DEF Windowed
<1>8. ASSUME NEW t \in Time PROVE Count(g, t..(t + r.period - 1)) < 2 * r.max
  <2> DEFINE S == t..(t + r.period - 1)
  <2>1. CASE n \in S
    <3>0. \A x \in Time : x \in S /\ g[x] > 0 => x \in (t..(w - 1)) \cup (w..MaxTime)
      BY <1>0, <1>4
    <3>1. Count(g, S) <= Count(g, (t..(w - 1)) \cup (w..MaxTime))
      BY <1>3, <3>0, CountWithin
    <3>2. Count(g, (t..(w - 1)) \cup (w..MaxTime)) <= Count(g, t..(w - 1)) + Count(g, w..MaxTime)
      BY <1>3, CountParts
    <3>3. Count(g, t..(w - 1)) <= r.max - 1
      <4>1. w < t + r.period
        BY <1>0, <1>1, <1>4, <2>1
      <4> QED
        BY <1>7, <4>1
    <3>4. /\ Count(g, S) \in Nat /\ Count(g, t..(w - 1)) \in Nat
          /\ Count(g, w..MaxTime) \in Nat
          /\ Count(g, (t..(w - 1)) \cup (w..MaxTime)) \in Nat
      BY <1>3, SpentFinite
    <3>5. r.count + 1 <= r.max
      OBVIOUS
    <3> DEFINE all    == Count(g, S)
               both   == Count(g, (t..(w - 1)) \cup (w..MaxTime))
               before == Count(g, t..(w - 1))
               since  == Count(g, w..MaxTime)
    <3>6. /\ all \in Nat /\ both \in Nat /\ before \in Nat /\ since \in Nat
          /\ all <= both /\ both <= before + since /\ before <= r.max - 1
          /\ since <= r.count + 1
      BY <1>6, <3>1, <3>2, <3>3, <3>4
    <3> HIDE DEF all, both, before, since
    <3>7. all < 2 * r.max
      BY <1>0, <3>5, <3>6, SeamArithmetic
    <3> QED
      BY <3>7 DEF all
  <2>2. CASE n \notin S
    BY <1>2, <1>3, <2>2 DEF Windowed
  <2> QED
    BY <2>1, <2>2
<1>9. Windowed(q, g, n)
  BY <1>0, <1>1, <1>4, <1>5, <1>6, <1>7, <1>8 DEF Windowed
<1> QED
  BY <1>1, <1>9 DEF Limited, q, g

\* The clock goes on.
LEMMA LimitedLater ==
  ASSUME NEW r \in RateType, NEW h \in [Time -> Nat], NEW n \in Time, NEW m \in Time,
         Limited(r, h, n), n <= m
  PROVE  Limited(r, h, m)
<1>1. CASE r.max # 0 /\ Windowed(r, h, n)
  <2>1. r.windowStart \in 1..m
    BY <1>1, NumberAssumption DEF Windowed, Time
  <2>2. \A t \in Time : h[t] > 0 => t <= m /\ t < r.windowStart + r.period
    BY <1>1, NumberAssumption DEF Windowed, Time
  <2>3. Windowed(r, h, m)
    BY <1>1, <2>1, <2>2 DEF Windowed
  <2> QED
    BY <1>1, <2>3 DEF Limited
<1>2. CASE ~(r.max # 0 /\ Windowed(r, h, n))
  BY <1>2 DEF Limited
<1> QED
  BY <1>1, <1>2

\* A fresh slot: one with a limit has a period (_issue).
LEMMA LimitedFresh ==
  ASSUME NEW rate \in Rate, RateOK(rate), NEW n \in Time
  PROVE  Limited([max |-> rate[1], period |-> rate[2], windowStart |-> 0, count |-> 0],
                 [t \in Time |-> 0], n)
<1>1. rate \in Nat \X Nat /\ rate = <<rate[1], rate[2]>>
  BY NumberAssumption
<1>2. rate[1] # 0 => rate[2] # 0
  BY <1>1 DEF RateOK, NoRate
<1> QED
  BY <1>2 DEF Limited, Fresh

\* Any interval of a period's length holds fewer than twice the limit.
LEMMA LimitedIsBounded ==
  ASSUME NEW r \in RateType, NEW h \in [Time -> Nat], NEW n \in Time, Limited(r, h, n),
         r.max # 0, NEW t \in Time
  PROVE  Cardinality({e \in Time \X (1..2 * r.max) :
                        e[1] \in t..(t + r.period - 1) /\ e[2] <= h[e[1]]}) < 2 * r.max
<1> DEFINE S == t..(t + r.period - 1)
           E == {e \in Time \X (1..2 * r.max) : e[1] \in S /\ e[2] <= h[e[1]]}
<1>0. r.max \in Nat \ {0}
  BY DEF RateType
<1>1. E \subseteq Spent(h, S)
  <2> SUFFICES ASSUME NEW e \in E PROVE e \in Spent(h, S)
    OBVIOUS
  <2>1. e = <<e[1], e[2]>> /\ e[1] \in Time /\ e[1] \in S /\ e[2] \in 1..h[e[1]]
    BY <1>0
  <2>2. <<e[1], e[2]>> \in Spent(h, S)
    BY <2>1, InSpent
  <2> QED
    BY <2>1, <2>2
<1> HIDE DEF E
<1>2. Cardinality(E) <= Count(h, S) /\ Cardinality(E) \in Nat /\ Count(h, S) \in Nat
  BY <1>1, SpentFinite, FS_Subset, FS_CardinalityType DEF Count
<1>3. Count(h, S) < 2 * r.max
  <2>1. CASE Fresh(h)
    <3>1. Count(h, S) = 0
      BY <2>1, CountNone DEF Fresh
    <3> QED
      BY <1>0, <3>1
  <2>2. CASE Windowed(r, h, n)
    BY <2>2 DEF Windowed
  <2> QED
    BY <2>1, <2>2 DEF Limited
<1>4. Cardinality(E) < 2 * r.max
  BY <1>0, <1>2, <1>3
<1> QED
  BY <1>4 DEF E

RateInv == KeyInv /\ now \in Time /\ \A id \in Id : Limited(rateLimit[id], proposed[id], now)

LEMMA RateTypes ==
  ASSUME KeyInv
  PROVE  /\ rateLimit \in Seq(RateType) /\ proposed \in Seq([Time -> Nat])
         /\ Id = 1..Len(rateLimit) /\ Id = 1..Len(proposed)
         /\ \A id \in Id : rateLimit[id] \in RateType /\ proposed[id] \in [Time -> Nat]
<1>1. /\ rateLimit \in Seq(RateType) /\ proposed \in Seq([Time -> Nat])
      /\ Id = 1..Len(rateLimit) /\ Id = 1..Len(proposed)
  BY DEF KeyInv, TypeOK, Id, Time
<1> QED
  BY <1>1, ElementOfSeq

LEMMA RateStart ==
  ASSUME Init
  PROVE  RateInv
  BY SessionStart, Times DEF Init, RateInv, Id

LEMMA RateIssued ==
  ASSUME RateInv, KeyInv', NEW rate \in Rate, RateOK(rate), OpenRateLimit(rate),
         proposed' = Append(proposed, [t \in 1..MaxTime |-> 0]), now' = now
  PROVE  RateInv'
<1> USE DEF RateInv
<1> DEFINE slot == [max |-> rate[1], period |-> rate[2], windowStart |-> 0, count |-> 0]
           none == [t \in Time |-> 0]
<1>1. rateLimit' = Append(rateLimit, slot) /\ proposed' = Append(proposed, none)
  BY DEF OpenRateLimit, Time
<1>2. Limited(slot, none, now)
  BY LimitedFresh
<1> HIDE DEF slot, none
<1>3. Id' = 1..Len(rateLimit') /\ rateLimit \in Seq(RateType)
      /\ proposed \in Seq([Time -> Nat]) /\ Id = 1..Len(rateLimit) /\ Id = 1..Len(proposed)
  BY RateTypes DEF KeyInv, TypeOK, Id
<1>4. ASSUME NEW id \in Id' PROVE Limited(rateLimit'[id], proposed'[id], now)
  <2>1. CASE id \in Id
    <3>1. rateLimit'[id] = rateLimit[id] /\ proposed'[id] = proposed[id]
      BY <1>1, <1>3, <2>1
    <3> QED
      BY <2>1, <3>1
  <2>2. CASE id \notin Id
    <3>1. id = Len(rateLimit) + 1 /\ id = Len(proposed) + 1
      BY <1>1, <1>3, <2>2
    <3>2. rateLimit'[id] = slot /\ proposed'[id] = none
      BY <1>1, <1>3, <3>1
    <3> QED
      BY <1>2, <3>2
  <2> QED
    BY <2>1, <2>2
<1> QED
  BY <1>4

LEMMA RateRecorded ==
  ASSUME RateInv, KeyInv', NEW router, NEW a \in Agent, NEW k \in Key,
         RecordProposal(router, a, k)
  PROVE  RateInv'
<1> DEFINE id == activeKeySession[<<a, k>>]
           r  == rateLimit[id]
           h  == proposed[id]
<1>1. /\ rateLimit' = IF WindowElapsed(id)
           THEN [rateLimit EXCEPT ![id].windowStart = now, ![id].count = 1]
           ELSE [rateLimit EXCEPT ![id].count = @ + 1]
      /\ proposed' = [proposed EXCEPT ![id][now] = @ + 1]
      /\ UNCHANGED <<session, now>>
      /\ r.max # 0 /\ (WindowElapsed(id) \/ r.count + 1 <= r.max)
      /\ id # 0
  BY DEF RecordProposal, IsCounted, Accepts
<1>2. id \in Id
  <2>1. id \in 0..Len(session) /\ Len(session) \in Nat
    BY LenProperties DEF RateInv, KeyInv, PointersInRange, Pair, TypeOK
  <2> QED
    BY <1>1, <2>1 DEF RateInv, KeyInv, TypeOK, Id
<1>3. /\ rateLimit \in Seq(RateType) /\ proposed \in Seq([Time -> Nat])
      /\ Id = DOMAIN rateLimit /\ Id = DOMAIN proposed /\ Id' = Id
      /\ r \in RateType /\ h \in [Time -> Nat] /\ now \in Time /\ Limited(r, h, now)
  <2>1. Id' = Id
    BY <1>1 DEF Id
  <2>2. /\ rateLimit \in Seq(RateType) /\ proposed \in Seq([Time -> Nat])
        /\ Id = 1..Len(rateLimit) /\ Id = 1..Len(proposed)
        /\ r \in RateType /\ h \in [Time -> Nat]
    BY <1>2, RateTypes DEF RateInv
  <2>3. DOMAIN rateLimit = 1..Len(rateLimit) /\ DOMAIN proposed = 1..Len(proposed)
    BY <2>2
  <2> QED
    BY <1>2, <2>1, <2>2, <2>3 DEF RateInv
<1> HIDE DEF id
<1>4. /\ proposed'[id] = OneMore(h, now)
      /\ \A x \in Id : x # id => proposed'[x] = proposed[x] /\ rateLimit'[x] = rateLimit[x]
  <2>1. proposed' = [proposed EXCEPT ![id] = OneMore(h, now)]
    BY <1>1 DEF OneMore
  <2>2. rateLimit' = [rateLimit EXCEPT ![id] = rateLimit'[id]]
    BY <1>1, <1>2, <1>3
  <2>3. id \in DOMAIN proposed /\ Id = DOMAIN proposed /\ Id = DOMAIN rateLimit
    BY <1>2, <1>3
  <2> HIDE DEF r, h
  <2>4. proposed'[id] = OneMore(h, now)
    BY <2>1, <2>3
  <2>5. \A x \in DOMAIN proposed : x # id => proposed'[x] = proposed[x]
    BY <2>1
  <2>6. \A x \in DOMAIN rateLimit : x # id => rateLimit'[x] = rateLimit[x]
    BY <2>2
  <2> QED
    BY <2>3, <2>4, <2>5, <2>6
<1>5. CASE WindowElapsed(id)
  <2>1. rateLimit'[id] = [r EXCEPT !.windowStart = now, !.count = 1]
    BY <1>1, <1>2, <1>3, <1>5
  <2>2. r.windowStart = 0 \/ now >= r.windowStart + r.period
    BY <1>5 DEF WindowElapsed
  <2> HIDE DEF r, h
  <2>3. r.max # 0
    BY <1>1 DEF r
  <2>4. Limited([r EXCEPT !.windowStart = now, !.count = 1], OneMore(h, now), now)
    BY <1>3, <2>2, <2>3, WindowOpens
  <2> QED
    BY <1>1, <1>3, <1>4, <2>1, <2>4 DEF RateInv
<1>6. CASE ~WindowElapsed(id)
  <2>1. rateLimit'[id] = [r EXCEPT !.count = @ + 1]
    BY <1>1, <1>2, <1>3, <1>6
  <2>2. ~(r.windowStart = 0 \/ now >= r.windowStart + r.period)
    BY <1>6 DEF WindowElapsed
  <2>3. r.count + 1 <= r.max
    BY <1>1, <1>6
  <2> HIDE DEF r, h
  <2>4. r.max # 0
    BY <1>1 DEF r
  <2>5. Limited([r EXCEPT !.count = @ + 1], OneMore(h, now), now)
    BY <1>3, <2>2, <2>3, <2>4, WindowGoesOn
  <2> QED
    BY <1>1, <1>3, <1>4, <2>1, <2>5 DEF RateInv
<1> QED
  BY <1>5, <1>6

LEMMA RateStep ==
  ASSUME RateInv, [Next]_vars
  PROVE  RateInv'
<1>1. KeyInv' /\ now <= now'
  BY SessionStep DEF RateInv
<1>2. ASSUME UNCHANGED <<rateLimit, proposed>>, now' \in Time PROVE RateInv'
  <2>1. Id' = Id
    BY <1>1, <1>2 DEF RateInv, KeyInv, TypeOK, Id
  <2>2. ASSUME NEW id \in Id PROVE Limited(rateLimit[id], proposed[id], now')
    <3>1. rateLimit[id] \in RateType /\ proposed[id] \in [Time -> Nat]
      BY RateTypes DEF RateInv
    <3> QED
      BY <1>1, <1>2, <3>1, LimitedLater DEF RateInv
  <2> QED
    BY <1>1, <1>2, <2>1, <2>2 DEF RateInv
<1>3. CASE \/ \E i \in Issuer : SetIssuer(Root, i)
           \/ \E ttl \in Ttl : SetMaxIssuerTtl(Root, ttl)
           \/ \E r \in Router : SetEscalationRouter(Root, r)
           \/ \E caller \in Issuer \cup {Root}, id \in Id : Revoke(caller, id)
           \/ UNCHANGED vars
  <2>1. UNCHANGED <<rateLimit, proposed, now>>
    BY <1>3 DEF SetIssuer, SetMaxIssuerTtl, SetEscalationRouter, Revoke, vars
  <2> QED
    BY <1>2, <2>1 DEF RateInv
<1>4. CASE Tick
  <2>1. UNCHANGED <<rateLimit, proposed>> /\ now' = now + 1 /\ now < MaxTime
    BY <1>4 DEF Tick
  <2>2. now' \in Time
    BY <2>1, Times DEF RateInv
  <2> QED
    BY <1>2, <2>1, <2>2
<1>5. CASE \E caller \in Issuer \cup {Root} :
             \E a \in Agent, k \in Key, e \in 1..(MaxTime + 1),
                s \in SUBSET Scope, v \in Value, ts \in SUBSET Target,
                w \in Window, r \in Rate : Issue(caller, a, k, e, s, v, ts, w, r)
  <2>1. PICK r \in Rate : /\ RateOK(r) /\ OpenRateLimit(r) /\ now' = now
                          /\ proposed' = Append(proposed, [t \in 1..MaxTime |-> 0])
    BY <1>5 DEF Issue
  <2> QED
    BY <1>1, <2>1, RateIssued
<1>6. CASE \E router \in Router, a \in Agent, k \in Key : RecordProposal(router, a, k)
  BY <1>1, <1>6, RateRecorded
<1> QED
  BY <1>3, <1>4, <1>5, <1>6 DEF Next

\* No ratePeriod seconds hold 2 * maxProposals counted proposals of a session,
\* for any limits: a window restarts with the first proposal after it elapsed,
\* so the windows before it miss at least one (recordProposal).
THEOREM BurstsAreBounded == Spec => []BurstBound
<1>1. RateInv => BurstBound
  <2> SUFFICES ASSUME RateInv, NEW id \in Id, NEW t \in Time, rateLimit[id].max # 0
               PROVE  Cardinality({e \in Time \X (1..2 * rateLimit[id].max) :
                        e[1] \in t..(t + rateLimit[id].period - 1)
                        /\ e[2] <= proposed[id][e[1]]}) < 2 * rateLimit[id].max
    BY DEF BurstBound, Time
  <2>1. rateLimit[id] \in RateType /\ proposed[id] \in [Time -> Nat]
    BY RateTypes DEF RateInv
  <2> QED
    BY <2>1, LimitedIsBounded DEF RateInv
<1>2. RateInv /\ [Next]_vars => RateInv'
  BY RateStep
<1> QED
  BY <1>1, <1>2, RateStart, PTL DEF Spec
=============================================================================
