------------------------------ MODULE Webhooks ------------------------------
(***************************************************************************)
(* Webhook deliveries (orchestrator/src/webhooks.ts, the Postgres store of *)
(* webhookStore.ts): a producer posts a delivery, and posts it again when  *)
(* it got no answer; the delivery is claimed in the store, queued, and run *)
(* by whichever replica takes the job.  One hook, one flow.                *)
(***************************************************************************)
EXTENDS JobQueue

CONSTANTS Key,                \* the deliveries producers make
          MaxPosts,           \* bounds: the posts of one delivery,
          MaxReplicaCrashes   \* and crashes

ASSUME PostsAssumption == MaxPosts \in Nat /\ MaxReplicaCrashes \in Nat

VARIABLES delivery,    \* orchestrator_webhook_deliveries: the row of a key
          posts,       \* how often the producer posted it
          accepting,   \* accept, by replica: one request at a time
          delivering,  \* deliver, by replica: one job at a time
          lost,        \* history: claimed by a replica that never queued it
          unrecorded,  \* history: the write of the outcome failed
          replicaCrashes

webhooksVars == <<jobs, delivery, posts, accepting, delivering, lost, unrecorded,
                  replicaCrashes>>

NoPost == [pc |-> "idle", key |-> "none"]
NoWork == [pc |-> "idle", job |-> 0]

WebhooksInit ==
  /\ jobs = <<>>
  /\ delivery = [k \in Key |-> "none"]
  /\ posts = [k \in Key |-> 0]
  /\ accepting = [p \in Replica |-> NoPost]
  /\ delivering = [p \in Replica |-> NoWork]
  /\ lost = {}
  /\ unrecorded = {}
  /\ replicaCrashes = 0

Accepts(p, pc) == accepting' = [accepting EXCEPT ![p].pc = pc]
Answers(p)     == accepting' = [accepting EXCEPT ![p] = NoPost]

\* A mutant of Post: the key is claimed before the checks.
PostClaims(p, k) ==
  /\ accepting[p] = NoPost
  /\ posts[k] < MaxPosts
  /\ posts' = [posts EXCEPT ![k] = @ + 1]
  /\ \/ accepting' = [accepting EXCEPT ![p] = [pc |-> "claim", key |-> k]] /\ UNCHANGED delivery
     \/ delivery' = [delivery EXCEPT ![k] = "accepted"] /\ UNCHANGED accepting
  /\ UNCHANGED <<jobs, delivering, lost, unrecorded, replicaCrashes>>

\* accept, up to the claim: size, signature, enabled, event, flow, principal.
\* A post that fails one is answered and leaves the key unclaimed.
Post(p, k) ==
  /\ accepting[p] = NoPost
  /\ posts[k] < MaxPosts
  /\ posts' = [posts EXCEPT ![k] = @ + 1]
  /\ accepting' \in {accepting,
                     [accepting EXCEPT ![p] = [pc |-> "claim", key |-> k]]}
  /\ UNCHANGED <<jobs, delivery, delivering, lost, unrecorded, replicaCrashes>>

\* A mutant of ClaimDelivery: a delivery that failed can be claimed again.
ClaimRetry(p) ==
  LET k == accepting[p].key IN
  /\ accepting[p].pc = "claim"
  /\ IF delivery[k] \in {"none", "run_failed"}
     THEN delivery' = [delivery EXCEPT ![k] = "accepted"] /\ Accepts(p, "enqueue")
     ELSE UNCHANGED delivery /\ Answers(p)
  /\ UNCHANGED <<jobs, posts, delivering, lost, unrecorded, replicaCrashes>>

\* INSERT ... ON CONFLICT DO NOTHING; a key that was claimed is a duplicate.
ClaimDelivery(p) ==
  LET k == accepting[p].key IN
  /\ accepting[p].pc = "claim"
  /\ IF delivery[k] = "none"
     THEN delivery' = [delivery EXCEPT ![k] = "accepted"] /\ Accepts(p, "enqueue")
     ELSE UNCHANGED delivery /\ Answers(p)
  /\ UNCHANGED <<jobs, posts, delivering, lost, unrecorded, replicaCrashes>>

\* The claim throws, whether or not the row is in; the producer is not told that
\* the delivery was taken.
ClaimFails(p) ==
  LET k == accepting[p].key IN
  /\ accepting[p].pc = "claim"
  /\ \/ UNCHANGED <<delivery, lost>>
     \/ /\ delivery[k] = "none"
        /\ delivery' = [delivery EXCEPT ![k] = "accepted"]
        /\ lost' = lost \cup {k}
  /\ Answers(p)
  /\ UNCHANGED <<jobs, posts, delivering, unrecorded, replicaCrashes>>

Enqueue(p) ==
  /\ accepting[p].pc = "enqueue"
  /\ jobs' = Sent(accepting[p].key)
  /\ Answers(p)
  /\ UNCHANGED <<delivery, posts, delivering, lost, unrecorded, replicaCrashes>>

\* The queue refuses it, or takes it and fails to say so: the claim is settled
\* as failed, and stays.
EnqueueFails(p) ==
  LET k == accepting[p].key IN
  /\ accepting[p].pc = "enqueue"
  /\ \/ jobs' = Sent(k) /\ UNCHANGED lost
     \/ lost' = lost \cup {k} /\ UNCHANGED jobs
  /\ Accepts(p, "unqueued")
  /\ UNCHANGED <<delivery, posts, delivering, unrecorded, replicaCrashes>>

\* A failed write of the outcome is only logged.
Outcome(k, result) ==
  \/ delivery' = [delivery EXCEPT ![k] = result] /\ UNCHANGED unrecorded
  \/ unrecorded' = unrecorded \cup {k} /\ UNCHANGED delivery

SettleUnqueued(p) ==
  /\ accepting[p].pc = "unqueued"
  /\ Outcome(accepting[p].key, "run_failed")
  /\ Answers(p)
  /\ UNCHANGED <<jobs, posts, delivering, lost, replicaCrashes>>

Delivers(p, pc) == delivering' = [delivering EXCEPT ![p].pc = pc]
KeyOf(p) == jobs[delivering[p].job].work

TakeDelivery(p, i) ==
  /\ delivering[p] = NoWork
  /\ Queued(i)
  /\ jobs' = Taken(i)
  /\ delivering' = [delivering EXCEPT ![p] = [pc |-> "resolve", job |-> i]]
  /\ UNCHANGED <<delivery, posts, accepting, lost, unrecorded, replicaCrashes>>

\* deliver: the hook may be gone by now.
Resolve(p) ==
  /\ delivering[p].pc = "resolve"
  /\ \E pc \in {"run", "failed"} : Delivers(p, pc)
  /\ UNCHANGED <<jobs, delivery, posts, accepting, lost, unrecorded, replicaCrashes>>

\* The hook cannot be read: the job fails, and is tried again.
ResolveFails(p) ==
  LET i == delivering[p].job IN
  /\ delivering[p].pc = "resolve"
  /\ jobs' = IF jobs[i].state = "active" THEN Unfinished(i) ELSE jobs
  /\ delivering' = [delivering EXCEPT ![p] = NoWork]
  /\ UNCHANGED <<delivery, posts, accepting, lost, unrecorded, replicaCrashes>>

\* The run starts at its entry step, whether or not it was started before.
RunFlow(p) ==
  /\ delivering[p].pc = "run"
  /\ \E pc \in {"started", "failed"} : Delivers(p, pc)
  /\ UNCHANGED <<jobs, delivery, posts, accepting, lost, unrecorded, replicaCrashes>>

SettleDelivery(p) ==
  /\ delivering[p].pc \in {"started", "failed"}
  /\ Outcome(KeyOf(p), IF delivering[p].pc = "started" THEN "run_started" ELSE "run_failed")
  /\ jobs' = Finished(delivering[p].job)
  /\ delivering' = [delivering EXCEPT ![p] = NoWork]
  /\ UNCHANGED <<posts, accepting, lost, replicaCrashes>>

\* A replica dies and is started again; its job expires.
ReplicaCrash(p) ==
  /\ replicaCrashes < MaxReplicaCrashes
  /\ replicaCrashes' = replicaCrashes + 1
  /\ accepting' = [accepting EXCEPT ![p] = NoPost]
  /\ delivering' = [delivering EXCEPT ![p] = NoWork]
  /\ lost' = IF accepting[p].pc = "enqueue" THEN lost \cup {accepting[p].key} ELSE lost
  /\ UNCHANGED <<jobs, delivery, posts, unrecorded>>

HandedOutAgain(i) ==
  /\ Expire(i)
  /\ UNCHANGED <<delivery, posts, accepting, delivering, lost, unrecorded, replicaCrashes>>

Accept(p)  == ClaimDelivery(p) \/ ClaimFails(p) \/ Enqueue(p) \/ EnqueueFails(p) \/ SettleUnqueued(p)
WorkDelivery(p) == Resolve(p) \/ RunFlow(p) \/ SettleDelivery(p)

WebhooksNext ==
  \/ \E p \in Replica :
       \/ \E k \in Key : Post(p, k)
       \/ Accept(p) \/ WorkDelivery(p) \/ ResolveFails(p) \/ ReplicaCrash(p)
       \/ \E i \in DOMAIN jobs : TakeDelivery(p, i)
  \/ \E i \in DOMAIN jobs : HandedOutAgain(i)

WebhooksSpec == WebhooksInit /\ [][WebhooksNext]_webhooksVars

\* A replica that is up works on what it took, some replica is free again and
\* again to take a job, and the queue hands out again what a crash left.
Job0 == 1 .. Cardinality(Key)
WebhooksFairness ==
  /\ \A p \in Replica : WF_webhooksVars(WorkDelivery(p))
  /\ \A i \in Job0 : /\ WF_webhooksVars(i \in DOMAIN jobs /\ \E p \in Replica : TakeDelivery(p, i))
                     /\ WF_webhooksVars(i \in DOMAIN jobs /\ HandedOutAgain(i))
WebhooksFairSpec == WebhooksSpec /\ WebhooksFairness
-----------------------------------------------------------------------------
(* Properties.                                                             *)
WebhooksTypeOK ==
  /\ jobs \in Seq(JobAbout(Key))
  /\ delivery \in [Key -> {"none", "accepted", "run_started", "run_failed"}]
  /\ posts \in [Key -> 0 .. MaxPosts]
  /\ accepting \in [Replica -> [pc : {"idle", "claim", "enqueue", "unqueued"},
                                key : Key \cup {"none"}]]
  /\ delivering \in [Replica -> [pc : {"idle", "resolve", "run", "started", "failed"},
                                 job : Nat]]
  /\ lost \subseteq Key /\ unrecorded \subseteq Key
  /\ replicaCrashes \in 0 .. MaxReplicaCrashes

\* A delivery posted again, to another replica, after an error or a crash,
\* never becomes a second job (webhooks.ts accept, claimWebhookDelivery).
OneJobPerDelivery ==
  \A i, j \in DOMAIN jobs : jobs[i].work = jobs[j].work => i = j

\* A producer that is answered "duplicate" stops posting: the delivery is
\* queued or about to be, unless the replica that claimed it died or failed
\* between the claim and the queue (webhooks.ts accept).
DuplicatesAreQueued ==
  \A k \in Key : delivery[k] # "none" =>
    \/ k \in lost
    \/ \E i \in DOMAIN jobs : jobs[i].work = k
    \/ \E p \in Replica : accepting[p] = [pc |-> "enqueue", key |-> k]

\* A queued delivery gets its outcome on record, although replicas die with
\* it and slow jobs are handed out twice, unless the write of the outcome
\* fails or the tries run out (webhooks.ts deliver).
QueuedIsSettled ==
  \A k \in Key : (\E i \in DOMAIN jobs : jobs[i].work = k)
    ~> \/ delivery[k] # "accepted" \/ k \in unrecorded
       \/ \E i \in DOMAIN jobs : jobs[i].work = k /\ jobs[i].state = "failed"
=============================================================================
