---------------------------- MODULE EventIndexer ----------------------------
(***************************************************************************)
(* The watcher that mirrors the router (packages/indexer/src/watcher.ts):  *)
(* at boot it replays the chain's logs one after the other, then it is     *)
(* handed new ones and processes each without waiting for the one before.  *)
(* Every event goes to a JSON store, where the pending intents are derived *)
(* from it, and to a durable sink.  The logs of other contracts take the   *)
(* same path and derive nothing.                                           *)
(***************************************************************************)
EXTENDS Naturals, Sequences, FiniteSets

CONSTANTS Ticket,       \* the intents of the router
          Approver,     \* whom they await
          MaxLogs,      \* bounds: the logs of the chain,
          MaxBoots,     \* the starts of the watcher,
          MaxLostRows   \* and the rows of the sink that wait to be rewritten

ASSUME IndexerAssumption ==
  MaxLogs \in Nat /\ MaxBoots \in Nat /\ MaxLostRows \in Nat

VARIABLES chain,        \* the router's logs, oldest first: external
          mode,         \* of the process: down, replaying or watching
          upto,         \* the last log the replay asked for
          heard,        \* the last log handed over, by the replay or live
          progress,     \* what the watcher is doing with a log
          skip,         \* skipJsonAudit of this replay
          pending,      \* store.pendingIntents
          audit,        \* store.audit, as the logs it was made from
          sink,         \* orchestrator_audit_events
          boots,
          unsunk,       \* history: logs whose row could not be written the last
                        \* time
          strayed       \* history: tickets the store may be wrong about

indexerVars == <<chain, mode, upto, heard, progress, skip, pending, audit, sink,
                 boots, unsunk, strayed>>

\* The router's intents (EscalationRouter.propose and resolve).
Log == [kind : {"created", "escalated"}, id : Ticket, to : Approver]
       \cup [kind : {"resolved"}, id : Ticket, approved : BOOLEAN]
Unknown == [awaiting |-> "nobody", verdict |-> "unknown"]
Entry   == [awaiting : Approver, verdict : {"ESCALATE", "ALLOW", "DENY"}] \cup {Unknown}

\* What the first n logs say of a ticket.
LogsOf(id, n) == {i \in 1 .. n : chain[i].id = id}
Last(S) == CHOOSE i \in S : \A j \in S : j <= i
MovesOf(id, n) == {i \in LogsOf(id, n) : chain[i].kind # "resolved"}
EndsOf(id, n)  == LogsOf(id, n) \ MovesOf(id, n)
OnChain(id, n) ==
  IF LogsOf(id, n) = {} THEN Unknown
  ELSE [awaiting |-> chain[Last(MovesOf(id, n))].to,
        verdict |-> IF EndsOf(id, n) = {} THEN "ESCALATE"
                    ELSE IF chain[Last(EndsOf(id, n))].approved THEN "ALLOW" ELSE "DENY"]

Stages == {"none", "time", "read", "sink"}

IndexerInit ==
  /\ chain = <<>>
  /\ mode = "down"
  /\ upto = 0 /\ heard = 0
  /\ progress = [i \in 1 .. MaxLogs |-> "none"]
  /\ skip = FALSE
  /\ pending = [id \in Ticket |-> Unknown]
  /\ audit = <<>>
  /\ sink = {}
  /\ boots = 0
  /\ unsunk = {}
  /\ strayed = {}

\* The chain goes on by itself.
Emitted(log) ==
  /\ Len(chain) < MaxLogs
  /\ LET now == OnChain(log.id, Len(chain)) IN
       IF log.kind = "created" THEN now = Unknown ELSE now.verdict = "ESCALATE"
  /\ chain' = Append(chain, log)
  /\ UNCHANGED <<mode, upto, heard, progress, skip, pending, audit, sink, boots, unsunk, strayed>>

\* The constructor and the head of backfill: the store is read back, and the
\* logs so far are asked for.  A replay takes every entry back to its start.
Boot ==
  /\ mode = "down"
  /\ boots < MaxBoots
  /\ boots' = boots + 1
  /\ mode' = "replaying"
  /\ upto' = Len(chain)
  /\ heard' = 0
  /\ skip' = (audit # <<>>)
  /\ strayed' = Ticket
  /\ UNCHANGED <<chain, progress, pending, audit, sink, unsunk>>

Busy == {i \in DOMAIN progress : progress[i] # "none"}

\* A mutant of ReplayNext: it does not wait for the log before.
ReplayAhead ==
  /\ mode = "replaying"
  /\ heard < upto
  /\ heard' = heard + 1
  /\ progress' = [progress EXCEPT ![heard + 1] = "time"]
  /\ UNCHANGED <<chain, mode, upto, skip, pending, audit, sink, boots, unsunk, strayed>>

\* backfill: in the order of block and log index, each awaited.
ReplayNext ==
  /\ mode = "replaying"
  /\ heard < upto
  /\ Busy = {}
  /\ heard' = heard + 1
  /\ progress' = [progress EXCEPT ![heard + 1] = "time"]
  /\ UNCHANGED <<chain, mode, upto, skip, pending, audit, sink, boots, unsunk, strayed>>

\* start: the subscriptions begin at the head of the chain.  What came after
\* the replay asked for its logs is seen by neither.  A replay that fails, at
\* its first request, is only logged.
StartWatching ==
  /\ mode = "replaying"
  /\ Busy = {}
  /\ \/ heard = upto /\ strayed' = {chain[i].id : i \in upto + 1 .. Len(chain)}
     \/ heard = 0 /\ upto > 0 /\ UNCHANGED strayed
  /\ mode' = "watching"
  /\ heard' = Len(chain)
  /\ UNCHANGED <<chain, upto, progress, skip, pending, audit, sink, boots, unsunk>>

\* onLogs: what is new is processed at once.
Hear(n) ==
  LET new == heard + 1 .. n IN
  /\ mode = "watching"
  /\ n \in heard + 1 .. Len(chain)
  /\ heard' = n
  /\ progress' = [i \in DOMAIN progress |-> IF i \in new THEN "time" ELSE progress[i]]
  /\ strayed' = strayed \cup
       {chain[i].id : i \in {j \in new : \E k \in 1 .. j - 1 :
          progress'[k] \in {"time", "read"} /\ chain[k].id = chain[j].id}}
  /\ UNCHANGED <<chain, mode, upto, skip, pending, audit, sink, boots, unsunk>>

\* The entry is updated, if there is one.
Applied(log) ==
  IF log.kind = "created"
  THEN [pending EXCEPT ![log.id] = [awaiting |-> log.to, verdict |-> "ESCALATE"]]
  ELSE IF pending[log.id] = Unknown THEN pending
  ELSE IF log.kind = "escalated" THEN [pending EXCEPT ![log.id].awaiting = log.to]
  ELSE [pending EXCEPT ![log.id].verdict = IF log.approved THEN "ALLOW" ELSE "DENY"]

\* The audit of a store that is not empty is left to what is heard live.
Skipped == mode = "replaying" /\ skip

\* Entry, audit and file are written in one go.
Stores(i) ==
  /\ pending' = Applied(chain[i])
  /\ audit' = IF Skipped THEN audit ELSE Append(audit, i)
  /\ progress' = [progress EXCEPT ![i] = "sink"]

\* processLog, once the block's time is there, from the chain or the clock.
\* A new intent is looked up at the router first.
TakeTime(i) ==
  /\ progress[i] = "time"
  /\ IF chain[i].kind = "created"
     THEN progress' = [progress EXCEPT ![i] = "read"] /\ UNCHANGED <<pending, audit>>
     ELSE Stores(i)
  /\ UNCHANGED <<chain, mode, upto, heard, skip, sink, boots, unsunk, strayed>>

\* upsertFromChain.  What cannot be read is marked, and stored all the same.
Upsert(i) ==
  /\ progress[i] = "read"
  /\ Stores(i)
  /\ UNCHANGED <<chain, mode, upto, heard, skip, sink, boots, unsunk, strayed>>

\* A mutant of Sunk: what the audit skips, the sink does too.
SunkUnlessSkipped(i) == IF Skipped THEN sink ELSE sink \cup {i}

\* insertChainAuditEvent: a row per log, and none twice.
Sunk(i) == sink \cup {i}

\* writeToSinks: a row that cannot be written is only logged.
WriteSink(i) ==
  /\ progress[i] = "sink"
  /\ progress' = [progress EXCEPT ![i] = "none"]
  /\ \/ sink' = Sunk(i) /\ unsunk' = unsunk \ {i}
     \/ Cardinality(unsunk) < MaxLostRows /\ unsunk' = unsunk \cup {i} /\ UNCHANGED sink
  /\ UNCHANGED <<chain, mode, upto, heard, skip, pending, audit, boots, strayed>>

\* The process stops.  What it was doing is lost, the file and the sink stay.
Stop ==
  /\ mode # "down"
  /\ mode' = "down"
  /\ progress' = [i \in DOMAIN progress |-> "none"]
  /\ UNCHANGED <<chain, upto, heard, skip, pending, audit, sink, boots, unsunk, strayed>>

IndexerNext ==
  \/ \E log \in Log : Emitted(log)
  \/ Boot \/ ReplayNext \/ StartWatching \/ Stop
  \/ \E n \in 1 .. MaxLogs : Hear(n)
  \/ \E i \in 1 .. MaxLogs : TakeTime(i) \/ Upsert(i) \/ WriteSink(i)

IndexerSpec == IndexerInit /\ [][IndexerNext]_indexerVars
-----------------------------------------------------------------------------
(* Properties.                                                             *)
IndexerTypeOK ==
  /\ chain \in Seq(Log)
  /\ mode \in {"down", "replaying", "watching"}
  /\ upto \in 0 .. MaxLogs /\ heard \in 0 .. MaxLogs
  /\ progress \in [1 .. MaxLogs -> Stages]
  /\ skip \in BOOLEAN
  /\ pending \in [Ticket -> Entry]
  /\ audit \in Seq(1 .. MaxLogs)
  /\ sink \subseteq 1 .. MaxLogs /\ unsunk \subseteq 1 .. MaxLogs
  /\ boots \in 0 .. MaxBoots
  /\ strayed \subseteq Ticket

\* The store says of an intent what the logs handed over say, whatever earlier
\* lives left in it: only logs of one intent that were processed at the same
\* time, or that came between the replay and the subscription, lead it astray,
\* and the next replay sets it right (watcher.ts backfill, processLog).
MirrorsChain ==
  mode = "watching" =>
    \A id \in Ticket \ strayed :
      (\A i \in Busy : chain[i].id = id => progress[i] = "sink")
        => pending[id] = OnChain(id, heard)

\* No log is in the audit twice, however often the watcher is started and
\* wherever it was stopped (watcher.ts backfill, skipJsonAudit).
AuditedOnce == \A i, j \in DOMAIN audit : audit[i] = audit[j] => i = j

\* After a replay the sink has every log the replay asked for, those an
\* earlier life missed or failed to write included, but for rows that this
\* replay could not write either ("backfills are idempotent", watcher.ts).
ReplayCompletesSink ==
  mode = "replaying" /\ heard = upto /\ Busy = {} => 1 .. upto \subseteq sink \cup unsunk

\* The store shows an intent as pending only while it is.  The code does not
\* keep it: a resolution that overtakes its creation is dropped.
PendingIsPending ==
  mode = "watching" /\ Busy = {} =>
    \A id \in Ticket : pending[id].verdict = "ESCALATE" => OnChain(id, heard).verdict = "ESCALATE"
=============================================================================
