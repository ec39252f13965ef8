---------------------------- MODULE EpochStreamer ---------------------------
(***************************************************************************)
(* The payroll job (contracts/src/EpochStreamer.sol) together with the     *)
(* purse it streams from (module Treasury): per-node grants, streamed once *)
(* per epoch id, all of them or none.                                      *)
(***************************************************************************)
EXTENDS Treasury, Sequences

CONSTANTS This,       \* the streamer contract's own address, a Caller
          Supply,     \* tokens in existence
          GovernorInput, StreamerInput, SpenderInput, OperatorInput,
                      \* the addresses the setters are called with
          MaxAmount,  \* model bound on one grant, deposit, stream or spend
          MaxEpoch    \* the largest uint64, scaled down

ASSUME ThisAssumption  == This \in Caller
ASSUME InputAssumption ==
  /\ GovernorInput \cup SpenderInput \cup OperatorInput \subseteq Caller
  /\ StreamerInput \subseteq Caller \cup {Zero}
ASSUME BoundAssumption == Supply \in Nat /\ MaxAmount \in Nat /\ MaxEpoch \in Nat

VARIABLES operator,
          streamerGovernor,  \* EpochStreamer.governor, Zero until bound
          currentEpoch,
          grantAmount,
          recipients,        \* _recipients; _isRecipient is IsRecipient below
          isRecipient,       \* _isRecipient
          epochCompleted     \* the epoch ids whose flag is set

schedule == <<grantAmount, recipients, isRecipient>>
epochs   == <<currentEpoch, epochCompleted>>
owners   == <<operator, streamerGovernor>>
vars     == <<treasuryVars, schedule, epochs, owners>>

Epoch == 0..MaxEpoch

\* _removeRecipient: overwrite the first match by the last entry, then pop.
WithoutRecipient(n) ==
  LET at   == CHOOSE i \in DOMAIN recipients :
                recipients[i] = n /\ \A j \in 1..(i - 1) : recipients[j] # n
      last == Len(recipients)
  IN  [i \in 1..(last - 1) |->
         IF i = at THEN recipients[last] ELSE recipients[i]]

\* The loop stopped one entry too early.
DueButLast ==
  [n \in Node |-> grantAmount[n] *
     Cardinality({i \in 1..(Len(recipients) - 1) : recipients[i] = n})]

\* What the loop of _runEpoch streams to n: its grant for each listing.
Due == [n \in Node |->
          grantAmount[n] * Cardinality({i \in DOMAIN recipients : recipients[i] = n})]

Init ==
  /\ TreasuryInit(Supply)
  /\ spender \in SpenderInput
  /\ operator \in OperatorInput
  /\ streamerGovernor = Zero
  /\ currentEpoch = 0
  /\ grantAmount = [n \in Node |-> 0]
  /\ recipients = <<>>
  /\ isRecipient = [n \in Node |-> FALSE]
  /\ epochCompleted = {}

SetOperator(caller, o) ==
  /\ caller = operator
  /\ operator' = o
  /\ UNCHANGED <<treasuryVars, schedule, epochs, streamerGovernor>>

BindStreamerGovernor(caller, g) ==
  /\ caller = operator
  /\ streamerGovernor = Zero
  /\ streamerGovernor' = g
  /\ UNCHANGED <<treasuryVars, schedule, epochs, operator>>

MaySchedule(caller) == caller \in {operator, streamerGovernor}

\* setGrant with amount zero: a node that is no recipient is left alone.
ClearGrant(caller, n) ==
  /\ MaySchedule(caller)
  /\ isRecipient[n]
  /\ isRecipient' = [isRecipient EXCEPT ![n] = FALSE]
  /\ grantAmount' = [grantAmount EXCEPT ![n] = 0]
  /\ recipients' = WithoutRecipient(n)
  /\ UNCHANGED <<treasuryVars, epochs, owners>>

SetGrant(caller, n, amount) ==
  /\ MaySchedule(caller)
  /\ amount > 0
  /\ grantAmount' = [grantAmount EXCEPT ![n] = amount]
  /\ isRecipient' = [isRecipient EXCEPT ![n] = TRUE]
  /\ recipients' = IF isRecipient[n] THEN recipients ELSE Append(recipients, n)
  /\ UNCHANGED <<treasuryVars, epochs, owners>>

\* The cursor only moves forwards.
Cursor(epoch)  == IF epoch > currentEpoch THEN epoch ELSE currentEpoch

\* _runEpoch and its two callers: runNextEpoch passes currentEpoch + 1 (which
\* reverts at the largest uint64), runEpoch any id.
RunEpoch(caller, epoch) ==
  /\ caller = operator
  /\ epoch \notin epochCompleted
  /\ recipients # <<>>
  /\ Stream(This, Due)
  /\ epochCompleted' = epochCompleted \cup {epoch}
  /\ currentEpoch' = Cursor(epoch)
  /\ UNCHANGED <<schedule, owners>>

RunNextEpoch(caller) == currentEpoch + 1 \in Epoch /\ RunEpoch(caller, currentEpoch + 1)

TreasuryStep ==
  \E caller \in Caller :
    \/ \E g \in GovernorInput : SetGovernor(caller, g)
    \/ \E a \in StreamerInput : SetStreamer(caller, a)
    \/ \E a \in SpenderInput : SetSpender(caller, a)
    \/ \E amount \in 1..MaxAmount, n \in Node, to \in Holder :
         \/ Deposit(caller, amount)
         \/ StreamAllowance(caller, n, amount)
         \/ SpendAllowance(caller, n, amount, to)

StreamerStep ==
  \E caller \in Caller :
    \/ \E a \in OperatorInput : SetOperator(caller, a)
    \/ \E g \in GovernorInput : BindStreamerGovernor(caller, g)
    \/ \E n \in Node : ClearGrant(caller, n)
    \/ \E n \in Node, amount \in 1..MaxAmount : SetGrant(caller, n, amount)
    \/ RunNextEpoch(caller)
    \/ \E e \in Epoch : RunEpoch(caller, e)

Next == StreamerStep \/ (TreasuryStep /\ UNCHANGED <<schedule, epochs, owners>>)

Spec == Init /\ [][Next]_vars

-----------------------------------------------------------------------------
\* Types of the state of the purse and of the payroll job.
TypeOK ==
  /\ token \in [Holder -> Nat]
  /\ totalReserved \in Nat
  /\ allowance \in [Node -> Nat]
  /\ spender \in Caller
  /\ {governor, streamer, streamerGovernor} \subseteq Caller \cup {Zero}
  /\ operator \in Caller
  /\ currentEpoch \in Nat
  /\ grantAmount \in [Node -> Nat]
  /\ recipients \in Seq(Node)
  /\ isRecipient \in [Node -> BOOLEAN]
  /\ epochCompleted \subseteq Nat

\* The purse can always pay every allowance it has promised: the reserve is
\* the sum of the allowances, and the balance covers it.  Reservations come
\* from streamAllowance and from whole epochs, payments from the router.
Solvent ==
  /\ totalReserved = Total(allowance)
  /\ totalReserved <= token[Purse]

Promised == INSTANCE Allowances WITH free <- Liquid, MaxTotal <- Supply

\* The purse and the payroll job keep the promise of module Allowances: what
\* is reserved was free, and what leaves an allowance is paid, whoever calls.
KeepsAllowances == Promised!PurseSpec

\* The payroll list, the flags and the grants say the same thing, and nobody
\* is listed twice: a second listing would be paid twice every epoch.
ScheduleExact ==
  /\ \A n \in Node :
       /\ isRecipient[n] <=> grantAmount[n] > 0
       /\ isRecipient[n] <=> \E i \in DOMAIN recipients : recipients[i] = n
  /\ \A i, j \in DOMAIN recipients : recipients[i] = recipients[j] => i = j

\* Out-of-order ids never trap the cursor: every epoch that has run is at or
\* before currentEpoch, so the next one (currentEpoch + 1) has never run.
CursorAhead == \A e \in epochCompleted : e <= currentEpoch

\* A completed epoch stays completed.  A step that completes one pays every
\* node exactly its grant (nobody skipped, nobody twice) and moves no token;
\* any other step raises at most one allowance, so no epoch is paid again.
EpochPaysEachGrantOnce ==
  [][/\ epochCompleted \subseteq epochCompleted'
     /\ IF epochCompleted' # epochCompleted
        THEN allowance' = Plus(allowance, grantAmount) /\ token' = token
        ELSE \A m, n \in Node :
               allowance'[m] > allowance[m] /\ allowance'[n] > allowance[n] => m = n]_vars
=============================================================================
