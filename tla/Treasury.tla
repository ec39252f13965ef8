------------------------------ MODULE Treasury ------------------------------
(***************************************************************************)
(* The organisation's purse (contracts/src/Treasury.sol): one ERC-20       *)
(* balance, of which totalReserved is promised to nodes as allowances.     *)
(* token is the external ERC-20's balanceOf for the purse and for everyone *)
(* else that a run names.                                                  *)
(***************************************************************************)
EXTENDS Amounts

CONSTANTS Node,      \* accounts that can receive an allowance
          Caller,    \* accounts that call the purse (admins, streamer, router)
          Deployer,  \* the account that deployed it
          Purse,     \* address(this)
          Zero       \* address(0)

ASSUME NodeAssumption     == IsFiniteSet(Node)
ASSUME CallerAssumption   == IsFiniteSet(Caller) /\ Purse \notin Caller
ASSUME DeployerAssumption == Deployer \in Caller
ASSUME ZeroAssumption     == Zero \notin Caller \cup Node \cup {Purse}

Holder == Node \cup Caller \cup {Purse}

VARIABLES token,          \* token.balanceOf
          totalReserved,
          allowance,      \* allowanceBalance
          spender, governor, streamer

funds        == <<token, totalReserved, allowance>>
roles        == <<spender, governor, streamer>>
treasuryVars == <<token, totalReserved, allowance, spender, governor, streamer>>

\* _onlyGovernorOrBootstrap
IsAuthority(caller) == caller = IF governor = Zero THEN Deployer ELSE governor

\* Who may reserve funds: the deployer only while neither role is bound.
MayStream(caller) ==
  IF governor # Zero \/ streamer # Zero
  THEN caller \in {governor, streamer}
  ELSE caller = Deployer

\* Everything held, promised or not.
Balance == token[Purse]
Liquid == IF token[Purse] > totalReserved THEN token[Purse] - totalReserved ELSE 0

\* safeTransfer, atomic; a transfer to oneself changes nothing.
Transfer(from, to, amount) ==
  /\ amount <= token[from]
  /\ token' = IF from = to THEN token
              ELSE [token EXCEPT ![from] = @ - amount, ![to] = @ + amount]

TreasuryInit(supply) ==
  /\ token = Only(Holder, Deployer, supply)
  /\ totalReserved = 0
  /\ allowance = [n \in Node |-> 0]
  /\ governor = Zero
  /\ streamer = Zero

SetGovernor(caller, g) ==
  /\ IsAuthority(caller)
  /\ governor' = g
  /\ UNCHANGED <<funds, spender, streamer>>

SetStreamer(caller, s) ==
  /\ IsAuthority(caller)
  /\ streamer' = s
  /\ UNCHANGED <<funds, spender, governor>>

SetSpender(caller, s) ==
  /\ IsAuthority(caller)
  /\ spender' = s
  /\ UNCHANGED <<funds, streamer, governor>>

Deposit(from, amount) ==
  /\ Transfer(from, Purse, amount)
  /\ UNCHANGED <<totalReserved, allowance, roles>>

\* A batch of streamAllowance calls by one caller in one transaction, due[n]
\* to each node n.  Every call lowers Liquid by its amount, so all of them
\* pass exactly when the sum does, and one that fails reverts them all.
Stream(caller, due) ==
  /\ MayStream(caller)
  /\ Liquid >= Total(due)
  /\ allowance' = Plus(allowance, due)
  /\ totalReserved' = totalReserved + Total(due)
  /\ UNCHANGED <<token, roles>>

StreamAllowance(caller, n, amount) == Stream(caller, Only(Node, n, amount))

\* _spend.  totalReserved -= amount is checked arithmetic: it reverts below
\* zero.  The two-argument overload pays the caller.
SpendAllowance(caller, n, amount, to) ==
  /\ caller = spender
  /\ to # Zero
  /\ allowance[n] >= amount
  /\ totalReserved >= amount
  /\ allowance' = [allowance EXCEPT ![n] = @ - amount]
  /\ totalReserved' = totalReserved - amount
  /\ Transfer(Purse, to, amount)
  /\ UNCHANGED roles
=============================================================================
