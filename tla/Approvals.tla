----------------------------- MODULE Approvals ------------------------------
(***************************************************************************)
(* What the approval path promises about money, whoever approves and       *)
(* however the tree, the keys and the policies change meanwhile: a claim   *)
(* is fixed when raised and settled once; approving it pays its value from *)
(* the claimant's own allowance in that very step, rejecting it pays       *)
(* nothing, and a settled claim never pays.                                *)
(***************************************************************************)
EXTENDS Naturals, Sequences

CONSTANTS Claimant, Payee, Amount

VARIABLES claim,       \* sequence of [by, to, amount, state]
          allowance,
          wired        \* there is a purse to pay from

ledger == <<claim, allowance, wired>>

Debit(n, amount) ==
  IF wired THEN /\ amount <= allowance[n]
                /\ allowance' = [allowance EXCEPT ![n] = @ - amount]
           ELSE allowance' = allowance

Raise(n, to, amount) ==
  /\ claim' = Append(claim, [by |-> n, to |-> to, amount |-> amount, state |-> "pending"])
  /\ UNCHANGED <<allowance, wired>>

Settle(id, state) ==
  /\ claim[id].state = "pending"
  /\ claim' = [claim EXCEPT ![id].state = state]
  /\ IF state = "approved" THEN Debit(claim[id].by, claim[id].amount)
                           ELSE UNCHANGED allowance
  /\ UNCHANGED wired

PayDirectly(n, amount) == Debit(n, amount) /\ UNCHANGED <<claim, wired>>

Receive(n, amount) ==
  /\ allowance' = [allowance EXCEPT ![n] = @ + amount]
  /\ UNCHANGED <<claim, wired>>

Wire(w) == wired' = w /\ UNCHANGED <<claim, allowance>>

ClaimInit ==
  /\ claim = <<>>
  /\ allowance = [n \in Claimant |-> 0]
  /\ wired \in BOOLEAN

ClaimNext ==
  \/ \E n \in Claimant, to \in Payee, amount \in Amount : Raise(n, to, amount)
  \/ \E id \in DOMAIN claim, state \in {"approved", "rejected"} : Settle(id, state)
  \/ \E n \in Claimant, amount \in Amount : PayDirectly(n, amount) \/ Receive(n, amount)
  \/ \E w \in BOOLEAN : Wire(w)

ClaimSpec == ClaimInit /\ [][ClaimNext]_ledger
=============================================================================
