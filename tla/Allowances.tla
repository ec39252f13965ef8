----------------------------- MODULE Allowances -----------------------------
(***************************************************************************)
(* What the purse promises, without roles, epochs or the token: free funds *)
(* become allowances, and an allowance is only ever paid out.              *)
(***************************************************************************)
EXTENDS Amounts

CONSTANTS Node,
          MaxTotal   \* no step moves more than this
VARIABLES free, allowance

purse == <<free, allowance>>

Fund(amount) == free' = free + amount /\ UNCHANGED allowance

Reserve(due) ==
  /\ Total(due) <= free
  /\ free' = free - Total(due)
  /\ allowance' = Plus(allowance, due)

\* back: the payee is the purse itself, which makes the amount free again.
Pay(n, amount, back) ==
  /\ amount <= allowance[n]
  /\ allowance' = [allowance EXCEPT ![n] = @ - amount]
  /\ free' = IF back THEN free + amount ELSE free

PurseInit == free = 0 /\ allowance = [n \in Node |-> 0]

PurseNext ==
  \/ \E amount \in 1..MaxTotal : Fund(amount)
  \/ \E due \in [Node -> 0..MaxTotal] : Reserve(due)
  \/ \E n \in Node, amount \in 1..MaxTotal, back \in BOOLEAN : Pay(n, amount, back)

PurseSpec == PurseInit /\ [][PurseNext]_purse
=============================================================================
