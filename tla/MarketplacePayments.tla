------------------------ MODULE MarketplacePayments ------------------------
(***************************************************************************)
(* Settlement of marketplace purchases                                     *)
(* (contracts/src/MarketplacePayments.sol).  tokens is the external        *)
(* ERC-20's balanceOf: the contract's own under This, and everyone's.      *)
(***************************************************************************)
EXTENDS Amounts

CONSTANTS Party,      \* accounts that sell, buy, govern and take fees
          This,       \* the contract's own address
          Listing, Price,
          FeeBps, MaxFeeBps, BpsDenominator,
          Router,     \* the EscalationRouter that may be wired
          Purse,      \* the treasury it pays out of
          Zero, Deployer,
          Endowment,  \* tokens each holder starts with
          MaxPrice    \* what buyers accept

ASSUME MarketAssumption ==
  /\ Price \subseteq Nat /\ MaxPrice \in Nat
  /\ FeeBps \subseteq Nat /\ MaxFeeBps \in Nat /\ BpsDenominator \in Nat \ {0}
  /\ MaxFeeBps <= BpsDenominator
  /\ Cardinality({This, Router, Purse, Zero}) = 4
  /\ {This, Router, Purse, Zero} \cap Party = {}
  /\ Deployer \in Party /\ IsFiniteSet(Party)

Holder == Party \cup {This, Purse}

ASSUME EndowmentAssumption == Endowment \in [Holder -> Nat]

VARIABLES tokens,
          listings,           \* [seller, price, active], seller Zero if none
          purchased,          \* the pairs <<listing, buyer>> with a receipt
          owed, totalOwed,
          feeBps, feeRecipient, governor, settlementRouter

config == <<feeBps, feeRecipient, governor, settlementRouter>>
vars   == <<tokens, listings, purchased, owed, totalOwed, config>>

Transfer(from, to, amount) ==
  /\ amount <= tokens[from]
  /\ tokens' = [h \in Holder |-> tokens[h] + (IF h = to THEN amount ELSE 0)
                                           - (IF h = from THEN amount ELSE 0)]

Init ==
  /\ tokens = Endowment
  /\ listings = [l \in Listing |-> [seller |-> Zero, price |-> 0, active |-> FALSE]]
  /\ purchased = {}
  /\ owed = [p \in Party |-> 0]
  /\ totalOwed = 0
  /\ feeBps \in {f \in FeeBps : f <= MaxFeeBps}
  /\ feeRecipient \in Party
  /\ governor = Deployer
  /\ settlementRouter = Zero

-----------------------------------------------------------------------------
RegisterListing(caller, l, price) ==
  /\ listings[l].seller \in {Zero, caller}
  /\ listings' = [listings EXCEPT ![l] =
                    [seller |-> caller, price |-> price, active |-> TRUE]]
  /\ UNCHANGED <<tokens, purchased, owed, totalOwed, config>>

Delist(caller, l) ==
  /\ listings[l].seller # Zero
  /\ caller \in {listings[l].seller, governor}
  /\ listings' = [listings EXCEPT ![l].active = FALSE]
  /\ UNCHANGED <<tokens, purchased, owed, totalOwed, config>>

FeeRoundedUp(price) == (price * feeBps + BpsDenominator - 1) \div BpsDenominator
Fee(price) == (price * feeBps) \div BpsDenominator

\* The checks and the bookkeeping of _recordPurchase.
Sellable(l, buyer, maxPrice) ==
  /\ listings[l].seller \notin {Zero, buyer}
  /\ listings[l].active
  /\ <<l, buyer>> \notin purchased
  /\ listings[l].price <= maxPrice

RecordPurchase(l, buyer) ==
  LET sale == listings[l] IN
  /\ purchased' = purchased \cup {<<l, buyer>>}
  /\ owed' = Plus(Plus(owed, Only(Party, sale.seller, sale.price - Fee(sale.price))),
                  Only(Party, feeRecipient, Fee(sale.price)))
  /\ totalOwed' = totalOwed + sale.price

Purchase(buyer, l, maxPrice) ==
  /\ Sellable(l, buyer, maxPrice)
  /\ RecordPurchase(l, buyer)
  /\ Transfer(buyer, This, listings[l].price)
  /\ UNCHANGED <<listings, config>>

\* What purchaseFor counts as delivered: all that is not owed already.
Held == tokens[This]
Delivered == IF tokens[This] > totalOwed THEN tokens[This] - totalOwed ELSE 0

PurchaseFor(caller, l, buyer, maxPrice) ==
  /\ caller = settlementRouter
  /\ Sellable(l, buyer, maxPrice)
  /\ listings[l].price <= Delivered
  /\ RecordPurchase(l, buyer)
  /\ UNCHANGED <<tokens, listings, config>>

Withdraw(caller) ==
  /\ owed[caller] > 0
  /\ Transfer(This, caller, owed[caller])
  /\ owed' = [owed EXCEPT ![caller] = 0]
  /\ totalOwed' = totalOwed - owed[caller]
  /\ UNCHANGED <<listings, purchased, config>>

-----------------------------------------------------------------------------
SetFeeBps(caller, f) ==
  /\ caller = governor /\ f <= MaxFeeBps
  /\ feeBps' = f
  /\ UNCHANGED <<tokens, listings, purchased, owed, totalOwed,
                 feeRecipient, governor, settlementRouter>>

SetFeeRecipient(caller, p) ==
  /\ caller = governor
  /\ feeRecipient' = p
  /\ UNCHANGED <<tokens, listings, purchased, owed, totalOwed,
                 feeBps, governor, settlementRouter>>

SetSettlementRouter(caller, r) ==
  /\ caller = governor
  /\ settlementRouter' = r
  /\ UNCHANGED <<tokens, listings, purchased, owed, totalOwed,
                 feeBps, feeRecipient, governor>>

SweepUnallocated(caller, to) ==
  /\ caller = governor
  /\ Delivered > 0
  /\ Transfer(This, to, Delivered)
  /\ UNCHANGED <<listings, purchased, owed, totalOwed, config>>

SetGovernor(caller, p) ==
  /\ caller = governor
  /\ governor' = p
  /\ UNCHANGED <<tokens, listings, purchased, owed, totalOwed,
                 feeBps, feeRecipient, settlementRouter>>

\* The router's spend pays the contract before the router calls it, and the
\* payment stands when that call fails.  Anyone may send tokens besides.
Deliver(from, amount) ==
  /\ from # This
  /\ Transfer(from, This, amount)
  /\ UNCHANGED <<listings, purchased, owed, totalOwed, config>>

Next ==
  \/ \E caller \in Party :
       \/ \E l \in Listing :
            \/ \E price \in Price : RegisterListing(caller, l, price)
            \/ Delist(caller, l)
            \/ \E maxPrice \in 0..MaxPrice : Purchase(caller, l, maxPrice)
       \/ Withdraw(caller)
       \/ \E f \in FeeBps : SetFeeBps(caller, f)
       \/ \E p \in Party : \/ SetFeeRecipient(caller, p)
                           \/ SweepUnallocated(caller, p)
                           \/ SetGovernor(caller, p)
       \/ \E r \in {Router, Zero} : SetSettlementRouter(caller, r)
  \/ \E l \in Listing, buyer \in Party, maxPrice \in 0..MaxPrice :
       PurchaseFor(Router, l, buyer, maxPrice)
  \/ \E from \in Holder, amount \in 1..MaxPrice : Deliver(from, amount)

Spec == Init /\ [][Next]_vars

-----------------------------------------------------------------------------
\* Types; the fee never exceeds the ceiling.
TypeOK ==
  /\ tokens \in [Holder -> Nat]
  /\ listings \in [Listing -> [seller : Party \cup {Zero}, price : Price \cup {0},
                               active : BOOLEAN]]
  /\ purchased \subseteq Listing \X Party
  /\ owed \in [Party -> Nat]
  /\ totalOwed \in Nat
  /\ feeBps \in Nat /\ feeBps <= MaxFeeBps
  /\ feeRecipient \in Party /\ governor \in Party
  /\ settlementRouter \in {Router, Zero}

\* "Lets anyone check the contract is solvent for its debts": totalOwed is
\* the sum of what is owed, and the contract holds at least that, however
\* purchases, deliveries, sweeps and withdrawals interleave.
Solvent ==
  /\ totalOwed = Total(owed)
  /\ totalOwed <= tokens[This]

\* "A seller listing today knows the worst case forever": a sale credits the
\* seller at least its price less the fee ceiling, in one step with the
\* receipt, whoever pays and whatever governance did to the fee meanwhile;
\* and what a payee is owed falls only by its own withdrawal in full.
SellersAreCredited ==
  [][\A p \in Party :
       /\ \A l \in Listing : listings[l].seller = p =>
            \A buyer \in Party :
              <<l, buyer>> \in purchased' \ purchased =>
                (owed'[p] - owed[p]) * BpsDenominator
                  >= listings[l].price * (BpsDenominator - MaxFeeBps)
       /\ owed'[p] < owed[p] =>
            owed'[p] = 0 /\ tokens'[p] = tokens[p] + owed[p]]_vars
=============================================================================
