------------------------ MODULE MCMarketplacePayments ------------------------
(* A seller, a buyer and the platform's governor, one listing. *)
EXTENDS MarketplacePayments, TLC

CONSTANTS sally, bob, plat, market, router, treasuryA, zero

MCParty == {sally, bob, plat}
MCEndowment == [h \in MCParty \cup {market, treasuryA} |->
                  IF h \in {bob, treasuryA} THEN 2 ELSE 0]
=============================================================================
