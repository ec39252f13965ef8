SPECIFICATION Spec
CONSTANTS
  sally = sally
  bob = bob
  plat = plat
  market = market
  router = router
  treasuryA = treasuryA
  zero = zero
  Party <- MCParty
  This = market
  Listing = {"skillPack"}
  Price = {0, 2}
  FeeBps = {0, 3, 4}
  MaxFeeBps = 3
  BpsDenominator = 5
  Router = router
  Purse = treasuryA
  Zero = zero
  Deployer = plat
  Endowment <- MCEndowment
  MaxPrice = 2
INVARIANT Solvent
PROPERTY SellersAreCredited
