SPECIFICATION FairSpec
CONSTANTS
  r = r
  mgr = mgr
  w = w
  x = x
  k = k
  shop = shop
  router = router
  treasuryA = treasuryA
  registryA = registryA
  rate = rate
  zero = zero
  none = none
  noStack = noStack
  deployer = deployer
  gov = gov
  Root = r
  Zero = zero
  Kind = {"HumanRoot", "ManagerAgent", "WorkerAgent"}
  NoGrant = none
  MaxActions = 1
  This = router
  Purse = treasuryA
  Registry = registryA
  NoStack = noStack
  Deployer = deployer
  Governor = gov
  StartChart <- MCCharts
  StartTreasury <- MCPurse
  Account <- MCThree
  Caller <- MCThree
  Key <- MCNoKey
  Grant <- MCNoGrants
  Target <- MCTargets
  RateModule <- MCRates
  Stack <- MCStacks
  Value = {1, 2}
  StartCap <- MCCaps
  StartRegistry <- MCUnwired
  StartRecorder <- MCRates
  Input = {"allowed", "clock"}
  MaxReorgs = 0
  MaxIntents = 2
  Supply = 2
INVARIANT ApproverIsAbove
PROPERTY IntentsSettle
