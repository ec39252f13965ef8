SPECIFICATION Spec
CONSTANTS
  r = r
  mgr = mgr
  w = w
  x = x
  k = k
  shop = shop
  router = router
  treasuryA = treasuryA
  registryA = registryA
  rate = rate
  zero = zero
  none = none
  noStack = noStack
  deployer = deployer
  gov = gov
  Root = r
  Zero = zero
  Kind = {"HumanRoot", "ManagerAgent", "WorkerAgent"}
  NoGrant = none
  MaxActions = 1
  This = router
  Purse = treasuryA
  Registry = registryA
  NoStack = noStack
  Deployer = deployer
  Governor = gov
  StartChart <- MCCharts
  StartTreasury <- MCPurse
  Account <- MCThree
  Caller <- MCKeyUsers
  Key <- MCKey
  Grant <- MCGrants
  Target <- MCShop
  RateModule <- MCRates
  Stack <- MCTwoStacks
  Value = {1, 2}
  StartCap <- MCCapOne
  StartRegistry <- MCRegistry
  StartRecorder <- MCUnwired
  Input = {"cap", "rate", "nodeRate", "nodePolicy", "keys", "treasury", "sessions", "governor"}
  MaxReorgs = 2
  MaxIntents = 1
  Supply = 2
CONSTRAINT NearDeployment
PROPERTIES SpendNeedsAuthority KeepsApprovals
