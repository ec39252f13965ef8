SPECIFICATION Spec
CONSTANTS
  a1 = a1
  k1 = k1
  k2 = k2
  t1 = t1
  root = root
  orchestrator = orchestrator
  usdc = usdc
  weth = weth
  zero = zero
  none = none
  Agent <- MCAgent
  Root = root
  Zero = zero
  NoGrant = none
  Issuer <- MCIssuer
  Value = {1}
  Ttl = {2}
  Key <- MCKeys
  Target <- MCNoTarget
  Router <- MCRouter
  Scope <- MCOneScope
  Window <- MCWindows
  Rate <- MCRates
  Day = 3
  MaxTime = 4
  MaxSessions = 2
INVARIANT BurstBound
PROPERTY KeepsGrants
