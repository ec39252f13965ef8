SPECIFICATION ModulesSpec
CONSTANTS
  a1 = a1
  a2 = a2
  shop = shop
  admin = admin
  gov = gov
  router = router
  zero = zero
  Agent = {a1}
  Target = {shop}
  RateModule = {"rateLimit"}
  MaxActions = 2
  WindowSeconds = 3
  StartSecond = 1
  EndSecond = 2
  Day = 3
  Cap = {1, 2}
  Margin = 1
  Caller <- MCCaller
  Admin = admin
  Governor = gov
  Recorder = router
  NoOne = zero
  MaxTime = 5
INVARIANTS AtMostTwoWindows AppendingNarrows ProvedEscalationHolds
PROPERTY KeepsView
