SPECIFICATION Spec
CONSTANTS
  root = root
  ann = ann
  bot = bot
  module = module
  Account <- MCAccount
  Root = root
  This = module
  Power = {0, 1, 2}
  Timing <- MCShort
  RootPower = {0, 2}
  Quorum = {1}
  Call <- MCCalls
  MaxTime = 2
  MaxProposals = 2
INVARIANTS TalliesAreBallots FullBackingPasses
PROPERTY RosterNeedsHumans
CONSTRAINT OneAtATime
CHECK_DEADLOCK FALSE
