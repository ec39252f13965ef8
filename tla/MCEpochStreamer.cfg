SPECIFICATION Spec
CONSTANTS
  n1 = n1
  n2 = n2
  deployer = deployer
  gov = gov
  job = job
  router = router
  chest = chest
  zero = zero
  Node <- MCNode
  Caller <- MCCaller
  Deployer = deployer
  Purse = chest
  Zero = zero
  This = job
  Supply = 3
  GovernorInput <- MCGovernors
  StreamerInput <- MCStreamers
  SpenderInput <- MCSpenders
  OperatorInput <- MCOperators
  MaxAmount = 2
  MaxEpoch = 3
SYMMETRY MCSymmetry
INVARIANT Solvent
PROPERTIES KeepsAllowances EpochPaysEachGrantOnce
