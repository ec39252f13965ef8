SPECIFICATION Spec
CONSTANTS
  Flow <- Flows
  Child <- Children
  MaxRoots = 1
  MaxThreads = 2
  MaxRequests = 1
  MaxCrashes = 1
INVARIANTS AnsweredIsPickedUp NoLostWakeup RepeatsNeedAWindow
PROPERTY ImplementsOneAnswer
CHECK_DEADLOCK FALSE
