SPECIFICATION ServicesSpec
CONSTANTS
  Replica = {p1, p2}
  MaxTries = 2
  MaxMinute = 3
  CronDue = {3}
  BeatDue = {2, 3}
  Stale = 1
  MaxPresses = 1
  MaxBeatsCrashes = 1
  Seat = {a}
  Client = {c1, c2}
  Limit = {2, 5}
  MaxCost = 2
  MaxPeriod = 2
  MaxCalls = 3
  MaxEdits = 1
  MaxLapses = 1
  Ticket = {t1, t2}
  Approver = {m, r}
  MaxLogs = 3
  MaxBoots = 2
  MaxLostRows = 1
  MaxAnswers = 2
  MaxSaves = 5
  MaxRevivals = 2
CONSTRAINT FewDisturbances
INVARIANTS WindowOnce OverlapIsExplained OvershootBounded AlertedOnce AlertsKeepUp
INVARIANTS MirrorsChain ReplayCompletesSink OneYesOneCall
SYMMETRY Symmetric
CHECK_DEADLOCK FALSE
