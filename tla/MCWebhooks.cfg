SPECIFICATION WebhooksFairSpec
CONSTANTS
  Replica = {p1, p2}
  Key = {k1}
  MaxTries = 3
  MaxPosts = 3
  MaxReplicaCrashes = 2
INVARIANTS OneJobPerDelivery DuplicatesAreQueued
PROPERTY QueuedIsSettled
CHECK_DEADLOCK FALSE
