SPECIFICATION FairSpec
CONSTANTS
  Sessions = {1, 2}
  Requests = {r1, r2, r3}
  MessageCounts = {1, 2}
  IdleTimeout = 2
  RecentLoopCapacity = 2
INVARIANTS
  TypeOK
  RoundKeysUnique
  DepthCountsEveryRound
  CounterNeverLeaks
PROPERTY SessionsForgotten
CHECK_DEADLOCK FALSE
