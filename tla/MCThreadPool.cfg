CONSTANTS
  Worker = {w1, w2, w3}
  NoTask = NoTask
  Priority <- MCPriority
  Order <- MCOrder
  MaxTasks = 3
SPECIFICATION Spec
INVARIANTS
  TypeOK
  NoLostWakeup
  NoSleepAfterStop
  NoTaskLost
  JoinedMeansDrained
PROPERTIES
  PoolSpec
