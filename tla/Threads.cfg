SPECIFICATION ThreadsSpec
CONSTANTS
  Sender = {s1, s2, s3}
  Owner = owner
  Capacity = 2
  MaxSends = 2
  Worker = {11, 12, 13, 14}
  pool_min = 2
  pool_max = 3
  POOL_GROW_HIGH_WATER = 1
  POOL_SHRINK_IDLE_TICKS = 2
  Fd = {1, 2, 3, 4, 5, 6}
  FdsReused = FALSE
  MaxConnects = 2
  MaxFailures = 1
INVARIANTS NoLostWakeup PoolInOrder
PROPERTIES IsBoundedFifo AllReceived IdleWorkersLeave
CHECK_DEADLOCK FALSE
