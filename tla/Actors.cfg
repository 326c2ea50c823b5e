SPECIFICATION Spec
CONSTANTS
  Main = main
  Actor = {main, a1, a2}
  Default = default
  System = {default, node}
  Name = {n1}
  None = none
  Capacity = 1
  MaxTargets = 64
  CrossNode = FALSE
  MaxSends = 1
  MaxMonitors = 2
  MaxRegisters = 2
SYMMETRY Alike
INVARIANTS IdsUnique NameFindsLatest DownsDelivered
CHECK_DEADLOCK FALSE
