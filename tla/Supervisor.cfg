SPECIFICATION FairSupSpec
CONSTANTS
  Main = main
  Sup = sup
  Actor = {main, sup, a1, a2, a3, a4}
  Default = default
  System = {default}
  db = db
  job = job
  Name = {db, job}
  Permanent <- PermanentNames
  Temporary <- TemporaryNames
  Specs <- TwoSpecs
  None = none
  Capacity = 1
  MaxTargets = 64
  CrossNode = FALSE
  MaxSends = 1
  MaxMonitors = 4
  MaxRegisters = 4
INVARIANTS OneIncarnation NameIsCurrent
PROPERTY WatchedIsReplaced
CHECK_DEADLOCK FALSE
