SPECIFICATION DevSpec
CONSTANTS
  Lba <- MCLba
  Value = {v0, v1}
  MaxCount = 3
  MaxCalls = 3
  Sounds <- MCSounds
  Field = 4
  BdCount = 4
  Page = 4
  HeapSize = 50
  FileSize = 10
  PoolSize = 9
  MaxPlays = 5
  Lines = {0, 1, 12}
  Faults = {3, 13, 14}
  MaxIrqs = 5
  MaxFaults = 3
  boot = boot
  idle = idle
  w1 = w1
  w2 = w2
  job = job
  TIME_SLICE_TICKS = 2
  SCAN_LIMIT = 2
  JiffyWrap = 1
  Workers <- MCWorkers
  Returning = {job, w1}
  Hooked = TRUE
  Machines <- MCMachines
  Ids <- MCIds
  LapicIds = 4
  MaxPolls = 2
INVARIANTS IrqSound TaskSafe RingWhole OwnPlace
PROPERTIES StoreRefined LastSoundPlays DriversAnswer ZombiesStayDead ProcessorsStart
CHECK_DEADLOCK FALSE
