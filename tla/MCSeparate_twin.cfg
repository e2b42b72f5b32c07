SPECIFICATION Spec
CONSTANTS
  Dram = "DRAM"
  NoLower = "NULL"
  NoAddr = "none"
  Addr <- TwoBlocks
  Cpus <- TwoCpus
  RobSize = 2
  Caches <- TwinCaches
  Kind <- TwinKind
  Lower <- TwinLower
  PortOf <- TwinPortOf
  Upper <- TwinUpper
  FillLevel <- TwinLevel
  NumWay <- TwinOne
  MshrSize <- TwinOne
  RqSize <- TwinRq
  WqSize <- TwinOne
  PqSize <- TwinOne
  ProcessedSize = 4
  DramRqSize = 1
  DramWqSize = 1
  Demands <- TwinDemands
  Stores <- TwinStores
  Prefetches <- TwinPrefetches
INVARIANTS
  NoLostWakeup
  WithinCapacity
  RequestsAreOwned
  EveryMissHasOneRequest
  RoomForEveryMiss
