SPECIFICATION FairSpec
CONSTANTS
  Dram = "DRAM"
  NoLower = "NULL"
  NoAddr = "none"
  Addr <- OneBlock
  Cpus <- OneCpu
  RobSize = 2
  Caches <- SplitCaches
  Kind <- SplitKind
  Lower <- SplitLower
  PortOf <- SplitPortOf
  Upper <- SplitUpper
  FillLevel <- SplitLevel
  NumWay <- SplitOne
  MshrSize <- SplitOne
  RqSize <- SplitRq
  WqSize <- SplitOne
  PqSize <- SplitOne
  ProcessedSize = 4
  DramRqSize = 1
  DramWqSize = 1
  Demands <- SharedDemands
  Stores <- None
  Prefetches <- None
PROPERTIES
  AccessesComplete
CHECK_DEADLOCK FALSE
