SPECIFICATION FairSpec
CONSTANTS
  Dram = "DRAM"
  NoLower = "NULL"
  NoAddr = "none"
  Addr <- TwoBlocks
  Cpus <- OneCpu
  RobSize = 1
  Caches <- PageCaches
  Kind <- PageKind
  Lower <- PageLower
  PortOf <- PagePortOf
  Upper <- PageUpper
  FillLevel <- PageLevel
  NumWay <- PageOne
  MshrSize <- PageMshr
  RqSize <- PageRq
  WqSize <- PageOne
  PqSize <- PageOne
  ProcessedSize = 4
  DramRqSize = 1
  DramWqSize = 1
  Demands <- PageDemands
  Stores <- OneStore
  Prefetches <- L2CPrefetches
PROPERTIES
  AccessesComplete
