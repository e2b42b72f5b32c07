SPECIFICATION Spec
CONSTANTS
  Dram = "DRAM"
  NoLower = "NULL"
  NoAddr = "none"
  Addr <- ThreeBlocks
  Cpus <- OneCpu
  RobSize = 1
  Caches <- DataCaches
  Kind <- DataKind
  Lower <- DataLower
  PortOf <- DataPortOf
  Upper <- DataUpper
  FillLevel <- DataLevel
  NumWay <- DataL2Way2
  MshrSize <- DataMshr
  RqSize <- DataRq
  WqSize <- DataOne
  PqSize <- DataOne
  ProcessedSize = 4
  DramRqSize = 1
  DramWqSize = 1
  Demands <- CopyDemands
  Stores <- OneStore
  Prefetches <- OvertakenPrefetches
INVARIANTS
  TypeOK
  OneEntryPerBlock
PROPERTIES
  OneCopyUnlessPrefetched
  ModifiedUntilWritten
