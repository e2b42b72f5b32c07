SPECIFICATION FairSpec
CONSTANTS
  Addr <- FourBlocks
  Free = "0"
  Banks <- TwoBanks
  Rows <- TwoRows
  NoRow = 99
  Bank <- MCBank
  Row <- MCRow
  RqSize = 2
  WqSize = 4
INVARIANTS
  BanksMatchQueues
  CountersMatch
  OneDirection
  CachesAreFresh
  WaitsAreQueued
PROPERTIES
  ImplementsPort
  FullWriteQueueDrains
  ReadsReturn
