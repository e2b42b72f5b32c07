SPECIFICATION FairSpec
CONSTANTS
  RobSize = 4
  LqSize = 2
  SqSize = 2
  Addr <- Addresses
  Reg <- Registers
  Programs <- Traces
INVARIANTS
  TypeOK
  FetchIsInOrder
  OperandsAreReady
  LoadsMeetTheirStores
  CountersMatch
  InOnePlace
  StoresKeepOrder
PROPERTIES
  RunsInOrder
  EveryInstructionRetires
CHECK_DEADLOCK FALSE
