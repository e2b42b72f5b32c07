SPECIFICATION FairSpec
CONSTANTS
  RobSize = 6
  LqSize = 1
  SqSize = 2
  Addr <- Addresses
  Reg <- Registers
  Programs <- Blocked
PROPERTIES
  EveryInstructionRetires
CHECK_DEADLOCK FALSE
