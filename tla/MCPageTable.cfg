SPECIFICATION Spec
CONSTANTS
  Cpus <- TwoCpus
  Pages <- TwoPages
  MaxFrame = 4
  Draws <- FourDraws
  DramPages = 3
  RunLengths <- Lengths
  TlbSize = 1
  MshrSize = 1
INVARIANTS
  TypeOK
  TablesAreInverse
  AllocatedIsCounted
  CoresShareNoFrame
PROPERTIES
  MappingsAreStable
