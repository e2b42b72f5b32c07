SPECIFICATION Spec
CONSTANTS
  Cpus <- OneCpu
  Pages <- TwoPages
  MaxFrame = 3
  Draws <- ThreeDraws
  DramPages = 1
  RunLengths <- Lengths
  TlbSize = 2
  MshrSize = 2
INVARIANTS
  TlbsFollowPageTable
