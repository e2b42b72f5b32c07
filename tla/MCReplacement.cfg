SPECIFICATION Spec
CONSTANTS
  a = a
  b = b
  c = c
  d = d
  p = p
  q = q
  Addr <- Blocks
  NoAddr = NoAddr
  PC <- Counters
  NoPC = NoPC
  Policies <- BothPolicies
  NumWay = 3
  Assocs <- TwoOrThree
  LruWrap = 8
  MaxRRPV = 3
  MaxShct = 3
  OptSize = 2
  MaxAccesses = 6
SYMMETRY Sym
INVARIANTS
  OptgenIsOptimal
  LinesMatchHistory
PROPERTIES
  LruEvictsOldest
