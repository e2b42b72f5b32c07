SPECIFICATION Spec
CONSTANTS
  Addr <- FiveAddrs
  Empty = "0"
  Size = 4
  Checked = TRUE
INVARIANTS
  SlotsInUse
  SearchFindsOldest
PROPERTIES
  ImplementsFifo
