SPECIFICATION Spec
CONSTANTS
  FddHdr <- MCFddHdr
  SmHdr <- MCSmHdr
  SmeMin <- MCSmeMin
  Tapes <- MCThenNone
  Reach = 4
  MaxFaults = 0
INVARIANTS
  CatalogOfSet
CHECK_DEADLOCK FALSE
