SPECIFICATION FairSpec
CONSTANTS
  FddHdr <- MCFddHdr
  SmHdr <- MCSmHdr
  SmeMin <- MCSmeMin
  Tapes <- MCTapes
  Reach = 4
  MaxFaults = 2
INVARIANTS
  TypeOK
  FoundIsLast
  NoneOnlyIfAbsent
  MapParsed
  OwnCatalog
  TreeComplete
PROPERTIES
  SearchEnds
CHECK_DEADLOCK FALSE
