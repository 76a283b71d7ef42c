SPECIFICATION FairSpec
CONSTANTS
  N = 4
  w1 = w1
  w2 = w2
  w3 = w3
  Workers <- MCWorkers
  Vanishing <- MCVanishing
INVARIANTS
  TypeOK
  SlotsOwned
  Accounted
  ReportComplete
PROPERTIES
  ScanEnds
CHECK_DEADLOCK FALSE
