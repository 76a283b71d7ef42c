SPECIFICATION Spec
CONSTANTS
  Media = 2
  Blocks <- MCBlocks
  Edge <- MCEdge
  Marks <- MCMarks
  Bounds <- MCBounds
  Eotm <- MCEotm
  ProbeSize = 2
  SkipThreshold = 2
  TellOK <- MCTellOK
  Ops = {"skip"}
  MaxAsk = 6
  MaxDrift = 1
INVARIANTS
  TypeOK
  PositionAccounted
  PBAExact
  AnchorExact
PROPERTIES
  SkipLands
  ImplementsByteStream
CHECK_DEADLOCK FALSE
