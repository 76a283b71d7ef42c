SPECIFICATION Spec
CONSTANTS
  Media = 2
  Blocks <- MCBlocks
  Edge <- MCEdge
  Marks <- MCMarks
  Bounds <- MCBounds
  Eotm <- MCEotm
  ProbeSize = 2
  SkipThreshold = 99
  TellOK <- MCTellOK
  Ops = {"probe", "eio", "jump"}
  MaxAsk = 6
  MaxDrift = 1
INVARIANTS
  PositionAccounted
  PeekExact
PROPERTIES
  ImplementsByteStream
CHECK_DEADLOCK FALSE
