SPECIFICATION FairSpec
CONSTANTS
  W <- MCW
  StreamAlign <- MCAlign
  Walks <- MCWalks
  Faults = {"callback"}
  MaxFaults = 1
  MaxRead = 4
INVARIANTS
  TypeOK
  InStep
  BoundariesKnown
  CountersAgree
  ReadEndsComplete
PROPERTIES
  ImplementsWalk
  WalkEnds
CHECK_DEADLOCK FALSE
