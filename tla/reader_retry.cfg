SPECIFICATION Spec
CONSTANTS
  W <- MCW
  StreamAlign <- MCAlign
  Walks <- MCRetries
  Faults = {"eio"}
  MaxFaults = 2
  MaxRead = 2
INVARIANTS
  ContentExact
  ReadEndsComplete
CHECK_DEADLOCK FALSE
