SPECIFICATION Spec
CONSTANTS
  W <- MCW
  StreamAlign <- MCAlign
  Walks <- MCUnpadded
  Faults = {}
  MaxFaults = 1
  MaxRead = 4
INVARIANTS
  ContentExact
CHECK_DEADLOCK FALSE
