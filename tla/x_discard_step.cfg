SPECIFICATION Spec
CONSTANTS
  W <- MCW
  StreamAlign <- MCAlign
  Walks <- MCPassed
  Faults = {}
  MaxFaults = 1
  MaxRead = 4
INVARIANTS
  NoFailure
CHECK_DEADLOCK FALSE
