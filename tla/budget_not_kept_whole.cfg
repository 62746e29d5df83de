SPECIFICATION Spec
CONSTANTS
  Instances <- MCInstances
  MaxStreamBytes = 4
  ReadBufferBytes = 2
  PipeBytes = 2
INVARIANT WholeInsideTheBudget
CHECK_DEADLOCK FALSE
