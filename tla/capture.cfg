SPECIFICATION Spec
CONSTANTS
  Instances <- MCInstances
  MaxStreamBytes = 4
  ReadBufferBytes = 2
  PipeBytes = 2
INVARIANTS
  TypeOK
  RecordedAsWritten
  NoByteUnaccountedFor
PROPERTIES
  SettledOutputIsFinal
  NoisyCommandsGoOn
  WaitForReadersEnds
CHECK_DEADLOCK FALSE
