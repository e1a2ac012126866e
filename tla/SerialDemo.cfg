SPECIFICATION FairSpec
CONSTANTS
  MaxEarly = 2
INVARIANTS
  TypeOK
  InStep
PROPERTIES
  ClientFinishes
  SessionEnds
CHECK_DEADLOCK FALSE
