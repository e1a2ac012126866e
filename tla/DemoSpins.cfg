SPECIFICATION FairSpec
CONSTANTS
  MaxEarly = 1
PROPERTIES
  ServerEnds
CHECK_DEADLOCK FALSE
