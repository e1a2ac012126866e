SPECIFICATION Spec
CONSTANTS
  MaxValue = 2
  MaxItems = 10
INVARIANTS
  TypeOK
  LookupExact
CHECK_DEADLOCK FALSE
