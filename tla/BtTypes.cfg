SPECIFICATION Spec
CONSTANTS
  Base = 2
  AddrLen = 3
  UuidLen = 5
  BaseUuid <- MCBaseUuid
  GuidSplit <- MCGuidSplit
  MaxText = 12
INVARIANTS
  TypeOK
  AddressParseExact
  UuidParseExact
  ConversionsAgree
CHECK_DEADLOCK FALSE
