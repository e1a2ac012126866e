SPECIFICATION Spec
CONSTANTS
  Server = {s1, s2}
  Accepting = {}
  Client = {c1}
  Uuid = {u1}
  NoUuid = NoUuid
  MaxChannel = 2
  MaxOrphans = 1
  Platforms = {"linux", "windows"}
SYMMETRY Symmetry
INVARIANTS
  TypeOK
  RecordHasListener
  NothingLeftBehind
PROPERTIES
  ScanMissesNoFreeChannel
  FreshRecordReachesOwner
