SPECIFICATION FairSpec
CONSTANTS
  Server = {s1, s2}
  Accepting = {s1}
  Client = {}
  Uuid = {u1}
  NoUuid = NoUuid
  MaxChannel = 2
  MaxOrphans = 0
  Platforms = {"linux", "windows"}
INVARIANTS
  NothingLeftBehind
PROPERTIES
  ServerCallsReturn
