SPECIFICATION Spec
CONSTANTS
  Server = {s1, s2}
  Accepting = {}
  Client = {c1}
  Uuid = {u1, u2}
  NoUuid = NoUuid
  MaxChannel = 2
  MaxOrphans = 1
  Platforms = {"linux"}
INVARIANTS
  ConnectsToService
