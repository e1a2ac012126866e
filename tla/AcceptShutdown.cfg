SPECIFICATION FairSpec
CONSTANTS
  Server = {s1}
  Accepting = {s1}
  Client = {}
  Uuid = {u1}
  NoUuid = NoUuid
  MaxChannel = 2
  MaxOrphans = 1
  Platforms = {"linux"}
PROPERTIES
  AcceptEnds
