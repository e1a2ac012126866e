SPECIFICATION FairSpec
CONSTANTS
  Byte = {a, cr, lf}
  CR = cr
  Delim = lf
  Chunk = 2
  MaxWant = 3
  MaxSent = 3
  Timeouts = {"forever", "finite"}
INVARIANTS
  TypeOK
  StreamIntegrity
  ReadsReturnStreamBytes
  ReadLineFraming
  TimeoutsApplied
  BlockingRestored
  QueueStatusHonest
  PurgeIsComplete
  NoOrphanHandle
  RecvOnlyWhenDrained
PROPERTIES
  StreamSpec
  CallsReturn
