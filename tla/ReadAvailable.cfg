SPECIFICATION FairSpec
CONSTANTS
  Byte = {a, lf}
  CR = cr
  Delim = lf
  Chunk = 2
  MaxWant = 2
  MaxSent = 2
  Timeouts = {"forever", "finite"}
PROPERTIES
  ReadReturnsAvailable
