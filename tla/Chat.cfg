SPECIFICATION FairSpec
CONSTANTS
  Modes = {"server", "client"}
  Platforms = {"linux", "windows"}
  MaxInbox = 2
INVARIANTS
  TypeOK
  ReportIsTrue
  ExitIsClean
PROPERTIES
  QuitExitsIfWoken
CHECK_DEADLOCK FALSE
