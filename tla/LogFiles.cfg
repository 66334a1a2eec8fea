SPECIFICATION FairSpec
CONSTANTS
  Files <- FileNames
  Newlines <- NewlineAt
  ClusterCount = 5
  CSize = 2
  SS = 3
  FatPerSector = 2
  MaxFaults = 1
  ConfigUnits = 8
  LineUnits = 10
  HeaderUnits = 1
  RecordUnits = 2
  MaxUnits = 9
  MaxMounts = 2
INVARIANTS
  CardIsSound
  OpenFilesAreApart
  SizeIsWritten
  ConfigRead
PROPERTIES
  SyncIsDurable
  LogsAreDurable
  CallsReturn
CHECK_DEADLOCK FALSE
