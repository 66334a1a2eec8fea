SPECIFICATION Spec
CONSTANTS
  BODY = 3
  EXT = 1
  SEG = 2
  MaxLfn = 7
  NumMax = 2
  Names <- FileNames
  Tables <- StartTables
  PerSector = 2
  PerCluster = 4
  MaxTable = 12
  MaxEdits = 2
  MaxOpens = 3
INVARIANTS
  LookupIsRight
  ShortNamesDiffer
  NamesAreWhole
  
CHECK_DEADLOCK FALSE
