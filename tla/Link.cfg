SPECIFICATION FairSpec
CONSTANTS
  Writes = 3
  Bytes = 3
  InQueue = 3
  MaxRequests = 4
  MaxTelemetry = 2
INVARIANTS
  FramesAreWhole
  NothingIsDropped
PROPERTIES
  WholeIsAnswered
CHECK_DEADLOCK FALSE
