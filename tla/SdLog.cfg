SPECIFICATION FairSpec
CONSTANTS
  Cards <- TwoCards
  MaxFaults = 1
  SyncEvery = 2
  MaxRecords = 4
  MaxSwaps = 1
INVARIANTS
  GrantIsKept
  RecordsAreAppended
  UnsyncedBounded
PROPERTIES
  LogNeverShrinks
  LogResumes
