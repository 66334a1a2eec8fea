SPECIFICATION Spec
CONSTANTS
  Started <- FilterThreads
  MaxReady <- FilterEdges
  MaxBaro = 0
INVARIANTS
  EachSampleUsedOnce
  AttitudePairMatches
  RecordInOrder
  RecordsOfASample
