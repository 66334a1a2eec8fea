SPECIFICATION FairSpec
CONSTANTS
  Started <- StreamThreads
  MaxReady <- StreamEdges
  MaxBaro = 0
INVARIANTS
  AttitudeNotBehindRates
  DatagramInOrder
PROPERTIES
  SampleReachesReaders
