SPECIFICATION FairSpec
CONSTANTS
  Started <- BusThreads
  MaxReady <- BusEdges
  MaxBaro = 1
INVARIANTS
  BusHeldInTransaction
PROPERTIES
  ConversionIsPublished
