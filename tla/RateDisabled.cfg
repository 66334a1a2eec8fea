SPECIFICATION LimiterSpec
CONSTANTS
  inf = inf
  Infinity <- inf
  TicksPerSecond = 6
  Wrap = 16
  Rates <- AllRates
  Gap = 9
  Horizon = 36
PROPERTIES
  DisabledNeverRuns
