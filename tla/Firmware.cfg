SPECIFICATION Spec
CONSTANTS
  Configs <- CardConfigs
  Levels <- ErrorLevels
  RC_INPUT_MAX_NB_CHANNELS = 2
  SUMD_CHANNELS <- FrameSizes
  MaxSwaps = 1
  safemode = FALSE
INVARIANTS
  TypeOK
  PinsAreSafe
  PortsAreReady
PROPERTIES
  ShellComesBack
  LedsAreTrue
