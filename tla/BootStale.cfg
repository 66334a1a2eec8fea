SPECIFICATION Spec
CONSTANTS
  Texts <- BootTexts
  Size = 2
  DEBUG = TRUE
INVARIANTS
  NoMessageWithoutPanic
