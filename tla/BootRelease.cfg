SPECIFICATION Spec
CONSTANTS
  Texts <- BootTexts
  Size = 2
  DEBUG = FALSE
INVARIANTS
  PanicIsReported
  MessageIsText
PROPERTIES
  SafemodeIsOneShot
  LoaderIsOneShot
