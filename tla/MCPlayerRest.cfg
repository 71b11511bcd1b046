\* One frame is left after two whole transfers; nothing fails, nobody interrupts.
CONSTANTS
  Dll = FALSE
  H2O = TRUE
  Lengths = {7}
  FramesPerTransfer = 3
  Signals = FALSE
  Faults = FALSE
SPECIFICATION PlayerFairSpec
PROPERTIES
  PlaysFile
