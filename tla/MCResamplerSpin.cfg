\* A stop recorded while the engine waits for the resampler.
CONSTANTS
  Dll = TRUE
  H2O = TRUE
  MaxResets = 0
  JackFaults = FALSE
SPECIFICATION ResamplerFairSpec
PROPERTIES
  StopEndsSession
