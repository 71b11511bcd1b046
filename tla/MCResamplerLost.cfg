\* A stop asked for while the client is starting.
CONSTANTS
  Dll = TRUE
  H2O = TRUE
  MaxResets = 0
  JackFaults = FALSE
SPECIFICATION ResamplerFairSpec
PROPERTIES
  StopKept
