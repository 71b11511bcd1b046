\* One JACK client; its buffer size or sample rate changes at most once.
CONSTANTS
  Dll = TRUE
  H2O = TRUE
  MaxResets = 1
  JackFaults = TRUE
SPECIFICATION ResamplerFairSpec
INVARIANTS
  ResamplerTypeOK
  Lockstep
  StreamSustained
  WaitMeansSilent
PROPERTIES
  StopIsFinal
  KeepsContract
  ResamplerBoots
  RequestsHonoured
  StopClosesSession
