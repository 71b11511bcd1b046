\* Files of no frame, of two transfers, and with a rest of one and of two frames;
\* with signals and failures.
CONSTANTS
  Dll = FALSE
  H2O = TRUE
  Lengths = {0, 6, 7, 8}
  FramesPerTransfer = 3
  Signals = TRUE
  Faults = TRUE
SPECIFICATION PlayerFairSpec
INVARIANTS
  PlayerTypeOK
  WholeFilePlayed
PROPERTIES
  KeepsContract
  PlayEnds
  StopHalts
