\* Nothing fails; the recorder is stopped at any time.
CONSTANTS
  Dll = FALSE
  H2O = FALSE
  FramesPerTransfer = 2
  Capacity = 5
  MaxFrames = 6
  Faults = FALSE
SPECIFICATION RecorderFairSpec
PROPERTIES
  RecorderEnds
