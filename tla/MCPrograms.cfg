\* One component at a time: a recorder with seven transfers of two frames and
\* a buffer that two of them fill; two sessions; two signals; two devices;
\* two buffer sizes, JACK at 48, 144 and 36 kHz, and thirds of a frame.
CONSTANTS
  Dll = FALSE
  H2O = FALSE
  FramesPerTransfer = 2
  Capacity = 5
  MaxFrames = 14
  Faults = TRUE
  MaxSessions = 2
  SIGINT = SIGINT
  SIGTERM = SIGTERM
  SignalNumbers <- MCSignals
  Default = Default
  Custom = Custom
  Preferences <- MCPreferences
  MaxDevices = 2
  MaxLate = 2
  Heat = Heat
  Takt = Takt
  Pids <- MCPids
  Shipped <- MCShipped
  MaxPlugged = 2
  MaxEntries = 2
  Unit = 3
  Ratios <- MCRatios
  BufSizes <- MCBufSizes
  LookAhead = 2
SPECIFICATION ProgramsSpec
INVARIANTS
  ProgramsTypeOK
  RecordingIntact
  NothingTwice
  FreedOnce
  NothingLeft
  StopReachesClient
  OneTimer
  PreferencesApplied
  DescriptionWhole
  ShippedIsFallback
  QueueBounded
PROPERTIES
  RenameEnds
  CtrlCEnds
  ButtonTruth
