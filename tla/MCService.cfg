\* Two methods or signals, and devices plugged in at any time; the main loop may
\* stay idle.
CONSTANTS
  Pool = 2
  Devices = 1
  Hotplug = TRUE
  Renames = TRUE
  Signals = TRUE
  Faults = TRUE
  MaxCommands = 2
SPECIFICATION Spec
CHECK_DEADLOCK FALSE
INVARIANTS
  TypeOK
  LockReleased
  AvailableIsFree
  StopIsComplete
