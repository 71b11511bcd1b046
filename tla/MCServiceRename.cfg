\* Two methods and no signal; the main loop may stay idle.
CONSTANTS
  Pool = 2
  Devices = 1
  Hotplug = TRUE
  Renames = TRUE
  Signals = FALSE
  Faults = TRUE
  MaxCommands = 2
SPECIFICATION FairSpec
CHECK_DEADLOCK FALSE
PROPERTIES
  RenameRestarts
