\* One device ends and another is plugged in while the service stops.
CONSTANTS
  Pool = 2
  Devices = 1
  Hotplug = TRUE
  Renames = FALSE
  Signals = FALSE
  Faults = FALSE
  MaxCommands = 1
SPECIFICATION Spec
CHECK_DEADLOCK FALSE
INVARIANTS
  StopStopsAll
