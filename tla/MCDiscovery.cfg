\* Two product ids; the user's files may describe them rightly or wrongly.
CONSTANTS
  Heat = Heat
  Takt = Takt
  Pids <- MCPids
  Shipped <- MCShipped
  MaxPlugged = 2
  MaxEntries = 2
SPECIFICATION DiscoverySpec
INVARIANTS
  DirectoryFirst
