\* Three edits, a restart, and a device that is found then.
CONSTANTS
  Saver = saver
  Runner = runner
  Clients <- MCClients
  Ids = {e}
  Default = default
  Names = {1, 2}
  Torn = Torn
  NoValue = NoValue
  MaxFailures = 1
  MaxRuns = 0
  MaxEdits = 3
  MaxLoads = 1
  MaxCrashes = 1
CHECK_DEADLOCK FALSE
SPECIFICATION Spec
INVARIANTS
  PortsHaveEdids
