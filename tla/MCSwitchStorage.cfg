\* One EDID and two names; KVMD and kvmd-pstrun use the partition.
CONSTANTS
  Saver = saver
  Runner = runner
  Clients <- MCClients
  Ids = {e}
  Default = default
  Names = {1, 2}
  Torn = Torn
  NoValue = NoValue
  MaxFailures = 1
  MaxRuns = 1
  MaxEdits = 2
  MaxLoads = 1
  MaxCrashes = 1
CHECK_DEADLOCK FALSE
SPECIFICATION FairSpec
INVARIANTS
  WritableWhileAllowed
  SavedWhenIdle
PROPERTIES
  ReadOnlyAgain
  EndsWithPermission
  SaveEnds
