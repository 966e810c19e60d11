\* Two attempts at a request; two boards; two faults, which is what it takes
\* to exhaust the attempts.
CONSTANTS
  CommonRetries = 2
  ReadRetries = 2
  Configs <- MCConfigs
  MaxCalls = 3
  MaxFaults = 2
SPECIFICATION FairSpec
INVARIANTS
  NoStuckKeys
  EachEventOnce
PROPERTIES
  Settles
  Stops
CHECK_DEADLOCK FALSE
