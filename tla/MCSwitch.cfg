\* A chain of two units and one disturbance.
CONSTANTS
  MaxUnits = 2
  Channels = 1
  Edids <- MCEdids
  DefaultEdids <- MCDefault
  Factory <- MCFactory
  NoState = NoState
  Chains <- MCChains
  MaxLine = 2
  MaxEvents = 3
  MaxDisturbances = 1
SPECIFICATION FairSpec
INVARIANTS
  CacheFollowsChain
  ConfigurationArrives
  RestIsConfigured
  ClientsAreTold
PROPERTIES
  ConfigurationApplied
