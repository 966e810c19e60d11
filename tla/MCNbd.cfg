\* Two bindings one after the other, two unbinds, three faults.
CONSTANTS
  MaxFaults = 3
  MaxBinds = 2
  MaxUnbinds = 2
CHECK_DEADLOCK FALSE
SPECIFICATION FairSpec
INVARIANTS
  StateFollows
  FirstCause
PROPERTIES
  BindEnds
  UnbindEnds
