\* Two valid sets of parameters and one that is dropped; two clients.
CONSTANTS
  Values = {p1, p2, p3}
  Valid = {p1, p2}
  NoParams = NoParams
  Forever = FALSE
  MaxClients = 2
SPECIFICATION FairSpec
INVARIANTS
  AssertionsHold
  NothingLeftBehind
  SettledIsRight
PROPERTIES
  StartsForClients
  StopsWhenUnused
  ShutdownEnds
