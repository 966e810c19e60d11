\* Three websockets over two sessions; a request may be shorter or longer than
\* the global limit, or infinite.
CONSTANTS
  Tokens = {t1, t2}
  NoToken = NoToken
  Users = {u1, u2}
  WS = {w1, w2, w3}
  Expire = 2
  Extend = TRUE
  Requests = {0, 1, 3}
  MaxTime = 4
SYMMETRY Symmetry
SPECIFICATION AuthSpec
INVARIANTS
  WsAccounting
  OpenSessionIsInfinite
  ClosedSessionIsLimited
PROPERTIES
  ImplementsLeases
  RemovedForAReason
