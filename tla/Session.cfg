SPECIFICATION Spec
CONSTANTS
  p1 = p1
  p2 = p2
  p3 = p3
  x1 = x1
  x2 = x2
  x3 = x3
  NoProtocol = NoProtocol
  NoPlayer = NoPlayer
  Protocols = {p1, p2, p3}
  Players = {x1, x2, x3}
  ReplaceKick = TRUE
\* When every connection has come and gone nothing is left to do.
CHECK_DEADLOCK FALSE
INVARIANTS
  RefsCountHolders
  NothingDangles
  OneController
PROPERTY
  ClientLetsGoFirst
