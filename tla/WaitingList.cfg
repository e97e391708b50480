SPECIFICATION FairSpec
CONSTANTS
  prem = prem
  rich = rich
  poor = poor
  free = free
  god = god
  Clients = {prem, rich, poor, free, god}
  Premium = {prem, rich}
  AlwaysLogin = {god}
  Diligent = {prem}
  PremiumSkip = FALSE
  MaxPlayers = 2
  TickLength = 5
INVARIANTS
  QueueOrder
PROPERTIES
  RoomForThoseAhead
  PlaceIsKept
  PremiumEnters
