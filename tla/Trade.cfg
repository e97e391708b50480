SPECIFICATION Spec
CONSTANTS
  p1 = p1
  p2 = p2
  p3 = p3
  bag = bag
  pouch = pouch
  gem = gem
  None = None
  Players = {p1, p2, p3}
  Items = {bag, pouch, gem}
  Bags = {bag, pouch}
  Positions = {0, 1, 3}
SYMMETRY Symmetry
CHECK_DEADLOCK FALSE
INVARIANTS
  PartnersAgree
  TableMatchesOffers
  OffersStand
PROPERTIES
  OfferFrozen
  OnlyInExchange
