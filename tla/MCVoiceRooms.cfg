\* Two connections of one wallet or of two, two offers each under way.
SPECIFICATION Spec
CONSTANTS
  c1 = c1
  c2 = c2
  c3 = c3
  r1 = r1
  r2 = r2
  w1 = w1
  w2 = w2
  w3 = w3
  Conns = {c1, c2}
  Rooms = {r1}
  Wallets = {w1, w2}
  MaxRoom = 2
  MaxTotal = 2
  MaxOffers = 2
SYMMETRY Symmetry
INVARIANTS
  ListedAreInCall
  OwnedOnce
  LinksMatch
CHECK_DEADLOCK FALSE
