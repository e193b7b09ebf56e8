\* One client leaves and joins again at once.
SPECIFICATION Spec
CONSTANTS
  c1 = c1
  c2 = c2
  c3 = c3
  r1 = r1
  r2 = r2
  w1 = w1
  w2 = w2
  w3 = w3
  Conns = {c1}
  Rooms = {r1}
  Wallets = {w1}
  MaxRoom = 1
  MaxTotal = 1
  MaxOffers = 1
PROPERTIES
  NoRestartNeeded
CHECK_DEADLOCK FALSE
