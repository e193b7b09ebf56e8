\* One browser that clicks on join twice.
SPECIFICATION CallSpec
CONSTANTS
  c1 = c1
  r1 = r1
  w1 = w1
  Conns = {c1}
  Rooms = {r1}
  Wallets = {w1}
  MaxRoom = 1
  MaxTotal = 1
  MaxOffers = 2
  Me = c1
  MaxCalls = 2
  Decoding = 2
INVARIANTS
  InCallOnServer
  GhostOnlyAfterError
  MicAsShown
  OwnAnswer

  
CHECK_DEADLOCK FALSE
