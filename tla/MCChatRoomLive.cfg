\* Every request is answered: two clients, two requests, one body unit of storage.
SPECIFICATION FairSpec
CONSTANTS
  c1 = c1
  c2 = c2
  r1 = r1
  r2 = r2
  w1 = w1
  w2 = w2
  Conns = {c1, c2}
  Rooms = {r1}
  Wallets = {w1, w2}
  Payers = {w1}
  Sizes = {1}
  MaxBytes = 0
  MaxRooms = 1
  HistoryLimit = 1
  Decoding = 2
  MaxRequests = 2
PROPERTIES
  RequestAnswered
CHECK_DEADLOCK FALSE
