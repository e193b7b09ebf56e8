\* Two clients, admitted or refused, in one room or in two of which one is kept.
SPECIFICATION MCSpec
CONSTANTS
  c1 = c1
  c2 = c2
  r1 = r1
  r2 = r2
  w1 = w1
  w2 = w2
  Conns = {c1, c2}
  Rooms = {r1, r2}
  Wallets = {w1, w2}
  Payers = {w1}
  Sizes = {2}
  MaxBytes = 2
  MaxRooms = 1
  HistoryLimit = 1
  Decoding = 1
  MaxRequests = 3
SYMMETRY Symmetry
INVARIANTS
  
  SettledListComplete
  RoomIsolation

  
CHECK_DEADLOCK FALSE
