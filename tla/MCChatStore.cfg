\* Four messages and three room rows over time, for two slugs and two wallets.
SPECIFICATION MCSpec
CONSTANTS
  r1 = r1
  r2 = r2
  w1 = w1
  w2 = w2
  Rooms = {r1, r2}
  Wallets = {w1, w2}
  Sizes = {1}
  MaxBytes = 2
  MaxRooms = 1
  LastMsg = 4
  LastRoom = 3
SYMMETRY Symmetry
INVARIANTS
  NoOrphan

  
