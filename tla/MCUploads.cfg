\* Two uploads of up to two chunks, room for one in the session and in storage.
SPECIFICATION FairSpec
CONSTANTS
  u1 = u1
  u2 = u2
  u3 = u3
  m1 = m1
  m2 = m2
  Uploads = {u1, u2}
  Messages = {m1}
  MaxSize = 2
  MaxPending = 1
  MaxStored = 1
  IdSpace = 3
  Decoding = 2
INVARIANTS
  WholeFiles
  StoredOnce
  DoneMeansStored
  
  ProtocolKept
PROPERTIES
  UploadSettles
CHECK_DEADLOCK FALSE
