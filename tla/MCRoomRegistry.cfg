\* Three connections, two slots, two rooms: one connection more than slots.
SPECIFICATION FairSpec
CONSTANTS
  c1 = c1
  c2 = c2
  c3 = c3
  r1 = r1
  r2 = r2
  Conns = {c1, c2, c3}
  Rooms = {r1, r2}
  MaxConnections = 2
  HeartbeatInterval = 5
  ClientTimeout = 10
INVARIANTS
  RecipientsExact
  LimitRespected
PROPERTIES
  OnlySilentTimedOut
  LostClientReaped
  ImplementsSlotPool
