\* Two wallets, nonces and payments, one nickname, two requests at a time.
SPECIFICATION Spec
CONSTANTS
  w1 = w1
  w2 = w2
  n1 = n1
  n2 = n2
  x1 = x1
  x2 = x2
  a1 = a1
  a2 = a2
  s1 = s1
  s2 = s2
  s3 = s3
  Wallets = {w1, w2}
  Nonces = {n1, n2}
  Nicknames = {a1}
  Txs = {x1, x2}
  Slots = {s1, s2}
  NonceTtl = 1
  SessionTtl = 2
  Duration = 1
  MaxTime = 2
SYMMETRY Symmetry
INVARIANTS
  ChallengeAnsweredOnce
  AccessPaid
PROPERTIES
  AccessNeverShrinks
