\* Two wallets in one browser, two payments.
SPECIFICATION ClientSpec
CONSTANTS
  w1 = w1
  w2 = w2
  none = none
  Wallets = {w1, w2}
  NoWallet = none
  MaxTransfers = 2
INVARIANTS
  ShownIsSession
  PayerIsSession
PROPERTIES
  AccessLeadsToJoin
CHECK_DEADLOCK FALSE
