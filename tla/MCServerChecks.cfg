\* Each part alone: 2 messages per 2 ticks, 2 prompts kept, 2 changes to a text.
SPECIFICATION MCSpec
CONSTANTS
  p1 = p1
  p2 = p2
  RateWindow = 2
  MaxPerWindow = 2
  MaxClock = 6
  MaxSent = 6
  Posts = {p1, p2}
  Keep = 2
  MaxPrompts = 4
  Addresses = {1, 2}
  Hosts = {1}
  Skew = 0
  MaxTime = 2
  MaxEdits = 2
  Drafts <- MCDrafts
  Payer = payer
  Recipient = recipient
  Others = {other}
  NoWallet = none
  Digits = 2
  MinWei = 2
  Quantities <- MCQuantities
  MaxItems = 3
INVARIANTS
  SlidingWindow
  PromptsKept
  ImageOfItsPrompt
  SignedAsRead
  OwnTextAccepted
  PaidEnough
CHECK_DEADLOCK FALSE
