SPECIFICATION FairSpec
CONSTANTS
  k1 = k1
  k2 = k2
  auth = auth
  upload = upload
  comment = comment
  chat = chat
  None = None
  Call <- MCTwoCalls
  Notifier <- MCNotifiers
  Keyboard <- MCKeyboard
  Early <- MCEarly
  Leaky <- MCLeaky
  MaxSubmits = 2
INVARIANTS TypeOK CoverStays
PROPERTIES TapsTakeTurns OverlayGoesAway
