SPECIFICATION Spec
CONSTANTS
  a = a
  b = b
  c = c
  k1 = k1
  k2 = k2
  x = x
  NoText = NoText
  NoCall = NoCall
  Screen <- MCOneScreen
  Me <- MCOneMe
  Peer <- MCOnePeer
  Call <- MCCall
  Draft <- MCDraft
  Ms <- MCOneMs
  MaxCopies = 0
  MaxTime = 2
  MaxFiles = 2
CHECK_DEADLOCK FALSE
INVARIANTS TapOpensItsOriginal
PROPERTIES DraftClearedOnceSent
