SPECIFICATION Spec
CONSTANTS
  a = a
  b = b
  c = c
  k1 = k1
  k2 = k2
  x = x
  NoText = NoText
  NoCall = NoCall
  Screen <- MCScreen
  Me <- MCMe
  Peer <- MCPeer
  Call <- MCCall
  Draft <- MCDraft
  Ms <- MCMs
  MaxCopies = 2
  MaxTime = 4
  MaxFiles = 0
SYMMETRY CallSymmetry
INVARIANTS LostOnlyToSameMs ShownToItsTwoUsers ListedInRealTime
CHECK_DEADLOCK FALSE
