SPECIFICATION FairSpec
CONSTANTS
  d1 = d1
  d2 = d2
  g = g
  v = v
  Device <- MCDevice
  DocId <- MCDocId
  Profile <- MCProfile
  Google = g
  NoDoc = NoDoc
  MaxQueue = 2
  MaxLate = 1
PROPERTIES AddedForNewUser
