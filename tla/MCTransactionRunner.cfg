SPECIFICATION FairSpec
CONSTANTS
  t1 = t1
  t2 = t2
  x = x
  y = y
  z = z
  Tx <- MCTx
  Doc <- MCDoc
  Body <- MCBody
  MaxAttempts = 2
INVARIANTS TypeOK AnswerTellsEffect AbortsForAChange
PROPERTIES ActsAtOnce Returns
CHECK_DEADLOCK FALSE
