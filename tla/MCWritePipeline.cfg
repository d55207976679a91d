SPECIFICATION FairSpec
CONSTANTS
  u1 = u1
  u2 = u2
  User <- MCUser
  NoUser = NoUser
  MaxPendingWrites = 2
  MaxWrites = 3
  MaxSignIns = 1
  MaxFaults = 1
INVARIANTS TypeOK PipelineInStep OwnUserOnly NothingLost AppliedInOrder
PROPERTY FinallySent
CHECK_DEADLOCK FALSE
