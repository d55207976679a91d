SPECIFICATION Spec
CONSTANTS
  s1 = s1
  s2 = s2
  p1 = p1
  n1 = n1
  n2 = n2
  l1 = l1
  NoPost = NoPost
  NoDoc = NoDoc
  Session <- MCSession
  Post <- MCPost
  Name <- MCName
  CommentId <- None
  LikeId <- MCLikeId
  MaxCopies = 1
  MaxFiles = 2
CHECK_DEADLOCK FALSE
SYMMETRY Symmetry
INVARIANTS TypeOK OriginalHasThumbnail LiveFilesExist OrphanChildWasMissed NoOrphanFiles
PROPERTIES DocumentGoesLast DeletedStaysDeleted OnlyAnEditUnsticks
CONSTRAINT FewVersions
