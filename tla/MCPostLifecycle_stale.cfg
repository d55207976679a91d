SPECIFICATION FairSpec
CONSTANTS
  s1 = s1
  s2 = s2
  p1 = p1
  n1 = n1
  n2 = n2
  l1 = l1
  NoPost = NoPost
  NoDoc = NoDoc
  Session <- MCOneSession
  Post <- MCPost
  Name <- MCName
  CommentId <- None
  LikeId <- None
  MaxCopies = 0
  MaxFiles = 1
PROPERTIES FilesGoWithDocument
CHECK_DEADLOCK FALSE
