SPECIFICATION Spec
CONSTANTS
  p1 = p1
  c1 = c1
  Post <- MCPost
  Comment <- MCComment
  ThePost = p1
  Page <- MCDetails
  MaxWrites = 4
INVARIANTS CommentsAreWatched
