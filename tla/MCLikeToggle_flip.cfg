SPECIFICATION Spec
CONSTANTS
  u1 = u1
  u2 = u2
  d1 = d1
  d2 = d2
  d3 = d3
  t1 = t1
  t2 = t2
  t3 = t3
  User <- MCUser
  Device <- MCDevice
  Owner <- MCOwner
  Tap <- MCTap
INVARIANTS OneLikePerUser
PROPERTIES FlipSpec
CHECK_DEADLOCK FALSE
