SPECIFICATION Spec
CONSTANTS
  None = None
  LogKey = LogKey
  OtherKey = OtherKey
  leaf1 = leaf1
  leaf2 = leaf2
  leaf3 = leaf3
  keyA = keyA
  keyB = keyB
  FirstNumber = 100
  Submissions <- MCSubmissions
  ForeignBodies <- MCForeignBodies
INVARIANTS AcceptedIsLogged AcceptedIsAtItsIndex GenuineAnchorVerifies
CHECK_DEADLOCK FALSE
