SPECIFICATION Spec
CONSTANTS
  None = None
  deny = deny
  halt = halt
  env1 = env1
  dotted = dotted
  body1 = body1
  body2 = body2
  ctx1 = ctx1
  ctx2 = ctx2
  key1 = key1
  key3 = key3
  other = other
  LeafEnvs <- MCLeafEnvs
  Envs <- MCEnvs
  Kinds <- MCKinds
  Bodies <- MCBodies
  PinnedKeys <- MCPinnedKeys
  NotBefore <- MCNotBefore
  NotAfter <- MCNotAfter
  KeyAt <- MCKeyAt
  FormsAt <- MCFormsAt
  OtherKey = other
  Second = 2
  ExpectedSince = 4
  RequiredSince = 5
  ReceiptWindow = 1
  Skew = 1
  Scopes <- MCScopes
  MaxTime = 10
  MaxLog = 2
  MaxEdits = 0
INVARIANTS EntryWithinWindow
CHECK_DEADLOCK FALSE
