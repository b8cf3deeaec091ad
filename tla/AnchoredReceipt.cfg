SPECIFICATION RunSpec
CONSTANTS
  None = None
  deny = deny
  halt = halt
  env1 = env1
  dotted = dotted
  body1 = body1
  body2 = body2
  ctx1 = ctx1
  ctx2 = ctx2
  key1 = key1
  key3 = key3
  other = other
  LeafEnvs <- MCLeafEnvs
  Envs <- MCEnvs
  Kinds <- MCKinds
  Bodies <- MCBodies
  PinnedKeys <- MCPinnedKeys
  NotBefore <- MCNotBefore
  NotAfter <- MCNotAfter
  KeyAt <- MCKeyAt
  FormsAt <- MCFormsAt
  OtherKey = other
  Second = 2
  ExpectedSince = 4
  RequiredSince = 5
  ReceiptWindow = 1
  Skew = 1
  Scopes <- MCRunScopes
  MaxTime = 10
  MaxLog = 2
  MaxEdits = 2
  builtinText = builtinText
  customerText = customerText
  reformatted = reformatted
  otherText = otherText
  brokenText = brokenText
  builtinPolicy = builtinPolicy
  customerPolicy = customerPolicy
  inA = inA
  inB = inB
  change1 = change1
  change2 = change2
  account1 = account1
  account2 = account2
  unknownAccount = unknownAccount
  keyA = keyA
  keyB = keyB
  bodyA = bodyA
  bodyB = bodyB
  ruleAllow = ruleAllow
  ruleDeny = ruleDeny
  Missing = Missing
  Texts <- MCTexts
  Readable <- MCReadable
  BuiltInTexts <- MCBuiltIn
  Policies <- MCPolicies
  Identities <- MCPolicies
  PolicyHash <- MCPolicyHash
  IdentityOf <- MCIdentityOf
  Inputs <- MCInputs
  Rules <- MCRules
  Decide <- MCDecide
  Activations <- MCActivations
  Accounts <- MCAccounts
  Keys <- MCKeys
  Requests <- MCRequests
  HaltedKinds <- MCHaltedKinds
  CommandLines <- MCCommandLines
  ContextOf <- MCContexts
INVARIANTS AnchoredReceiptIsGenuine AnchorCannotBeRemoved IssuedReceiptVerifies RewrittenReceiptLosesDate AcceptedReceiptHolds
PROPERTIES ReceiptKeepsPromise
CHECK_DEADLOCK FALSE
