SPECIFICATION Spec
CONSTANTS
  None = None
  Missing = Missing
  Texts <- MCTexts
  Readable <- MCReadable
  BuiltInTexts <- MCBuiltIn
  Policies <- MCPolicies
  Identities <- MCPolicies
  PolicyHash <- MCPolicyHash
  IdentityOf <- MCIdentityOf
  Inputs <- MCInputs
  Rules <- MCRules
  Decide <- MCDecide
  Activations <- MCActivations
  Accounts <- MCAccounts
  AccountNames <- MCAccountNames
  Keys <- MCKeys
  Bodies <- MCBodies
  builtinText = builtinText
  customerText = customerText
  reformatted = reformatted
  otherText = otherText
  brokenText = brokenText
  builtinPolicy = builtinPolicy
  customerPolicy = customerPolicy
  otherPolicy = otherPolicy
  inA = inA
  inB = inB
  change1 = change1
  change2 = change2
  account1 = account1
  account2 = account2
  unknownAccount = unknownAccount
  keyA = keyA
  keyB = keyB
  bodyA = bodyA
  bodyB = bodyB
  ruleAllow = ruleAllow
  ruleDeny = ruleDeny
  Invocations <- MCInvocations
INVARIANTS TypeOK CleanExitIsComplete RequirementIsFinal TierMatchesExit SuppliedFilesHold PolicyFileHolds
PROPERTIES FailureIsFinal KeepsPromise
CHECK_DEADLOCK FALSE
