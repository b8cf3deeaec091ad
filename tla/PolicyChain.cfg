SPECIFICATION Spec
CONSTANTS
  None = None
  NoPrevious = NoPrevious
  account1 = account1
  account2 = account2
  customerKey = customerKey
  strict = strict
  loose = loose
  key1 = key1
  other = other
  ChainIDs <- MCChains
  AccountForm <- MCAccounts
  Policies <- MCPolicies
  PinnedKeys <- MCPinnedKeys
  NotBefore <- MCUnbounded
  NotAfter <- MCUnbounded
  ServerKey = key1
  OtherKey = other
  Second = 2
  EntryWindow = 1
  Skew = 1
  Scopes <- MCScopes
SYMMETRY MCSymmetry
INVARIANTS AcceptedHistoryIsPrefix HonestHistoryVerifies NamedChangeShowsAllBefore SignedChangeIsApproved AccountHistoryIsTheAccounts
CHECK_DEADLOCK FALSE
