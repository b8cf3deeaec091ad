SPECIFICATION Spec
CONSTANTS
  None = None
  run1 = run1
  attest1 = attest1
  aer1 = aer1
  aer2 = aer2
  sec1 = sec1
  sec2 = sec2
  desc1 = desc1
  desc2 = desc2
  alice = alice
  key1 = key1
  key3 = key3
  other = other
  RunIds <- MCRunIds
  AttestIds <- MCAttestIds
  Aers <- MCAers
  SectionValues <- MCSectionValues
  Descs <- MCDescs
  ActorIds <- MCActorIds
  PinnedKeys <- MCPinnedKeys
  NotBefore <- MCNotBefore
  NotAfter <- MCNotAfter
  KeyAt <- MCKeyAt
  FormsAt <- MCFormsAt
  PoteDiffers <- MCPoteDiffers
  OtherKey = other
  Submissions <- MCSubmissions
  Scopes <- MCScopes
  TableSince = 2
  Skew = 1
  MaxWindow = 2
  Window = 1
  MaxTime = 4
INVARIANTS TypeOK CompleteRecordIsGenuine AnchoredRunIsGenuine RequirementCannotBeRemoved SealedActorIsGenuine SealedRecordVerifies ChecksAreCoherent LateRecordCannotKeepClock
CHECK_DEADLOCK FALSE
