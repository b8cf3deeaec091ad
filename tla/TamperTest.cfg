SPECIFICATION Spec
CONSTANTS
  Absent = Absent
  None = None
  Unattributed = Unattributed
  MaxRounds = 12
  CopyGroups <- MCCopyGroups
  ListGroups <- MCListGroups
  FieldForm <- MCFieldForm
  Tests <- MCTests
INVARIANTS TypeOK StoppedMeansNoRewrite RewritablePathsAreReal
CHECK_DEADLOCK FALSE
