SPECIFICATION Spec
CONSTANTS
  None = None
  jobA = jobA
  jobB = jobB
  step1 = step1
  step2 = step2
  step3 = step3
  Jobs <- MCJobs
  Steps <- MCSteps
  Scopes <- MCScopes
SYMMETRY MCSymmetry
INVARIANTS   NamesDoNotMatter SoundJobIsComplete
CHECK_DEADLOCK FALSE
