\* A text may stay as it was sealed, and stops changing after MaxEdits.
SPECIFICATION Spec
CHECK_DEADLOCK FALSE
CONSTANTS
  Nil = Nil
  Among <- MCAmong
  TimeOfDay <- MCTimeOfDay
  Texts <- MCTexts
  Contexts <- MCContexts
  MaxEdits = 2
INVARIANTS ReadersAgree BrokenRuleNeverDecides SameHashSameDecision
