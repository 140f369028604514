SPECIFICATION Spec
CONSTANTS
  Versions = {0, 1}
  LruSize <- MCLruSize
  Direct <- MCDirect
  MaxCalls = 2
  MaxChanges = 1
INVARIANTS
  AnswersAreCurrent
CHECK_DEADLOCK FALSE
