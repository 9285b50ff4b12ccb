SPECIFICATION Spec
CONSTANTS
  HalfBase = 8
  MaxDigits = 2
  Calls <- MCCalls
INVARIANTS
  ResultIsExact
CHECK_DEADLOCK FALSE
