CONSTANTS
  None = None
  Calls <- MCCalls
SPECIFICATION Spec
INVARIANT ResidentAsDocumented
