CONSTANTS
  Sides <- MCSides
  PrefixLen = 20
SPECIFICATION Spec
INVARIANT NoDuplicateFields
CHECK_DEADLOCK FALSE
