CONSTANTS
  Sides <- MCSides
  PrefixLen = 20
SPECIFICATION Spec
INVARIANT FieldsKept
CHECK_DEADLOCK FALSE
