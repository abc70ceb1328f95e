SPECIFICATION Spec
CONSTANTS
  Objects <- MCObjects
  Symbols <- MCSymbols
  Inputs <- MCInputs
INVARIANTS Closed
PROPERTIES IsLinkSet
CHECK_DEADLOCK FALSE
