SPECIFICATION Spec
CONSTANTS
  Files = {a, b, h}
  Units = {a, b}
INVARIANT ResultIsClosure
PROPERTY Terminates
CHECK_DEADLOCK FALSE
