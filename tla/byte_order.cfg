SPECIFICATION Spec
CONSTANTS
  Bytes = {0, 1, 2}
  Half = 3
INVARIANTS
  TypeOK
  InArray
  Reversed
