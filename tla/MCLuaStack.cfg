SPECIFICATION Spec
CONSTANTS
  MaxFrames = 3
INVARIANTS
  OperandsFit
  ArgumentsMeetParameters
  Balanced
  OneResult
CHECK_DEADLOCK FALSE
