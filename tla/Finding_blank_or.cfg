SPECIFICATION Spec
CONSTANTS
  Inputs <- BlankBeforeOr
  BufSize = 256
  MaxRegex = 2
  Invalid <- MCInvalid
INVARIANT ProgramOfPath
CHECK_DEADLOCK FALSE
