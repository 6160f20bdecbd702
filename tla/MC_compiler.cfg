SPECIFICATION Spec
CONSTANTS
  Inputs <- MCInputs
  BufSize = 10
  MaxRegex = 2
  Invalid <- MCInvalid
INVARIANTS TypeOK ProgramOfPath Walkable SpaceSuffices SlotsReleasedOnce StaysInText
PROPERTIES Ends
CHECK_DEADLOCK FALSE
