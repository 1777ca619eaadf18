SPECIFICATION Spec
CONSTANTS
  MaxEvents = 2
  RotateEvery = 2
  MaxSeq = 5
  MaxLines = 5
PROPERTY LinesAreDurable
