SPECIFICATION SecuritySpec
CONSTANTS
  MaxSeq = 4
  MaxLines = 4
INVARIANTS SecuritySequenceIncreases ChainVerifies
PROPERTY SecurityLinesStay
