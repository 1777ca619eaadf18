SPECIFICATION Spec
CONSTANTS
  SeqMod = 3
  TickMod = 4
  MaxGap = 1
  ReplayWindow = 1
  RateWindow = 1
  MaxRate = 2
  Spare = 1
  FirstSeq = 1
  FirstTick = 3
  LastTick = 7
  MaxNet = 2
INVARIANTS TypeOK RateIsExact AcceptedIsFresh
PROPERTY AcceptedMovesForward
