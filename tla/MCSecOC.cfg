SPECIFICATION Spec
CONSTANTS
  SeqMod = 4
  InitCount = 2
  MaxGap = 2
  CounterMod = 2
  Window = 1
  MaxTime = 3
  MaxSent = 5
INVARIANTS FreshIsNewer AcceptedOnce SequenceTellsGap
