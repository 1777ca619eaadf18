SPECIFICATION FairSpec
CONSTANTS
  Source = {n1, n2, n3}
  TotalNodes = 4
  MaxCrcCount = 4
  MaxStale = 2
INVARIANTS TypeOK NormalHasNoOfflineNode OutageIsSafe TimerInStep ListenerInStep
PROPERTIES FailSilentUntilReset ImplementsFSM SafeStateEnds
