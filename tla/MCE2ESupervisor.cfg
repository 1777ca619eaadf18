SPECIFICATION FairSupervisorSpec
CONSTANTS
  Source = {c1}
  Channel = {c1}
  TotalNodes = 2
  MaxCrcCount = 3
  MaxStale = 1
  SeqMod = 4
  MaxGap = 2
  InitCount = 3
  OtherFault = {"NODE_OFFLINE", "WATCHDOG_EXPIRED"}
INVARIANTS SupervisorTypeOK StatusMatchesFailures
PROPERTIES TimeoutIsReal FailureDegrades SilenceIsReported LockIsReleased
