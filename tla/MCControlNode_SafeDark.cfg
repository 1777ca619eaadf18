SPECIFICATION Spec
CONSTANTS
  RecoveryCount = 2
  DegradedTimeout = 3
  TickMod = 8
  MaxLag = 2
INVARIANT SafeStateIsDark
