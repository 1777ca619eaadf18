SPECIFICATION Spec
CONSTANTS
  RecoveryCount = 3
  DegradedTimeout = 3
  TickMod = 8
  MaxLag = 2
INVARIANTS TypeOK HeadlightIsDark DegradedIsBounded
PROPERTIES MessagesNeverRevive
