SPECIFICATION FairSpec
CONSTANTS
  Node = {n1, n2}
  MaxEvents = 3
INVARIANTS TypeOK RegistryIsRight
PROPERTY DepartureIsTold
