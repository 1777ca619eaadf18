SPECIFICATION Spec
CONSTANTS
  Timeout = 4
  Second = 1
  MaxBusy = 6
  Monitor = {m1, m2}
SYMMETRY MonitorSymmetry
INVARIANTS HangIsReported StopIsFinal
PROPERTY NoRepeatedReport
