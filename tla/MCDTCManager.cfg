SPECIFICATION Spec
CONSTANTS
  Code = {d1, d2, d3}
  MaxDtcs = 2
  AgingCycles = 3
SYMMETRY CodeSymmetry
INVARIANTS TypeOK StatusIsConsistent SavedIsCurrent CodesSurvive
