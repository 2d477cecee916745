SPECIFICATION Spec
CONSTANTS
  Procs = {p1, p2, p3}
  MaxSaves = 3
  MaxLosses = 1
SYMMETRY Symmetry
INVARIANTS NeverTorn AckedIsDurable NothingLeftBehind
