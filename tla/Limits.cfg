SPECIFICATION Spec
CONSTANTS
  ConfirmTokens = {t1, t2}
  Keys = {k1}
  PerToken = 1
  PerKey = 1
  Window = 2
  MaxCount = 2
  Procs = {p1, p2}
SYMMETRY ProcSymmetry
INVARIANTS TypeOK LimitHolds
PROPERTY WindowsOnlyShrink
