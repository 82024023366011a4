SPECIFICATION Spec
CONSTANTS
  ConfirmTokens = {t1, t2}
  Keys = {k1}
  PerToken = 1
  PerKey = 2
  Window = 2
  MaxCount = 3
  Procs = {p1, p2}
PROPERTY RefusedOnlyOverLimit
