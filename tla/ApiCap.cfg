SPECIFICATION Spec
CONSTANTS
  Keys = {k1, k2}
  Payloads = {a}
  Tokens = {t1}
  Claims = {c1}
  MaxPending = 1
  Nil = Nil
  Procs = {p1, p2}
  Requests <- ApiRequests
  MaxStray = 0
INVARIANT PendingCap
