SPECIFICATION Spec
CONSTANTS
  Keys = {k1}
  Payloads = {a}
  Tokens = {t1}
  Claims = {c1}
  MaxPending = 1
  Nil = Nil
  Procs = {p1, p2}
  Requests <- RaceRequests
  MaxStray = 0
PROPERTY RegisteredHasState
