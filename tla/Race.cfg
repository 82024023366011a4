SPECIFICATION Spec
CONSTANTS
  Keys = {k1}
  Payloads = {a}
  Tokens = {t1}
  Claims = {c1}
  MaxPending = 1
  Nil = Nil
  Procs = {p1, p2}
  Requests <- RaceRequests
  MaxStray = 1
SYMMETRY ProcSymmetry
INVARIANTS TypeOK IndexConsistent
PROPERTIES MovesWereRequested RecordsChangeByCommands ImplementsRegistry
