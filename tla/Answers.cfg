SPECIFICATION ASpec
CONSTANTS
  Keys = {k1}
  Payloads = {a}
  Tokens = {t1, t2}
  Claims = {c1}
  MaxPending = 1
  Nil = Nil
  Procs = {p1, p2}
  Requests <- AnswerRequests
  MaxStray = 1
SYMMETRY AnswerSymmetry
PROPERTIES AnswerWasTrue AnsweredTokenWasStored
