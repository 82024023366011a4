SPECIFICATION CSpec
CONSTANTS
  Keys = {k1}
  Payloads = {a}
  Tokens = {t1}
  Claims = {c1}
  MaxPending = 1
  Nil = Nil
  MaxForms = 2
INVARIANTS CTypeOK RowsWereTrue SettledKeysAreListed
PROPERTIES ButtonsWork OnlyWhatWasOffered
