SPECIFICATION FairSpec
CONSTANTS
  Browsers = {b1, b2}
  Users = {u1, u2}
  Members = {u1}
  Logins = {i1, i2, i3}
  TTL = 3
  Interval = 2
  Nil = Nil
INVARIANTS TypeOK ExchangedOnce
PROPERTIES LoginsAreKept UnfinishedLoginsAreForgotten
