SPECIFICATION Spec
CONSTANTS
  s1 = s1
  s2 = s2
  b1 = b1
  b2 = b2
  b3 = b3
  Servers = {s1, s2}
  Browsers = {b1, b2, b3}
  Reaches <- Sticky
  Members = {u1, u2}
  FormTokens = {t1, t2}
  TTL = 2
  Interval = 2
  MaxPages = 1
  Nil = Nil
SYMMETRY FormSymmetry
INVARIANTS TypeOK FreshFormsWork FormsActForTheirUser
