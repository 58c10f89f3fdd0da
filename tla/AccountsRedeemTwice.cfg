SPECIFICATION Spec
CONSTANTS
  a1 = a1
  a2 = a2
  h1 = h1
  h2 = h2
  p1 = p1
  p2 = p2
  c1 = c1
  s1 = s1
  s2 = s2
  s3 = s3
  AccountIds = {a1, a2}
  Handles = {h1, h2}
  Passwords = {p1, p2}
  Codes = {c1}
  Value <- MCValue
  NoAccount = NoAccount
  Empty = Empty
  FirstAccount = a1
  FirstHandle = h1
  FirstPassword = p1
  Sessions = {s1, s2}
CHECK_DEADLOCK FALSE
INVARIANTS
  RedeemedOnce
