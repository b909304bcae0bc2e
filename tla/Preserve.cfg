CONSTANTS
  t1 = t1  t2 = t2
  b1 = b1  b2 = b2  b3 = b3
  u1 = u1  u2 = u2  u3 = u3  u4 = u4
  NULL = NULL
  Threads = {t1, t2}
  Blocks = {b1, b2, b3}
  Uses = {u1, u2, u3, u4}
  Of <- MCOf
SPECIFICATION Spec
INVARIANTS TypeOK Books EndsOnce
PROPERTY Promised
