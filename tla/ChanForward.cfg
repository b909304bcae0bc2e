SPECIFICATION Spec
CONSTANTS
  a = a
  b = b
  u = u
  ia = ia
  ja = ja
  ib = ib
  c1 = c1
  c2 = c2
  c3 = c3
  NULL = NULL
  Threads = {a, b, u}
  Interps = {ia, ja, ib}
  Chans = {c1, c2, c3}
  Events = {e1, e2}
  Results = {r1, r2}
  Home <- MCHome
  Handler <- MCHandler
  User <- MCUser
  Moved <- MCMoved
  MaxOps <- MCOps
  MaxDepth = 2
INVARIANTS NoOrphan Accounted Truthful DeadForGood CarefulIsSafe
CHECK_DEADLOCK FALSE
PROPERTY Returns
