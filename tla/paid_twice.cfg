SPECIFICATION Spec
CONSTANTS
  Users = {u1}
  Sessions = {s1, s2}
  Handlers = {h1}
  Hooks = {k1}
  MaxStops = 0
  NoUser = nobody
  NoSession = none
INVARIANT PaidOnce
CHECK_DEADLOCK FALSE
