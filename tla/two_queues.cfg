SPECIFICATION Spec
CONSTANTS
  a = a  b = b  k1 = k1  k2 = k2  k3 = k3
  Queues = {a, b}
  Works = {w1, w2}
  Callers = {c1, c2}
  Workers = {k1, k2, k3}
  Home <- WorkersOf
  NULL = NULL
  MaxCalls = 5
INVARIANT OnePlace
PROPERTY ImplementsPools
