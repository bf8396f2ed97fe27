SPECIFICATION Spec
CONSTANTS
  a = a
  b = b
  c = c
  d = d
  g = g
  fact1 = fact1
  fact2 = fact2
  w1 = w1
  w2 = w2
  None = None
  Records = {a, b}
  FactOf <- Facts
  Admissible = {a}
  Triggers <- ReturningTriggers
  Workers = {w1}
  Leased = TRUE
  DiesIn = {}
  MaxEpoch = 3
SYMMETRY Symmetry
PROPERTY HistoryNeverRewritten
CHECK_DEADLOCK FALSE
