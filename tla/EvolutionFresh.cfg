SPECIFICATION Spec
CONSTANTS
  a = a
  b = b
  c = c
  d = d
  g = g
  fact1 = fact1
  fact2 = fact2
  w1 = w1
  w2 = w2
  None = None
  Records = {a, b, c, d, g}
  FactOf <- Facts
  Admissible = {a}
  Triggers <- FreshTriggers
  Workers = {w1, w2}
  Leased = TRUE
  DiesIn = {"taken", "planned"}
  MaxEpoch = 5
SYMMETRY Symmetry
INVARIANTS TypeOK LineageEndsLive FactNeverVanishes
PROPERTY HistoryNeverRewritten
CHECK_DEADLOCK FALSE
