SPECIFICATION QueueSpec
CONSTANTS
  p1 = p1
  p2 = p2
  i1 = i1
  i2 = i2
  d1 = d1
  d2 = d2
  d3 = d3
  Items = {i1, i2}
  Decisions = {d1, d2, d3}
  ItemOf <- TwoAndOne
  Processes = {p1, p2}
  Exclusive = FALSE
  IOFaults = FALSE
  Crashes = FALSE
  MaxHistory = 3
  Torn = Torn
  Absent = Absent
  NoCall = NoCall
SYMMETRY Symmetry
INVARIANT DecisionNeverLost
CHECK_DEADLOCK FALSE
