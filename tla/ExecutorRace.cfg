SPECIFICATION Spec
CONSTANTS
  x1 = x1
  x2 = x2
  i1 = i1
  a1 = a1
  e1 = e1
  c1 = c1
  c2 = c2
  Identities = {i1}
  Assertions = {a1}
  Candidates = {e1, c1, c2}
  Mints <- TwinMints
  SubjectOf <- OneSubject
  AttachMode = "append"
  Callers = {x1, x2}
  Supported <- ReferenceOps
  Implemented <- ReferenceOps
  HasReader = TRUE
  SingleThreaded = FALSE
  PublishAlone = FALSE
  Faults = FALSE
  MaxEpoch = 2
SYMMETRY Symmetry
INVARIANT CommittedAgainstItsSnapshot
CHECK_DEADLOCK FALSE
