CONSTANTS
  NoDocument = NoDocument
  Scope = {s1}
  Operator = {o1}
  Caller = {c1, c2}
  MaxPerScope = 1
  MaxTotal = 1
  Durations = {2}
  Drained = FALSE
  MaxTime = 1
  MaxFaults = 0
  MaxBoots = 2
  MaxCrashes = 0
  Bound <- MCBound
SPECIFICATION Spec
SYMMETRY Symmetry
INVARIANTS
  RevokedMeansDenied
CHECK_DEADLOCK FALSE
