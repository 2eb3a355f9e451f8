CONSTANTS
  NoDocument = NoDocument
  Scope = {s1}
  Operator = {o1, o2}
  Caller = {c1, c2, c3}
  MaxPerScope = 2
  MaxTotal = 2
  Durations = {1, 2}
  Drained = TRUE
  MaxTime = 2
  MaxFaults = 1
  MaxBoots = 2
  MaxCrashes = 1
  Bound <- MCBound
SPECIFICATION Spec
SYMMETRY Symmetry
INVARIANTS
  RevokedMeansDenied
  GrantIsServed
CHECK_DEADLOCK FALSE
