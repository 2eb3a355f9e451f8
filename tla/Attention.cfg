CONSTANTS
  NoPolicy = NoPolicy
  NoSlot = NoSlot
  NoDocument = NoDocument
  NoCommit = NoCommit
  Scope = {s1}
  Target = {q1, q2}
  MaxPerScope = 2
  MaxTotal = 2
  Counts = {2}
  Windows = {0, 2}
  Ignores = {2}
  Lifetimes = {3}
  MaxTime = 3
  MaxEvents = 3
  MaxMutations = 2
  MaxBoots = 2
  MaxMishaps = 1
  Settings <- MCSettings
  Batches <- MCBatches
  Bound <- MCBound
SPECIFICATION Spec
SYMMETRY Symmetry
INVARIANTS
  FloodIsCut
  ClearIsFinal
  IgnoreHasCause
CHECK_DEADLOCK FALSE
