CONSTANTS
  NoScope = NoScope
  NoHook = NoHook
  Hook = {h1, h2}
  Scope = {s1}
  Caller = {c1, c2}
  MaxCount = 2
  MaxPerScope = 2
  MaxTotal = 2
  MaxMishaps = 1
  MaxBoots = 2
SPECIFICATION FairSpec
PROPERTIES
  OnlyActiveInstanceRuns
  StoppedHookStaysStopped
  HooksAreSettled
INVARIANTS
  RemovedMeansGone
CHECK_DEADLOCK FALSE
