CONSTANTS
  c1 = c1
  s1 = s1
  s2 = s2
  Containers = {c1}
  Sandboxes = {s1}
  WithImage = {}
  Plain = {c1}
  PodNetworking = TRUE
  MaxStarts = 2
  MaxCrashes = 1
  NoContainer = NoContainer
  NoSave = NoSave
SPECIFICATION FairSpec
INVARIANTS
  OneProcess
PROPERTIES
  LoopAnswers
CHECK_DEADLOCK FALSE
