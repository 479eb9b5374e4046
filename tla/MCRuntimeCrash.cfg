CONSTANTS
  c1 = c1
  s1 = s1
  s2 = s2
  Containers = {c1}
  Sandboxes = {s1}
  WithImage = {c1}
  Plain = {c1}
  PodNetworking = TRUE
  MaxStarts = 1
  MaxCrashes = 1
  NoContainer = NoContainer
  NoSave = NoSave
SPECIFICATION Spec
INVARIANTS
  TypeOK
  Durable
  NoStrayProcess
PROPERTIES
  StartsOnCompleteRootfs
CHECK_DEADLOCK FALSE
