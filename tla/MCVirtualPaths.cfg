SPECIFICATION Spec
CONSTANTS
  p1 = p1
  p2 = p2
  Pids <- TwoPids
  First = p1
  Fds = {3, 4}
  Tree <- SmallTree
  MaxLinks = 3
  CliBinds <- HostBinds
  Guarded <- OneDir
  Paths <- SomePaths
  Calls <- SomeCalls
  MaxCalls = 3
  MaxKills = 1
  Given = {}
  MaxUnfollowed = 1
  NoFile = NoFile
  AFile = AFile
INVARIANTS TypeOK TablesAgree CallsCleanUp
PROPERTIES ResolvesLikeKernel MountsTakeEffect
CHECK_DEADLOCK FALSE
