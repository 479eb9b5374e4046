SPECIFICATION Spec
CONSTANTS
  Tasks = {1, 2}
  First = 1
  Fds = {0, 1}
  Descs = {d1, d2}
  Ports = {1}
  Ephemeral = 2
  Names <- Processes
  WithCloexec = TRUE
  MaxCalls = 4
  NoTask = NoTask
  NoFd = NoFd
  NoDesc = NoDesc
  NoRow = NoRow
  NoCall = NoCall
  NoKind = NoKind
SYMMETRY Symmetry
INVARIANTS TypeOK RowsTellTruth KernelSeesReal MemoryIntact
PROPERTY HostStaysHidden
CHECK_DEADLOCK FALSE
