SPECIFICATION Spec
CONSTANTS
  Pids = {1, 2, 3}
  First = 1
  Ids = {0, 1}
  NoId = NoId
  Calls <- ForkCalls
  InitialUid = 0
  MaxCalls = 3
  MaxKills = 0
  NoPid = NoPid
  NoCall = NoCall
  NoCred = NoCred
  Running = Running
INVARIANT ReturnsCommandStatus
CHECK_DEADLOCK FALSE
