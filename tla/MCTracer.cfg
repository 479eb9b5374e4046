SPECIFICATION FairSpec
CONSTANTS
  Pids = {1, 2, 3}
  First = 1
  Ids = {0, 1}
  NoId = NoId
  Calls <- MCCalls
  InitialUid = 0
  MaxCalls = 3
  MaxKills = 1
  NoPid = NoPid
  NoCall = NoCall
  NoCred = NoCred
  Running = Running
INVARIANTS TypeOK PairsCalls IdsAreThePrograms
PROPERTIES StopsAnswered
CHECK_DEADLOCK FALSE
