SPECIFICATION FairSpec
CONSTANTS
  Outs = {"stdout", "stderr"}
  Stdout = "stdout"
  MaxOut = 1
  MaxIn = 1
  Asked <- Some
INVARIANTS TypeOK OutputThenStatus ClientIsTold NothingLeftRunning
PROPERTIES SessionEnds LeaverStopsCommand
CHECK_DEADLOCK FALSE
