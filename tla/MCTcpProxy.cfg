SPECIFICATION FairSpec
CONSTANTS
  c1 = c1
  c2 = c2
  Conns <- TwoClients
  Data <- Chunks
INVARIANT TypeOK
PROPERTIES Relays EndsTogether ClientAnswered
CHECK_DEADLOCK FALSE
