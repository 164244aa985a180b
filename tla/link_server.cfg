CONSTANTS
  Root = root
  Listed = {d1}
  Addr = {root, d1}
  Socket = {1, 2, 3, 4, 5}
  QueueLen = 3
  EofReads = 1
  Segmented = TRUE
  Limit <- AnyLimit
  Acts = 4

SPECIFICATION FairSpec

INVARIANTS InOrder SocketsBounded
PROPERTIES CommandsServed StaysRegistered
