CONSTANTS
  n1 = n1  n2 = n2
  old = old  fwA = fwA  fwB = fwB
  Firmware <- Images
  NoFw = NoFw  Factory = old  Blank = Blank  Mixed = Mixed
  Node = {n1, n2}
  Releases = {fwA, fwB}
  TotalSize <- Sizes
  PacketMaxSize = 4
  PacketMaxNum = 3
  ChannelCap = 2
  Limit <- FaultLimit
  Acts = 1
  ReportInterval = 50
  Lists <- EveryNode
  Modes = {FALSE}
  RetryCount = 1
  RequestCount = 1
  QueueLen = 1
  Timely = FALSE
SYMMETRY Symmetric
SPECIFICATION Spec
INVARIANTS TypeOK 
PROPERTIES BootOnlyToImage
