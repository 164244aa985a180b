CONSTANTS
  n1 = n1  n2 = n2
  old = old  fwA = fwA  fwB = fwB
  Firmware <- Images
  NoFw = NoFw  Factory = old  Blank = Blank  Mixed = Mixed
  Node = {n1, n2}
  Releases = {fwA}
  TotalSize <- SizesQuarters
  PacketMaxSize = 4
  PacketMaxNum = 5
  ChannelCap = 5
  Limit <- LossLimit
  Acts = 5
  ReportInterval = 25
  Lists <- EveryNode
  Modes = {TRUE, FALSE}
  RetryCount = 4
  RequestCount = 3
  QueueLen = 3
  Timely = TRUE
SYMMETRY Symmetric
SPECIFICATION Spec
INVARIANTS AllUpgraded SavedPeriodically
