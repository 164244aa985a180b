CONSTANTS
  n1 = n1  n2 = n2
  old = old  fwA = fwA  fwB = fwB
  Firmware <- Images
  NoFw = NoFw  Factory = old  Blank = Blank  Mixed = Mixed
  Node = {n1}
  Releases = {fwA}
  TotalSize <- Sizes
  PacketMaxSize = 4
  PacketMaxNum = 4
  ChannelCap = 2
  Limit <- OneCrashLimit
  Acts = 5
  ReportInterval = 50
  Lists <- EveryNode
  Modes = {FALSE}
  RetryCount = 2
  RequestCount = 1
  QueueLen = 1
  Timely = FALSE
SPECIFICATION Spec
INVARIANTS SuccessBoots
