CONSTANTS
  n1 = n1  n2 = n2
  old = old  fwA = fwA  fwB = fwB
  Firmware <- Images
  NoFw = NoFw  Factory = old  Blank = Blank  Mixed = Mixed
  Node = {n1}
  Releases = {fwA}
  TotalSize <- SizesQuarters
  PacketMaxSize = 4
  PacketMaxNum = 5
  ChannelCap = 2
  Limit <- LiveLimit
  Acts = 5
  ReportInterval = 25
  Lists <- EveryNode
  Modes = {FALSE}
  RetryCount = 2
  RequestCount = 1
  QueueLen = 1
  Timely = FALSE
SPECIFICATION FairSpec
INVARIANTS ResultsConsistent WrittenMatchesBits ResumeSound SuccessFlashed
PROPERTIES SendTerminates ArmedStopReturns ImplementsCampaign
