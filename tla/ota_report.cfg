CONSTANTS
  Device = {d1}
  Root = r
  Firmware = {f1, f2}
  Tries = 3
  QueueLen = 3
  Timely = FALSE
  CmdLimit = 2

SPECIFICATION FairSpec

INVARIANTS NameKept

 
