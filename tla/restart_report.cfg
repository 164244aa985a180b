CONSTANTS
  MacLen = 2
  Mac <- Addresses
  Self <- RootMac
  MaxNamed = 3
  Broken = 3
  Present <- InMesh
  Interval = 4
  Period = 5
  Expiry = 15
  Reboot = 2
  Block = 7
  Photo = 3
  Limit <- AnyLimit
  Acts = 1
SPECIFICATION MeshFairSpec
CHECK_DEADLOCK FALSE
INVARIANTS ReportsRefused FirstReachedAllTold 
PROPERTIES ResetOnlyTold ToldRestart
