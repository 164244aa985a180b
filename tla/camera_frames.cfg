CONSTANTS
  Task <- MCTask
  Configs <- MCConfigs
SPECIFICATION FairSpec
INVARIANTS  OneFrame
PROPERTIES FrameKept SomeServed
