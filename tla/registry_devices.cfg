CONSTANTS
  Device = {d1, d2}
  EventLen = 1
  Prompt = TRUE
  Limit <- AnyLimit
  Acts = 4

SPECIFICATION FairSpec

INVARIANTS ServerKnowsList ListedOnce GhostsPending
PROPERTIES NewcomersListed
