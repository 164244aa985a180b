CONSTANTS
  Node = {n1, n2}
  MaxCount = 4
  ErrCount = 1
  Sizes = {2, 3, 5}
  Alone = FALSE
  Limit <- WildLimit

SYMMETRY Symmetric

SPECIFICATION PhotoSpec

CHECK_DEADLOCK FALSE

PROPERTIES PhotoRecovered
