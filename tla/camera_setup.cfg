CONSTANTS
  Configs <- MCConfigs
SPECIFICATION Spec
CHECK_DEADLOCK FALSE
INVARIANTS BankKnown  Reported NothingLeft LineWhole
