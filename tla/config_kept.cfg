CONSTANTS
  Items <- ThreeItems
  Default <- FactoryValues
  Size <- FieldSizes
  Text <- UserTexts
  ModeItem = "run_mode"
  WebMode <- One
  MaxFiles = 3
  Missing = Missing
  RestartCount = 3
  Limit <- UsualLimit
  Acts = 4
SPECIFICATION BootFairSpec
INVARIANTS SettingsKept
PROPERTIES FallbackEarned BadLeft
CHECK_DEADLOCK FALSE
