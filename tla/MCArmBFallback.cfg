CONSTANTS
  Sources <- MCSources
  ResolutionTools <- MCResolutionTools
  DefaultSource = "edgar_filing"
  UnknownTool = "made_up"
  MaxEvents = 4
  MaxEmits = 5
SPECIFICATION ArmBSpec
INVARIANT FallsBackToStream
CHECK_DEADLOCK FALSE
