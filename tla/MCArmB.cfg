CONSTANTS
  Sources <- MCSources
  ResolutionTools <- MCResolutionTools
  DefaultSource = "edgar_filing"
  UnknownTool = "made_up"
  MaxEvents = 4
  MaxEmits = 5
SPECIFICATION ArmBSpec
INVARIANTS ArmBTypeOK SessionIsServed TraceFollowsSession
           ResultMatchesTrace TokensNeverOvercounted
PROPERTIES ArmBIsInvestigation InvestigationEnds
CHECK_DEADLOCK FALSE
