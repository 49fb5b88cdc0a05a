CONSTANTS
  n1 = n1
  n2 = n2
  n3 = n3
  n4 = n4
  Agents <- MCAgents
  Tools <- MCServedTools
  Sources <- MCSources
  Scopes <- MCScopes
  TTLs = {1}
  Ttl = 1
  Nonces = {n1, n2, n3, n4}
  MaxTime = 0
  MaxAudit = 100
  ExposureTools <- MCExposureTools
  ResolutionTools <- MCResolutionTools
  LeadLists <- MCOneLead
  MaxRuns = 2
  MaxCalls = 1
  MaxInFlight = 1
  MaxAdmin = 1
  Chains <- MCChains
SPECIFICATION ArmASpec
SYMMETRY MCSymmetry
PROPERTIES ArmAUsesBroker ArmAIsInvestigation
CHECK_DEADLOCK FALSE
