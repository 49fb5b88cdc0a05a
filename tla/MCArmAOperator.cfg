CONSTANTS
  n1 = n1
  n2 = n2
  n3 = n3
  n4 = n4
  Agents <- MCAgents
  Tools <- MCServedTools
  Sources <- MCSources
  Scopes <- MCScopes
  TTLs = {0}
  Ttl = 0
  Nonces = {n1, n2}
  MaxTime = 1
  MaxAudit = 100
  ExposureTools <- MCExposureTools
  ResolutionTools <- MCResolutionTools
  LeadLists <- MCTwoLeads
  MaxRuns = 1
  MaxCalls = 1
  MaxInFlight = 1
  MaxAdmin = 1
  Chains <- MCChains
SPECIFICATION ArmASpec
INVARIANT KillLatency
PROPERTY InvestigationsConclude
CHECK_DEADLOCK FALSE
