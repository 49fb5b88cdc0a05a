CONSTANTS
  n1 = n1
  n2 = n2
  n3 = n3
  n4 = n4
  Agents <- MCAgents
  Tools <- MCTools
  Sources <- MCSources
  Scopes <- MCScopes
  TTLs = {1}
  Ttl = 1
  Nonces = {n1, n2}
  MaxTime = 0
  MaxAudit = 100
  ExposureTools <- MCExposureTools
  ResolutionTools <- MCResolutionTools
  LeadLists <- MCLeadLists
  MaxRuns = 1
  MaxCalls = 2
  MaxInFlight = 2
  MaxAdmin = 0
  Chains <- MCChains
SPECIFICATION ArmASpec
SYMMETRY MCSymmetry
INVARIANTS ArmATypeOK TraceMatchesLog GrantsAreAccounted HopsCarryTheirTurn
           PhaseDiscipline ResultsMatchTraces VerdictIsInTheLog
CHECK_DEADLOCK FALSE
