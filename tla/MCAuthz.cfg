CONSTANTS
  exposure = exposure
  entity_resolution = entity_resolution
  edgar = edgar
  registry = registry
  n1 = n1
  n2 = n2
  Agents = {exposure, entity_resolution}
  Tools = {edgar, registry}
  Scopes <- MCScopes
  TTLs = {1}
  Nonces = {n1, n2}
  MaxTime = 2
  MaxAudit = 4
SPECIFICATION AuthzSpec
SYMMETRY MCSymmetry
INVARIANTS AuthzTypeOK AdminKillWins LogExplainsGrants
PROPERTIES GrantsRideLiveTokens BrokerIsKillSwitch
CHECK_DEADLOCK FALSE
