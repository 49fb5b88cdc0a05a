CONSTANTS
  edgar = edgar
  registry = registry
  Sources = {edgar, registry}
  RawPaths <- MCPaths
  RawDepths = {0, 1, 2, 3, 4}
  MaxHops = 5
  Index = edgar
  Banks <- MCBanks
  MaxBatches = 2
  FixtureCount = 2
  ArmLists <- MCArmLists
  MaxRuns = 3
  Configurations <- MCNoConfiguration
  Selections <- MCSelections
  VariantLists <- MCVariantLists
  MaxExperiments = 3
  MaxWarnings = 1
SPECIFICATION EvaluationSpec
INVARIANTS VerdictIffExactChain
           TablesAreOfTheirRun SidecarsAreWhole
           VariantsDifferInSkillAndRead FinishedRostersAreArchived
           ReusedVariantsWereCompleted
PROPERTIES GateIsHonest BaselineIsInvestigation
CHECK_DEADLOCK FALSE
