CONSTANTS
  Configurations <- MCAllConfigurations
  Selections <- MCOneFixture
  VariantLists <- MCBothVariants
  MaxExperiments = 1
  MaxWarnings = 0
SPECIFICATION ExperimentSpec
INVARIANT ExperimentsUseTheirOwnAgents
CHECK_DEADLOCK FALSE
