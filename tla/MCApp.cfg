SPECIFICATION Spec
CONSTANTS
  Themes <- TheThemes
  NamedTheme <- TheNames
  Truecolor = TRUE
  Recommended = 8
  Commands <- TheCommands
  Rows <- TheRows
  Section = Section
  RowLimitSteps <- TheRowLimits
  HeaviestSteps <- TheHeaviest
  DenseSteps <- TheDense
  Scenarios <- TheScenarios
INVARIANTS
  AppTypeOK
  NothingUnwrittenIsLost
  EffectFollowsConfig
PROPERTIES
  SavedComesBack
CHECK_DEADLOCK FALSE
