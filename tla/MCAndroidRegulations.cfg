CONSTANTS
  MaximumMilliseconds = 5
  game = game
  films = films
  always = always
  range = range
  allowance = allowance
  night = night
  Screen = Screen
  CountdownRules <- MCCountdownRules
  PleaRules <- MCPleaRules
  RuleDuration <- MCRuleDuration
  Readings <- MCReadings
  Applications <- MCApplications
  PlaceOf <- MCPlaceOf
  KindOf <- MCKindOf
  MaximumApplicationRegulationsNumber = 1
SPECIFICATION RegulationsSpec
INVARIANTS RegulationsTypeOK CountersKeepUp
PROPERTIES ClockOnlyMovesForward EnabledUntilTheEnd EnabledRulesStay CountDriftsOnlyWithRegulations
