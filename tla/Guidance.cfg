SPECIFICATION Spec
CONSTANTS
  SiteMaps <- Profiles
  Calls <- AllCalls
  Increments = 10
  Density = 6
INVARIANTS HottestFillTheTier KnapsackIsBest FailsOnlyForAnEmptyTier
