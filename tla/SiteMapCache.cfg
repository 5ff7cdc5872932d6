SPECIFICATION Spec
CONSTANTS
  Processes <- CommandNames
  Program <- Commands
  Runs = 2
  AcrossRuns = 1
INVARIANTS CacheOfThisRun AloneSucceeds
PROPERTY CleanRepairs
\* Every process is over and the last run is.
CHECK_DEADLOCK FALSE
