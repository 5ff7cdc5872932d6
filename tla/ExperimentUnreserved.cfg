SPECIFICATION FairSpec
CONSTANTS
  r1 = r1
  r2 = r2
  Scenarios <- Unreserved
INVARIANTS ReservedWhileMeasured
