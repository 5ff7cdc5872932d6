SPECIFICATION MCSpec
CONSTANTS
  NumThreads = 3
  NumPages = 5
  FewPages = 2
  PageSize = 3
  Slack = 1
  CreateMayFail = TRUE
  NodePages = 8
  Unallocatable = 2
  ArgPages = 1
  Processors = 2
  AddressPages = 64
  MaxChurn = 3
INVARIANTS NoSharedBytes ArgumentsOutliveThreads ProbeFindsUnallocatable LeavesWithinChurn ReservesWhenItCan
PROPERTIES BacksThePages FewPagesNeverReserve Settles
