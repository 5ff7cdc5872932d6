SPECIFICATION MCSpec
CONSTANTS
  r1 = r1
  r2 = r2
  Scenarios <- Everything
  CommandLines <- Lines
  Missing = {"lulesh"}
  Unsized = {"amg"}
  Manual = {"offline_manual"}
INVARIANTS ReservedUnlessSpoilt CleansUp StraysWereHurried SoundBenchmarksRunTheirOwn DirectoryTellsTheRun
PROPERTIES EveryRunEnds NothingMeasuredIsCleared
