CONSTANTS
  UnsignedRange = 16
  PageBytes = 4
  NoNode = 99
  TopSites = 2
  NameLength = 11
  DefaultTitle = 4
  NoSite = NoSite
  Missing = Missing
  None = None
  Commands <- MCCommands
  TreesOf <- MCTreesOf
SPECIFICATION Spec
INVARIANTS CellsHoldTheMetric ColumnsLineUp ArgsFit
