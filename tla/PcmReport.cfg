SPECIFICATION MCSpec
CONSTANTS
  Bandwidth = {"local", "total"}
  Occupancy = "occupancy"
  Threads = {"worker", "local", "total"}
  Reads <- WorkerReads
  W = 3
  MaxCount = 4
  NoThread = "nobody"
INVARIANTS ReadingIsOfItsTime RowsTellTheTraffic HeadersNameTheValues
