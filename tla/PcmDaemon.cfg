SPECIFICATION Spec
CONSTANTS
  Daemons = {d1, d2}
  Clients = {c1}
  OnlineSockets <- MCOnlineSockets
  Options <- MCOptions
  UsePerf = FALSE
  MaxPolls = 2
  NoFile = NoFile
  Empty = Empty
  Nobody = Nobody
CHECK_DEADLOCK FALSE
INVARIANTS PictureIsOneUpdate WindowsFollow FoundUnlessInCompany
PROPERTY ClientHears
