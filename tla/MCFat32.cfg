SPECIFICATION MCSpec
CONSTANTS
  NClus = 7
  Spc = 2
  Slots = 2
  RootClus = 2
  cd = cd
  ca = ca
  cb = cb
  D = D
  A = A
  B = B
  x = x
  y = y
  Comp <- MCComp
  Name <- MCName
  Chunk = {x, y}
  make_name83 <- MCName83
  END = END
  DEL = DEL
  DOT = DOT
  DOTDOT = DOTDOT
  NoAck = NoAck
  Images <- MCImages
  Paths <- MCPaths
  Contents <- MCContents
  Calls = {"write", "mkdir", "write_root"}
  MaxReadFaults = 1
  MaxWriteFaults = 1
  MaxPowerLoss = 1
INVARIANTS AckedReadsBack NamesSound VolumeSafe FilesKept
PROPERTIES CallsReturn
