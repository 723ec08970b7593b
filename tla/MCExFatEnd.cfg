SPECIFICATION Spec
CONSTANTS
  NClus = 10
  Cells = 8
  RootClus = 3
  SysCells = 3
  cd = cd
  ca = ca
  cA = cA
  cb = cb
  ch = ch
  D = D
  A = A
  B = B
  H = H
  x = x
  y = y
  Words = 1
  Comp <- MCComp
  Upper <- MCUpper
  NameCells <- MCNameCells
  Chunk = {x, y}
  Stale <- MCStale
  Reserved = {2}
  FilePaths <- MCFilePaths
  DirPaths <- MCDirPaths
  Contents <- MCContents
  HostFile = ch
  NoAck = NoAck
INVARIANTS EndIsEnd
