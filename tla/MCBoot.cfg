SPECIFICATION BootSpec
CONSTANTS
  BiosMaps <- MCBiosMaps
  UefiMaps <- MCUefiMaps
  Page = 2
  Meg = 20
  Gig4 = 42
  EBDA = 16
  BssEnd = 6
  Image <- MCImage
  Spare = 1
  SpareSize = 3
  MaxEntries = 9
  Sizes = {1, 4}
  Aligns = {2, 4}
  KernelAt = {22}
  MaxOps = 3
  Frames = 16
  Low = 8
  Hhdm = 16
  KernelBase = 32
  Top = 40
  MemMaps <- MCMemMaps
  Kernels <- MCKernels
  Touched = {1, 6, 13, 21, 35}
  Given = {1, 9}
  MaxMaps = 3
  Boots <- MCBoots
  MaxRequests = 20
  ModeTop <- MCModeTop
  Gig = 4
  Configs <- MCConfigs
  Shown = 2
  Columns = 5
  Lines = 2
  BufSize = 5
  OldText <- MCOldText
  MaxBoots = 1
  MaxKeys = 6
  Firmware <- MCFirmware
  Xfer = 2
  Pool = 4
  Junk <- MCJunk
  MaxErrors = 2
  MaxReads = 2
  Vols <- MCVols
  Server <- MCServer
  Uris <- MCUris
  Systems <- MCSystems
  EntrySize = 256
  LfnEntries = 3
  IsoSector = 4
  Mtu = 2
  MaxCalls = 3
  Sources <- MCSources
  SearchPath <- MCSearch
  MaxLookups = 1
INVARIANTS MapSound Translates RequestsAnswered MenuSound VolumesSound FilesSound LookupsSound
PROPERTY MemoryKept
CHECK_DEADLOCK FALSE
