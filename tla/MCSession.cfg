SPECIFICATION MCSpec
CONSTANTS
  Default <- MCDefault
  Upper <- MCUpper
  Parse <- MCParse
  Names <- MCNames
  Ext <- MCExt
  Typed <- MCTyped
  sanitize_txt_name <- MCSanitize
  Title <- MCTitle
  Docs = {"", "doc"}
  Passwords = {"", "1234"}
  Bars <- MCBars
  HostVols <- MCVols
  LIST_MAX = 2
  LAUNCH_MAX = 1
  MaxFaults = 1
  MaxRounds = 7
INVARIANTS DesktopSound SavedStays
PROPERTIES DeleteIsAimed LoginShowsOwn
CHECK_DEADLOCK FALSE
