SPECIFICATION ConSpec
CONSTANTS
  Keys = {shiftL, shiftR, altR, capsLock}
  Shifts = {shiftL, shiftR}
  Alts = {altR}
  Caps = {capsLock}
  Ext = {altR}
  MaxCodes = 5
  screen_w = 3
  screen_h = 2
  Moves <- MCMoves
  MaxDrops = 1
  Rows = 3
  Cols = 4
  TabSize = 2
  MaxEsc = 3
  MaxWrites = 4
  Writes <- MCWrites
  Printable <- MCPrintable
  cp437 <- MCcp437
  wcwidth <- MCwcwidth
  dec_special <- MCdec_special
INVARIANTS KeyboardSound MouseSound TerminalSound
PROPERTY InputArrives
CHECK_DEADLOCK FALSE
