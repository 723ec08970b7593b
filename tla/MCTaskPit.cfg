SPECIFICATION Spec
CONSTANTS
  boot = boot
  idle = idle
  w1 = w1
  w2 = w2
  job = job
  TIME_SLICE_TICKS = 5
  SCAN_LIMIT = 1024
  JiffyWrap = 3
  Workers <- MCBuilt
  Returning = {}
  Hooked = FALSE
PROPERTIES NoStarvation
