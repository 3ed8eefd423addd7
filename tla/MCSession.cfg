SPECIFICATION Spec
CONSTANTS
  MaxData = 2
  HalfClose = TRUE
  EarlyData = FALSE
INVARIANTS
  ModeRespected
  NoLeak
  OneStreamComplete
PROPERTY
  SessionEnds
