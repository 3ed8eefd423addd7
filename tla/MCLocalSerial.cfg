SPECIFICATION Spec
CONSTANTS
  Conns = {c1, c2, c3}
  Pids = {1, 2, 3}
  Group <- Grouping
  Dests = {"d1", "d2"}
  NULL = NULL
  MayOverlap <- Processes
  InTime = TRUE
  HeldOpen = TRUE
INVARIANTS
  NoneLost
  NoLeftover
PROPERTY
  IsRendezvous
SYMMETRY ConnSymmetry
