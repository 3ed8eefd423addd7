SPECIFICATION FairSpec
CONSTANTS
  Conns = {c1, c2}
  Pids = {1, 2, 3}
  Group <- Grouping
  Dests = {"d1", "d2"}
  NULL = NULL
  MayOverlap <- Anything
  InTime = FALSE
  HeldOpen = FALSE
INVARIANTS
  TypeOK
  RoutedWithinGroup
PROPERTY
  Served
