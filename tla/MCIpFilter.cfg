SPECIFICATION Spec
CONSTANTS
  Files <- GoodFiles
  ArgLists <- CommandLines
  Length <- LengthOf
  Chopped <- ChoppedOf
  Ips <- Addresses
  LocalIps = {"127.0.0.1", "0.0.0.0", "::1"}
  StrHash <- HashOf
  SetSize = 2
  NULL = NULL
INVARIANTS
  FilterRight
  SetAlgebra
