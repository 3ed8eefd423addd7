SPECIFICATION Spec
CONSTANTS
  Items = {i1, i2, i3, i4, i5}
  Keys = {"k1", "k2", "k3"}
  Hash <- HashValues
  HASH_INITIAL_NUM_BUCKETS = 2
  HASH_BKT_CAPACITY_THRESH = 3
  MaxBuckets = 8
  NULL = NULL
INVARIANTS
  Fsck
  NewestFirst
  ChainBounded
PROPERTY
  IsMultimap
SYMMETRY ItemSymmetry
