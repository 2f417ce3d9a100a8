\* A 2-way LRU cache with the stride prefetcher.
SPECIFICATION Spec
CONSTANTS
  NSets = 2
  Assoc = 2
  NTags = 4
  FreqMod = 1
  StrideTableSize = 2
  StrideIndex <- MCStrideIndex
  Policies = {"LRU"}
  Prefetchers = {"stride"}
INVARIANT LastBlkCoherent
CHECK_DEADLOCK FALSE
VIEW LiveState
