\* One 2-way set over four blocks with the stride prefetcher: every prefetch
\* competes with the access that issues it.
SPECIFICATION Spec
CONSTANTS
  NSets = 1
  Assoc = 2
  NTags = 4
  FreqMod = 1
  StrideTableSize = 1
  StrideIndex <- MCStrideIndex
  Policies = {"LRU", "FIFO", "Random"}
  Prefetchers = {"stride"}
INVARIANTS TypeOK NoDuplicateBlocks InvalidAtTail
CHECK_DEADLOCK FALSE
VIEW LiveState
