\* Two 2-way sets over six blocks; every policy that ignores freq_count,
\* without a prefetcher and with the next-line one.
SPECIFICATION Spec
CONSTANTS
  NSets = 2
  Assoc = 2
  NTags = 3
  FreqMod = 1
  StrideTableSize = 1
  StrideIndex <- MCStrideIndex
  Policies = {"LRU", "FIFO", "Random"}
  Prefetchers = {"none", "next_line"}
INVARIANTS  NoDuplicateBlocks LastBlkCoherent DirtyIsUnsaved FastHitIsMRU InvalidAtTail
CHECK_DEADLOCK FALSE
VIEW LiveState
