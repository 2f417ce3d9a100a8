\* Direct-mapped dl1 and il1 of two sets over a direct-mapped dl2 with blocks
\* twice as large.
SPECIFICATION Spec
CONSTANTS
  NSets1 = 2
  Assoc1 = 1
  NTags1 = 4
  NSets2 = 2
  Assoc2 = 1
  NTags2 = 2
  Ratio = 2
  FreqMod = 1
  StrideTableSize = 1
  StrideIndex <- MCStrideIndex
  Policies = {"LRU"}
  Prefetchers = {"none", "next_line"}
  Il1Opts = {"il1", "dl1", "dl2"}
  TextBlocks = {2, 6}
INVARIANTS NewestIsHeld FlushReachesMemory
CHECK_DEADLOCK FALSE
VIEW LiveState
