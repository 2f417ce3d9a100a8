\* Two 2-way sets over six blocks, against the textbook cache.
SPECIFICATION Spec
CONSTANTS
  NSets = 2
  Assoc = 2
  NTags = 3
  FreqMod = 1
  StrideTableSize = 1
  StrideIndex <- MCStrideIndex
  Policies = {"LRU", "FIFO"}
  Prefetchers = {"none", "next_line"}
PROPERTY StackSpec
CHECK_DEADLOCK FALSE
VIEW LiveState
