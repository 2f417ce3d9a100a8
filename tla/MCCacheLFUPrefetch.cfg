\* Two 2-way LFU sets with the next-line prefetcher.
SPECIFICATION LFUSpec
CONSTANTS
  NSets = 2
  Assoc = 2
  NTags = 3
  FreqMod = 5
  MaxUses = 3
  StrideTableSize = 1
  StrideIndex <- MCStrideIndex
  Policies = {"LFU"}
  Prefetchers = {"next_line"}
PROPERTY EvictsLeastUsed
CHECK_DEADLOCK FALSE
VIEW LiveState
