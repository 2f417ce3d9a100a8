\* One 2-way LFU set over four blocks; counters never reach FreqMod - 1.
SPECIFICATION LFUSpec
CONSTANTS
  NSets = 1
  Assoc = 2
  NTags = 4
  FreqMod = 6
  MaxUses = 4
  StrideTableSize = 1
  StrideIndex <- MCStrideIndex
  Policies = {"LFU"}
  Prefetchers = {"none"}
INVARIANT FreqIsUses
PROPERTIES EvictsLeastUsed WriteBackSpec
CHECK_DEADLOCK FALSE
VIEW LiveState
