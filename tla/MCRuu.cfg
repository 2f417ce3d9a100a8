SPECIFICATION Spec
CONSTANTS
  RUU_size = 4
  LSQ_size = 3
  ruu_decode_width = 2
  ruu_issue_width = 2
  ruu_commit_width = 2
  Options <- Defaults
  Insts <- MemInsts
  FuTable <- SmallFuTable
  LoadLats = {1, 3}
  MAX_STD_UNKNOWNS = 3
  MaxSeq = 7
INVARIANTS
  TypeOK
  WakeupExact
  NoPanic
  InSync
  SpecBoundary
  RenameCorrect
  QueuesExact
  LoadAfterStore
