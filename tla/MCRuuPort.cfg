SPECIFICATION Spec
CONSTANTS
  RUU_size = 3
  LSQ_size = 2
  ruu_decode_width = 2
  ruu_issue_width = 2
  ruu_commit_width = 2
  Options <- Defaults
  Insts <- PathInsts
  FuTable <- SmallFuTable
  LoadLats = {1, 3}
  MAX_STD_UNKNOWNS = 2
  MaxSeq = 6
INVARIANT
  OneOpPerCycle
