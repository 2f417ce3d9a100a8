SPECIFICATION Spec
CONSTANTS
  Text <- LoopText
  Code <- LoopCode
  Entry = 3
  Options <- SomeOptions
  ifq_size = 2
  decode_width = 2
  fetch_speed = 1
  branch_penalty = 1
  RetSize = 2
  BtbSets = 1
  BtbAssoc = 1
  MissDelays = {1}
  MaxBranches = 2
INVARIANTS
  TypeOK
  CorrectPath
  MisfetchIsBogus
  RasFollowsPath
PROPERTY
  PathAdvances
