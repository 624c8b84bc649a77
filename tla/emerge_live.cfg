SPECIFICATION FairSpec
CONSTANTS
  Positions = {p, q}
  OverLimit = {}
  NumThreads = 2
  Callers = {env}
  Peers = {}
  NoPeer = NoPeer
  QLimitTotal = 2
  QLimitDiskonly = 2
  QLimitGenerate = 1
  LuaAgents = {env}
  MayThrow = FALSE
  InitMayFail = FALSE
  Maintenance = FALSE
  MaxCalls = 1
  Nobody = Nobody
CHECK_DEADLOCK FALSE
INVARIANTS CallbackKept
PROPERTIES Served CallbackRuns StopEnds
