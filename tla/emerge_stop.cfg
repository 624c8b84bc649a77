SPECIFICATION FairSpec
CONSTANTS
  Positions = {p, q}
  OverLimit = {}
  NumThreads = 1
  Callers = {env}
  Peers = {peer}
  NoPeer = NoPeer
  QLimitTotal = 2
  QLimitDiskonly = 2
  QLimitGenerate = 1
  LuaAgents = {env, 1}
  MayThrow = FALSE
  InitMayFail = FALSE
  Maintenance = FALSE
  MaxCalls = 2
  Nobody = Nobody
CHECK_DEADLOCK FALSE
PROPERTIES StopEnds
