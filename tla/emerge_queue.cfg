SPECIFICATION Spec
CONSTANTS
  Positions = {p, q}
  OverLimit = {q}
  NumThreads = 2
  Callers = {env}
  Peers = {peer}
  NoPeer = NoPeer
  QLimitTotal = 2
  QLimitDiskonly = 2
  QLimitGenerate = 1
  LuaAgents = {1}
  MayThrow = TRUE
  InitMayFail = TRUE
  Maintenance = TRUE
  MaxCalls = 1
  Nobody = Nobody
CHECK_DEADLOCK FALSE
INVARIANTS QueuedOnce CountsAgree NoLostWakeup CallbackOnce QueueLimited
