\* Buffer, window, split packets, peers, handshake and meshes, one at a time.
SPECIFICATION MCSpec
CONSTANTS
  MAX_RELIABLE_WINDOW_SIZE = 6
  NoSeqnum = NoSeqnum
  MIN_RELIABLE_WINDOW_SIZE = 2
  START_RELIABLE_WINDOW_SIZE = 3
  MAX_RELIABLE_WINDOW_SIZE_SEND = 9
  BigStep = 4
  SmallStep = 2
  BlindStep = 1
  RateSeconds = 2
  MaxCounted = 8
  SplitNumbers = 2
  ChunkCounts = {2, 3}
  MaxSplits = 4
  NoEntry = NoEntry
  Addresses = {c1}
  MaxPeers = 2
  MaxEvents = 2
  NoPeer = NoPeer
  MaxSessions = 2
  MaxReliables = 2
  MaxReminders = 1
  p1 = p1
  p2 = p2
  Meshes = {p1, p2}
  Faces <- NoFaces
  Touching <- EdgeTouching
  Workers = {w1, w2}
  UrgentWorker = urgentWorker
  Lods = {0, 1}
  MaxRevision = 2
  MaxTurns = 1
  MaxResults = 1
  NoMesh = NoMesh
INVARIANTS HandedWhole ReliableSplitsKept
INVARIANTS FreedInTime EventsInOrder
INVARIANTS OpenIsMutual
INVARIANTS UrgentsQueued GivenUpForNewer
PROPERTIES SetSpec OnlyBigSteps LossDecides OnlyQueuedUnpatched
CHECK_DEADLOCK FALSE
