\* The map, client sessions, async jobs, entities and the sending of blocks, one at a time.
SPECIFICATION ServerSpec
CONSTANTS
  left = left
  right = right
  outer = outer
  chunk = chunk
  far = far
  t1 = t1
  t2 = t2
  user = user
  Blocks = {left, outer}
  Chunks = {chunk, far}
  ChunkOf <- MCChunkOf
  Area <- MCArea
  OverLimit = {far}
  Threads = {t1, t2}
  Users = {user}
  MayFail = TRUE
  MayUnload = TRUE
  None = None
  Scenes <- PairScenes
  Clients = {p1, p2, p3}
  Names = {alice, bob}
  MaxUsers = 1
  Bypass = {bob}
  NoName = NoName
  NoClient = NoClient
  Workers = {1, 2}
  MaxJobs = 3
  NoJob = NoJob
  MaxEntities = 2
  x = x
  MapBlocks = {x, y}
  Ids = {1, 2}
  MaxPerBlock = 1
  Nobody = Nobody
  Nowhere = Nowhere
  Viewers = {fm, stock}
  StockViewers = {stock}
  MaxEdits = 1
  MaxTime = 4
  MaxRequests = 1
  Unknown = Unknown
  Predicted = Predicted
  NoCopy = NoCopy
  Nil = Nil
INVARIANTS OneGenerator
INVARIANTS LoginRaceSafe ActiveHasPlayer UserLimitHeld AccountCreatedOnce NoStateError
INVARIANTS CancelledNeverRuns CallbackStored WakeupForEach
INVARIANTS EntityOnce StaticBacked NoHole
CHECK_DEADLOCK FALSE
