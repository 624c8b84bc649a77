\* The same world without unloading: the changes of a user are lost.
SPECIFICATION MCSpec
CONSTANTS
  left = left
  right = right
  outer = outer
  chunk = chunk
  far = far
  t1 = t1
  t2 = t2
  user = user
  Blocks = {left, right, outer}
  Chunks = {chunk, far}
  ChunkOf <- MCChunkOf
  Area <- MCArea
  OverLimit = {far}
  Threads = {t1, t2}
  Users = {user}
  MayFail = TRUE
  MayUnload = FALSE
  None = None
  Scenes <- PairScenes
INVARIANT EditKept
CHECK_DEADLOCK FALSE
