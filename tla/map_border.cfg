\* Two emerge threads on neighbouring chunks: a block is marked generated blank.
SPECIFICATION MCSpec
CONSTANTS
  left = left
  right = right
  outer = outer
  chunk = chunk
  far = far
  t1 = t1
  t2 = t2
  user = user
  Blocks = {left, right, outer}
  Chunks = {chunk, far}
  ChunkOf <- MCChunkOf
  Area <- MCArea
  OverLimit = {}
  Threads = {t1, t2}
  Users = {user}
  MayFail = FALSE
  MayUnload = FALSE
  None = None
  Scenes <- BorderScenes
INVARIANT GeneratedHasData
CHECK_DEADLOCK FALSE
