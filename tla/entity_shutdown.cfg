\* One entity, two blocks, until the server has stopped.
SPECIFICATION ObjectsSpec
CONSTANTS
  MaxEntities = 1
  MapBlocks = {x, y}
  Ids = {1, 2}
  MaxPerBlock = 1
  Nobody = Nobody
  Nowhere = Nowhere
INVARIANT EntitiesSaved
CHECK_DEADLOCK FALSE
