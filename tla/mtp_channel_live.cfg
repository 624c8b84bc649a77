\* Channel 0: pings that overtake the queue; every packet arrives.
SPECIFICATION FairSpec
CONSTANTS
  MAX_RELIABLE_WINDOW_SIZE = 5
  SEQNUM_INITIAL = 8
  MIN_RELIABLE_WINDOW_SIZE = 2
  START_RELIABLE_WINDOW_SIZE = 2
  MAX_RELIABLE_WINDOW_SIZE_SEND = 2
  WindowSteps = {0}
  MaxPacketsRequeued = 2
  CommandSizes = {2}
  HasPings = TRUE
  MaxAge = 5
  NetCapacity = 1
  MaxWaiting = 1
  MaxPackets = 3
PROPERTIES Delivered
CHECK_DEADLOCK FALSE
