\* A circle of 8 numbers, gone round once and more: commands of one and two
\* chunks, and a window that shrinks to one packet and grows again.
SPECIFICATION Spec
CONSTANTS
  MAX_RELIABLE_WINDOW_SIZE = 4
  SEQNUM_INITIAL = 6
  MIN_RELIABLE_WINDOW_SIZE = 1
  START_RELIABLE_WINDOW_SIZE = 1
  MAX_RELIABLE_WINDOW_SIZE_SEND = 2
  WindowSteps <- MCWindowSteps
  MaxPacketsRequeued = 1
  CommandSizes = {1, 2}
  HasPings = FALSE
  MaxAge = 4
  NetCapacity = 2
  MaxWaiting = 1
  MaxPackets = 9
INVARIANTS SpanOK NoCorruption Retransmittable
PROPERTIES AckedIsReceived FifoSpec
CHECK_DEADLOCK FALSE
