\* Two emerge threads count down one area of three blocks.
SPECIFICATION AreaSpec
CONSTANTS
  NoThread = NoThread
  AreaBlocks = 3
  AreaThreads = {t1, t2}
INVARIANT CallsRemaining
CHECK_DEADLOCK FALSE
