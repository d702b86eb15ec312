\* Two streams, so that the number of a closed one can be reused, every way to
\* start, and a pipe that one wake fills.
SPECIFICATION CooperativeSpec
CONSTANTS
  Concurrency = {0, 1, 2, 3, 4}
  U32 = 4096
  MaxThreads = 8
  Stream = {s1, s2}
  MaxTasks = 1
  PIPE_SIZE = 1
INVARIANT TornDownInOrder
PROPERTIES InterruptEnds ExitEnds RefusesSmall
CHECK_DEADLOCK FALSE
