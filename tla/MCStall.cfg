SPECIFICATION FairSpec
CONSTANTS
  Conn = {c1}
  StreamId = {s1}
  Fd = {f1}
  PipeFd = pipefd
  Worker = {w1}
  NoStream = NoStream
  BUFFER_COUNT = 1
  MAX_QUEUE = 1
  MAX_WS_FRAME = 0
  MAX_BACKPRESSURE = 8
  U32 = 4
  SOCKBUF = 1
  PIPE_SIZE = 1
  Conforming = TRUE
  Asked = {"tcp"}
  MaxSock = 1
  MaxChunk = 0
  MaxData = 1
PROPERTIES
  Replenished
