\* A TCP stream with a credit of two, used up and given back, and two chunks down.
SPECIFICATION FairSpec
CONSTANTS
  Conn = {c1}
  StreamId = {s1}
  Fd = {f1}
  PipeFd = pipefd
  Worker = {w1}
  NoStream = NoStream
  BUFFER_COUNT = 2
  MAX_QUEUE = 1
  MAX_WS_FRAME = 1
  MAX_BACKPRESSURE = 8
  U32 = 4
  SOCKBUF = 1
  PIPE_SIZE = 1
  Conforming = TRUE
  Asked = {"tcp"}
  MaxSock = 1
  MaxChunk = 2
  MaxData = 3
INVARIANTS
  CreditCovered
  UploadOrder
  DownloadOrder
  BackpressureWillDrain
PROPERTIES
  CreditKept
  RefilledByTraffic
