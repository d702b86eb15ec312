SPECIFICATION Spec
CONSTANTS
  Conn = {c1}
  StreamId = {s1}
  Fd = {f1, f2}
  PipeFd = pipefd
  Worker = {w1, w2}
  NoStream = NoStream
  BUFFER_COUNT = 1
  MAX_QUEUE = 1
  MAX_WS_FRAME = 0
  MAX_BACKPRESSURE = 0
  U32 = 2
  SOCKBUF = 1
  PIPE_SIZE = 1
  Conforming = FALSE
  Asked = {"tcp", "udp"}
  MaxSock = 2
  MaxChunk = 0
  MaxData = 2
SYMMETRY Symmetry
INVARIANTS
  TypeOK
  WriterHoldsStream
PROPERTIES
  PollUndisturbed
