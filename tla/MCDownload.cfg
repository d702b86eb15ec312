\* Two clients and two numbers: a number may pass from one to the other, or not.
SPECIFICATION Spec
CONSTANTS
  Conn = {c1, c2}
  StreamId = {s1}
  Fd = {f1, f2}
  PipeFd = pipefd
  Worker = {w1}
  NoStream = NoStream
  BUFFER_COUNT = 1
  MAX_QUEUE = 1
  MAX_WS_FRAME = 1
  MAX_BACKPRESSURE = 8
  U32 = 4
  SOCKBUF = 1
  PIPE_SIZE = 1
  Conforming = TRUE
  Asked = {"tcp"}
  MaxSock = 2
  MaxChunk = 1
  MaxData = 0
SYMMETRY Symmetry
INVARIANTS
  CloseIsLast
  AstrayByReuse
  ClosedIsSilent
  QueueLenExact
  UnwatchedIsClosing
