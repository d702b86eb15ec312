\* Two clients whose streams have the same number one after the other.
SPECIFICATION CooperativeSpec
CONSTANTS
  Conn = {c1, c2}
  StreamId = {s1}
  Fd = {f1}
  PipeFd = pipefd
  Worker = {w1}
  NoStream = NoStream
  BUFFER_COUNT = 2
  MAX_QUEUE = 1
  MAX_WS_FRAME = 0
  MAX_BACKPRESSURE = 8
  U32 = 4
  SOCKBUF = 2
  PIPE_SIZE = 1
  Conforming = TRUE
  Asked = {"tcp"}
  MaxSock = 2
  MaxChunk = 0
  MaxData = 1
INVARIANTS
  EntriesOpen
  OneOwner
  NoDescriptorLeak
PROPERTIES
  LoopReturns
  EndIsSeen
