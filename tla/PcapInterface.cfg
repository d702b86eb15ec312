\* Two pool threads and the loop thread on one capture; sequence numbers wrap at 6.
SPECIFICATION Spec
CONSTANTS
  Worker = {w1, w2}
  Loop = loop
  Length = {0, 2}
  U32 = 6
  MaxFrames = 7
  MaxData = 2
INVARIANTS Conversation WrittenIsCaptured WritersHaveCapture
CHECK_DEADLOCK FALSE
