\* Three threads, ranges of up to three indices, divided into one to three blocks.
SPECIFICATION FairLoopSpec
CONSTANTS
  N = 3
  MaxTask = 3
  Index = {0, 1, 2, 3, 4}
  First = {1}
  MaxBlocks = 2
INVARIANTS TypeOK RunningExact Divided NeverTwice DoneIsDone
PROPERTIES Implements DestructorReturns CallReturns
