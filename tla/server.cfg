CONSTANTS
  k1 = k1 k2 = k2 e1 = e1 n1 = n1
  Conns = {k1, k2} EchoRequests = {e1} InlineRequests = {n1} JunkRequests = {e1, n1}
  Loop = Loop NULL = NULL ThreadsMayFail = TRUE
  HugeRequests = {n1}
SPECIFICATION FairSpec
CHECK_DEADLOCK FALSE
INVARIANT RefcntIsHolders
INVARIANT NoUseAfterFree
INVARIANT FramesWhole
INVARIANT AnsweredOnce
PROPERTY ClientFreed
PROPERTY ClosureRuns
