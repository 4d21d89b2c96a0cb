CONSTANTS
  a1 = a1
  c1 = c1
  c2 = c2
  Callers = {a1}
  Loop = Loop
  ServerLoop = ServerLoop
  AppCalls = {c1, c2}
  LoopCalls = {}
  EchoRequests = {c1}
  InlineRequests = {c2}
  BadRequests = {c2}
  HugeRequests = {c1}
  ThreadsMayFail = TRUE
  NULL = NULL
  MaxBev = 2
  MaxId = 1
  Expire = 1
SPECIFICATION SystemSpec
CHECK_DEADLOCK FALSE
INVARIANT TakenOnce
INVARIANT ResultWasAnswered
PROPERTY EndToEndPromise
