CONSTANTS
  c1 = c1
  c2 = c2
  Calls = {c1, c2}
  ThreadsMayFail = TRUE
  DispatchMayFail = TRUE
SPECIFICATION FairSpec
CHECK_DEADLOCK FALSE
INVARIANT FreedAfterWorker
PROPERTY DestructorsReturn
PROPERTY ReturnUnlessOvertaken
