SPECIFICATION FairSpec
CONSTANTS
  main = main
  o1 = o1
  c1 = c1
  f1 = f1
  None = None
  Main = main
  Streams = {o1}
  Cancels = {c1}
  Followers = {f1}
  MaxLines = 1
  MaxFaults = 1
  MaxLogSize = 1
  ChanSize = 1
INVARIANTS
  TypeOK
  ClosedOnce
  LogLimited
  FollowerSeam
PROPERTIES
  SubscribersReleased
CHECK_DEADLOCK FALSE
