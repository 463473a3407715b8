\* Two runs of up to two commands each, over two threads.
SPECIFICATION FairSpec
CONSTANTS
  r1 = r1
  r2 = r2
  Runs = {r1, r2}
  Threads = 2
  Commands = 2
  None = None
CHECK_DEADLOCK FALSE
INVARIANTS
  TypeOK
  ThreadsAccounted
PROPERTIES
  ExecAnswered
  StreamEnds
  CallReturns
