\* Two streams of one evaluation.
SPECIFICATION FairSpec
CONSTANTS
  v1 = v1
  v2 = v2
  s1 = s1
  s2 = s2
  t1 = t1
  t2 = t2
  Evals = {v1}
  TaskIds = {t1}
  Streams = {s1, s2}
  MaxChunks = 2
  None = None
CHECK_DEADLOCK FALSE
INVARIANTS
  TypeOK
  DoneOnce
  ClosedMeansOver
PROPERTIES
  ErrorDelivered
  GracefulStop
