\* Two evaluations whose requests carry one task id, and a stream.
SPECIFICATION FairSpec
CONSTANTS
  v1 = v1
  v2 = v2
  s1 = s1
  s2 = s2
  t1 = t1
  t2 = t2
  Evals = {v1, v2}
  TaskIds = {t1}
  Streams = {s1}
  MaxChunks = 0
  None = None
CHECK_DEADLOCK FALSE
INVARIANTS
  VerdictSound
  CountersMatch
  SandboxGivenBack
PROPERTIES
  StatusForward
  EvalFinishes
