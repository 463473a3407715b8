\* One evaluation and another client over a pool of one environment.
SPECIFICATION Spec
CONSTANTS
  v1 = v1
  o1 = o1
  t1 = t1
  py = py
  Evals = {v1}
  TaskIds = {t1}
  MaxChunks = 0
  None = None
  Envs = {py}
  DefaultEnv = py
  Requests = {py}
  MinIdle = 1
  Faults = {"create_error", "remove_error"}
  Others = {o1}
CHECK_DEADLOCK FALSE
INVARIANTS
  RunHasContainer
PROPERTIES
  RunnerSpec
  PoolSpec
  StopCompletes
