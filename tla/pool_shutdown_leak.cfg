\* Shutdown cancels a worker that is filling its queue.
SPECIFICATION Spec
CONSTANTS
  a1 = a1
  a2 = a2
  py = py
  node = node
  unheard = unheard
  Clients <- TwoClients
  Envs = {py}
  DefaultEnv = py
  Requests = {py}
  MinIdle = 1
  Faults <- NoFaults
  DrainFirst = TRUE
INVARIANT
  DrainedCompletely
