\* Two environments share the active gauge.
SPECIFICATION Spec
CONSTANTS
  a1 = a1
  a2 = a2
  py = py
  node = node
  unheard = unheard
  Clients <- TwoClients
  Envs = {py, node}
  DefaultEnv = py
  Requests = {py, node, unheard}
  MinIdle = 1
  Faults <- NoFaults
  DrainFirst = TRUE
INVARIANT
  ActiveGaugePerEnv
