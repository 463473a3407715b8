\* Both environments and a name the pool does not know; containers that fail to
\* start, and a server that finishes its requests before shutdown.
SPECIFICATION Spec
CONSTANTS
  a1 = a1
  a2 = a2
  py = py
  node = node
  unheard = unheard
  Clients <- TwoClients
  Envs = {py, node}
  DefaultEnv = py
  Requests = {py, node, unheard}
  MinIdle = 1
  Faults = {"start_error"}
  DrainFirst = TRUE
SYMMETRY ClientSymmetry
INVARIANTS
  RightRuntime
  OvershootBounded
  IdleGaugeExact
PROPERTY
  ActiveGaugeReported
