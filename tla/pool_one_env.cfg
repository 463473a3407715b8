\* One environment and two clients that are still acquiring and releasing while
\* shutdown runs: where every container is, and what eventually happens to it.
SPECIFICATION FairSpec
CONSTANTS
  a1 = a1
  a2 = a2
  py = py
  node = node
  unheard = unheard
  Clients <- TwoClients
  Envs = {py}
  DefaultEnv = py
  Requests = {py}
  MinIdle = 1
  Faults = {"create_timeout", "remove_error"}
  DrainFirst = FALSE
INVARIANTS
  TypeOK
  Isolation
  ActiveIsHeld
  NoSilentLeak
  HeldIsAlive
  QuietAfterShutdown
PROPERTIES
  LeasedOnce
  AcquireReturns
  OnlyWarmRemain
  StaysWarm
  ShutdownCompletes
