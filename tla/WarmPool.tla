------------------------------ MODULE WarmPool ------------------------------
(***************************************************************************)
(* The warm container pool of app/sandbox/pool.py, with the lifespan of     *)
(* app/main.py that starts and stops it.                                    *)
(*                                                                          *)
(* The program is one asyncio event loop.  A step of this specification is  *)
(* what a coroutine does between two suspension points; the coroutines are  *)
(* the replenishers (one background worker per environment and the seeding  *)
(* pass of initialize), the clients (evaluations, which acquire, use and    *)
(* release one container each), the fire-and-forget cleanup tasks and       *)
(* shutdown.  Threads that start a container after its caller stopped       *)
(* waiting are the strays.                                                  *)
(***************************************************************************)
EXTENDS Integers, Sequences, FiniteSets, Functions

CONSTANTS
  Clients,     \* evaluations; each one acquires and releases one container
  Envs,        \* the environments that have an idle queue
  DefaultEnv,  \* the environment that serves an unknown name
  Requests,    \* the environment names a client may ask for
  MinIdle,     \* settings.POOL_MIN_IDLE
  Faults,      \* what may go wrong in the Docker daemon, a subset of AllFaults
  DrainFirst   \* TRUE: the server finishes its requests before shutdown runs

AllFaults == {"create_error", "start_error", "create_timeout", "remove_error"}

ASSUME PoolAssumption ==
  /\ DefaultEnv \in Envs
  /\ MinIdle \in Nat \ {0}
  /\ Faults \subseteq AllFaults
  /\ DrainFirst \in BOOLEAN

VARIABLES
  stage,       \* where the lifespan is: down, up, draining, locked, stopped
  mockMode,    \* _mock_mode, settled by initialize
  fleet,       \* every container instance ever built, in order: its
               \* environment and what the Docker daemon has for it
  idle,        \* _idle_pools: the queue of each environment
  active,      \* _active_containers
  phase,       \* of each replenisher: off, asleep, creating, ended
  pending,     \* its creations that gather still waits for
  made,        \* its creations that gather has, not yet in the queue
  pc,          \* of each client
  asked,       \* the environment name the client passed to acquire
  hand,        \* the container the client's coroutine refers to, 0 if none
  cleaning,    \* containers whose cleanup task has not ended
  doomed,      \* containers shutdown has taken and not yet terminated
  strays,      \* start-up threads nobody waits for any more
  lost,        \* history: containers dropped without being removed
  idleGauge,   \* POOL_IDLE_CONTAINERS, by environment label
  activeGauge  \* POOL_ACTIVE_CONTAINERS, by environment label

lifeVars   == <<stage, mockMode>>
batchVars  == <<phase, pending, made>>
clientVars == <<pc, asked, hand>>
gaugeVars  == <<idleGauge, activeGauge>>
dockerVars == <<fleet, strays, lost>>
vars == <<lifeVars, dockerVars, idle, active, batchVars, clientVars,
          cleaning, doomed, gaugeVars>>

Replenishers == {"seed", "worker"} \X Envs

EnvOf(r) == r[2]

Instance == [env : Envs, docker : {"mock", "running", "removed"}]

Containers == DOMAIN fleet

Running == {c \in Containers : fleet[c].docker = "running"}

\* initialize has returned: the server accepts requests
Serving == stage = "up" /\ \A e \in Envs : phase[<<"seed", e>>] = "ended"

\* shutdown is the only coroutine that suspends while it holds _lock
LockFree == stage # "locked"

\* shutdown has not set _is_running to False
PoolRunning == stage = "up"
-----------------------------------------------------------------------------
Init ==
  /\ stage = "down"
  /\ mockMode = FALSE
  /\ fleet = <<>>
  /\ idle = [e \in Envs |-> <<>>]
  /\ active = {}
  /\ phase = [r \in Replenishers |-> "off"]
  /\ pending = [r \in Replenishers |-> 0]
  /\ made = [r \in Replenishers |-> <<>>]
  /\ pc = [a \in Clients |-> "start"]
  /\ asked = [a \in Clients |-> DefaultEnv]
  /\ hand = [a \in Clients |-> 0]
  /\ cleaning = {}
  /\ doomed = {}
  /\ strays = [e \in Envs |-> 0]
  /\ lost = {}
  /\ idleGauge = [e \in Envs |-> 0]
  /\ activeGauge = [e \in Envs |-> 0]
-----------------------------------------------------------------------------
(***************************************************************************)
(* Containers.                                                              *)
(***************************************************************************)
Real(e) == [env |-> e, docker |-> "running"]
Mock(e) == [env |-> e, docker |-> "mock"]

\* _create_container: the instance it returns is the last one of fleet'.  A
\* daemon that refuses, a start that fails after the container was created
\* and a start-up that times out all end in a mock; the second leaves a
\* container behind and the third a thread that may still start one.
CreateContainer(e) ==
  \/ /\ mockMode
     /\ fleet' = Append(fleet, Mock(e))
     /\ UNCHANGED <<strays, lost>>
  \/ /\ ~mockMode
     /\ fleet' = Append(fleet, Real(e))
     /\ UNCHANGED <<strays, lost>>
  \/ /\ ~mockMode /\ "create_error" \in Faults
     /\ fleet' = Append(fleet, Mock(e))
     /\ UNCHANGED <<strays, lost>>
  \/ /\ ~mockMode /\ "start_error" \in Faults
     /\ fleet' = fleet \o <<Real(e), Mock(e)>>
     /\ lost' = lost \cup {Len(fleet) + 1}
     /\ UNCHANGED strays
  \/ /\ ~mockMode /\ "create_timeout" \in Faults
     /\ fleet' = Append(fleet, Mock(e))
     /\ strays' = [strays EXCEPT ![e] = @ + 1]
     /\ UNCHANGED lost

\* terminate: kills and removes; every failure is swallowed.
Terminate(c) ==
  \/ /\ c \in Running
     /\ fleet' = [fleet EXCEPT ![c].docker = "removed"]
     /\ UNCHANGED lost
  \/ /\ c \in Running /\ "remove_error" \in Faults
     /\ lost' = lost \cup {c}
     /\ UNCHANGED fleet
  \/ /\ c \notin Running
     /\ UNCHANGED <<fleet, lost>>

\* A thread of a creation that timed out, or whose batch was cancelled, ends:
\* its container starts and no instance refers to it, or it never starts.
StrayEnds(e) ==
  /\ strays[e] > 0
  /\ strays' = [strays EXCEPT ![e] = @ - 1]
  /\ \/ /\ fleet' = Append(fleet, Real(e))
        /\ lost' = lost \cup {Len(fleet) + 1}
     \/ UNCHANGED <<fleet, lost>>
  /\ UNCHANGED <<lifeVars, idle, active, batchVars, clientVars, cleaning,
                 doomed, gaugeVars>>
-----------------------------------------------------------------------------
(***************************************************************************)
(* Replenishers: initialize, _replenish_pool and _replenish_worker.         *)
(***************************************************************************)
\* initialize spawns every worker, and its first seeding pass reads its
\* queue, before any of them runs.  Without a daemon it falls back to mocks.
Initialize ==
  /\ stage = "down"
  /\ stage' = "up"
  /\ mockMode' \in BOOLEAN
  /\ \E e \in Envs :
       /\ phase' = [r \in Replenishers |->
                      IF r = <<"seed", e>> THEN "creating" ELSE "asleep"]
       /\ pending' = [pending EXCEPT ![<<"seed", e>>] = MinIdle]
  /\ UNCHANGED <<dockerVars, idle, active, made, clientVars, cleaning, doomed,
                 gaugeVars>>

HideIdle(e, queue) == UNCHANGED idleGauge

\* The idle gauge of an environment is set to the length of its queue.
ShowIdle(e, queue) == idleGauge' = [idleGauge EXCEPT ![e] = Len(queue)]

NeededIgnoringIdle(e) == MinIdle

Needed(e) == MinIdle - Len(idle[e])

MustTopUpUnlessExact(e) == Needed(e) # 0

MustTopUp(e) == Needed(e) > 0

RestOnce(r) == "ended"

\* A worker sleeps and starts over; a seeding pass runs once.
Rest(r) == IF r[1] = "worker" THEN "asleep" ELSE "ended"

\* _replenish_pool up to its gather: the number of creations is fixed here.
\* The seeding passes of initialize run one after the other.
Replenish(r) ==
  LET e == EnvOf(r) IN
  /\ PoolRunning
  /\ phase[r] = "asleep"
  /\ r[1] = "seed" =>
       \A f \in Envs : phase[<<"seed", f>>] # "creating"
  /\ \/ /\ MustTopUp(e)
        /\ phase' = [phase EXCEPT ![r] = "creating"]
        /\ pending' = [pending EXCEPT ![r] = Needed(e)]
        /\ UNCHANGED idleGauge
     \/ /\ ~MustTopUp(e)
        /\ phase' = [phase EXCEPT ![r] = Rest(r)]
        /\ ShowIdle(e, idle[e])
        /\ UNCHANGED pending
  /\ UNCHANGED <<lifeVars, dockerVars, idle, active, made, clientVars,
                 cleaning, doomed, activeGauge>>

\* One of the gathered creations ends.
BatchCreate(r) ==
  /\ pending[r] > 0
  /\ CreateContainer(EnvOf(r))
  /\ pending' = [pending EXCEPT ![r] = @ - 1]
  /\ made' = [made EXCEPT ![r] = Append(@, Len(fleet'))]
  /\ UNCHANGED <<lifeVars, idle, active, phase, clientVars, cleaning, doomed,
                 gaugeVars>>

\* gather returns: the whole batch enters the queue in one step.
BatchPut(r) ==
  LET e == EnvOf(r) IN
  /\ phase[r] = "creating"
  /\ pending[r] = 0
  /\ idle' = [idle EXCEPT ![e] = @ \o made[r]]
  /\ made' = [made EXCEPT ![r] = <<>>]
  /\ phase' = [phase EXCEPT ![r] = Rest(r)]
  /\ ShowIdle(e, idle'[e])
  /\ UNCHANGED <<lifeVars, dockerVars, active, pending, clientVars, cleaning,
                 doomed, activeGauge>>
-----------------------------------------------------------------------------
(***************************************************************************)
(* Clients: acquire and release, as run_evaluation calls them.              *)
(***************************************************************************)
PoolForNobody(q) == DefaultEnv

PoolFor(q) == IF q \in Envs THEN q ELSE DefaultEnv

PeekIdle(e) == UNCHANGED idle

\* The oldest container leaves a queue.
PopIdle(e) == idle' = [idle EXCEPT ![e] = Tail(@)]

\* The end of acquire, under the lock: the gauge of the environment asked
\* for gets the number of active containers of every environment.
EnterActive(e, c) ==
  /\ active' = active \cup {c}
  /\ ShowIdle(e, idle'[e])
  /\ activeGauge' = [activeGauge EXCEPT ![e] = Cardinality(active')]

\* acquire up to its first suspension: get_nowait, and when the lock is free
\* the whole fast path; with an empty queue the client waits for one second.
Acquire(a) ==
  /\ pc[a] = "start"
  /\ Serving \/ (~DrainFirst /\ stage \in {"draining", "locked"})
  /\ \E q \in Requests :
       LET e == PoolFor(q) IN
       /\ asked' = [asked EXCEPT ![a] = q]
       /\ \/ /\ idle[e] = <<>>
             /\ pc' = [pc EXCEPT ![a] = "waiting"]
             /\ UNCHANGED <<idle, hand, active, gaugeVars>>
          \/ /\ idle[e] # <<>>
             /\ PopIdle(e)
             /\ hand' = [hand EXCEPT ![a] = Head(idle[e])]
             /\ \/ /\ LockFree
                   /\ pc' = [pc EXCEPT ![a] = "holding"]
                   /\ EnterActive(e, Head(idle[e]))
                \/ /\ ~LockFree
                   /\ pc' = [pc EXCEPT ![a] = "got"]
                   /\ UNCHANGED <<active, gaugeVars>>
  /\ UNCHANGED <<lifeVars, dockerVars, batchVars, cleaning, doomed>>

\* q.get() inside wait_for takes a container; the client resumes later.
TakeQueued(a) ==
  LET e == PoolFor(asked[a]) IN
  /\ pc[a] = "waiting"
  /\ idle[e] # <<>>
  /\ PopIdle(e)
  /\ hand' = [hand EXCEPT ![a] = Head(idle[e])]
  /\ pc' = [pc EXCEPT ![a] = "got"]
  /\ UNCHANGED <<lifeVars, dockerVars, active, batchVars, asked, cleaning,
                 doomed, gaugeVars>>

NeverGiveUp(a) == FALSE

\* The second is over: the client builds a container of its own.
GiveUp(a) ==
  /\ pc[a] = "waiting"
  /\ pc' = [pc EXCEPT ![a] = "creating"]
  /\ UNCHANGED <<lifeVars, dockerVars, idle, active, batchVars, asked, hand,
                 cleaning, doomed, gaugeVars>>

CreateOnDemand(a) ==
  /\ pc[a] = "creating"
  /\ CreateContainer(PoolFor(asked[a]))
  /\ hand' = [hand EXCEPT ![a] = Len(fleet')]
  /\ pc' = [pc EXCEPT ![a] = "got"]
  /\ UNCHANGED <<lifeVars, idle, active, batchVars, asked, cleaning, doomed,
                 gaugeVars>>

\* acquire gets the lock and returns.
Activate(a) ==
  /\ pc[a] = "got"
  /\ LockFree
  /\ pc' = [pc EXCEPT ![a] = "holding"]
  /\ UNCHANGED <<lifeVars, dockerVars, idle, batchVars, asked, hand, cleaning,
                 doomed>>
  /\ EnterActive(PoolFor(asked[a]), hand[a])

StayActive(c) == UNCHANGED <<active, activeGauge>>

LeaveCountedEarly(c) ==
  /\ active' = active \ {c}
  /\ activeGauge' = [activeGauge EXCEPT ![fleet[c].env] = Cardinality(active)]

\* What release does to the active set and its gauge once it has the lock.
LeaveActive(c) ==
  /\ active' = active \ {c}
  /\ activeGauge' =
       [activeGauge EXCEPT ![fleet[c].env] = Cardinality(active')]

ForgetContainer(c) == UNCHANGED cleaning

\* create_task(_cleanup_container)
StartCleanup(c) == cleaning' = cleaning \cup {c}

\* release: the container leaves the active set and a cleanup task starts.
Release(a) ==
  /\ pc[a] = "holding"
  /\ LockFree
  /\ pc' = [pc EXCEPT ![a] = "done"]
  /\ hand' = [hand EXCEPT ![a] = 0]
  /\ LeaveActive(hand[a])
  /\ StartCleanup(hand[a])
  /\ UNCHANGED <<lifeVars, dockerVars, idle, batchVars, asked, doomed, idleGauge>>

\* _cleanup_container, the task release leaves behind.
CleanupContainer(c) ==
  /\ c \in cleaning
  /\ Terminate(c)
  /\ cleaning' = cleaning \ {c}
  /\ UNCHANGED <<lifeVars, strays, idle, active, batchVars, clientVars, doomed,
                 gaugeVars>>

\* Nobody waits for a cleanup task: the end of the process cancels one that has
\* not handed its removal to a thread.
CleanupCancelled(c) ==
  /\ c \in cleaning /\ stage = "stopped"
  /\ cleaning' = cleaning \ {c}
  /\ lost' = lost \cup ({c} \cap Running)
  /\ UNCHANGED <<lifeVars, fleet, strays, idle, active, batchVars, clientVars,
                 doomed, gaugeVars>>
-----------------------------------------------------------------------------
(***************************************************************************)
(* shutdown.                                                                *)
(***************************************************************************)
KeepWorkers == UNCHANGED batchVars

CancelWorkers ==
  /\ phase' = [r \in Replenishers |-> "ended"]
  /\ made' = [r \in Replenishers |-> <<>>]
  /\ pending' = [r \in Replenishers |-> 0]

\* _is_running is cleared and the workers are cancelled.  A worker inside
\* gather drops the containers it already has, and the threads of its other
\* creations run on.
BeginShutdown ==
  /\ Serving
  /\ DrainFirst => \A a \in Clients : pc[a] \in {"start", "done"}
  /\ stage' = "draining"
  /\ CancelWorkers
  /\ lost' = lost \cup {c \in Running :
                          \E r \in Replenishers : c \in Range(made[r])}
  /\ strays' = [e \in Envs |->
                  strays[e] + IF mockMode THEN 0 ELSE pending[<<"worker", e>>]]
  /\ UNCHANGED <<mockMode, fleet, idle, active, clientVars, cleaning, doomed,
                 gaugeVars>>

\* The drain loop takes the next idle container and awaits its termination.
DrainPop(e) ==
  /\ stage = "draining" /\ doomed = {} /\ idle[e] # <<>>
  /\ doomed' = {Head(idle[e])}
  /\ PopIdle(e)
  /\ UNCHANGED <<lifeVars, dockerVars, active, batchVars, clientVars, cleaning,
                 gaugeVars>>

ShutdownTerminate(c) ==
  /\ c \in doomed
  /\ Terminate(c)
  /\ doomed' = doomed \ {c}
  /\ UNCHANGED <<lifeVars, strays, idle, active, batchVars, clientVars,
                 cleaning, gaugeVars>>

\* The queues are empty: shutdown takes the lock and a copy of the active set.
LockForActive ==
  /\ stage = "draining" /\ doomed = {}
  /\ \A e \in Envs : idle[e] = <<>>
  /\ stage' = "locked"
  /\ doomed' = active
  /\ UNCHANGED <<mockMode, dockerVars, idle, active, batchVars, clientVars,
                 cleaning, gaugeVars>>

FinishShutdown ==
  /\ stage = "locked" /\ doomed = {}
  /\ active' = {}
  /\ stage' = "stopped"
  /\ UNCHANGED <<mockMode, dockerVars, idle, batchVars, clientVars, cleaning,
                 doomed, gaugeVars>>

\* Nothing is left to run: the process may end.
Quiesced ==
  /\ stage = "stopped"
  /\ \A a \in Clients : pc[a] \in {"start", "done"}
  /\ cleaning = {} /\ \A e \in Envs : strays[e] = 0
  /\ UNCHANGED vars
-----------------------------------------------------------------------------
ClientStep(a) ==
  \/ TakeQueued(a) \/ GiveUp(a) \/ CreateOnDemand(a) \/ Activate(a)
  \/ Release(a)

ReplenisherStep(r) == Replenish(r) \/ BatchCreate(r) \/ BatchPut(r)

ShutdownStep ==
  \/ \E e \in Envs : DrainPop(e)
  \/ \E c \in doomed : ShutdownTerminate(c)
  \/ LockForActive \/ FinishShutdown

Next ==
  \/ Initialize
  \/ \E r \in Replenishers : ReplenisherStep(r)
  \/ \E a \in Clients : Acquire(a) \/ ClientStep(a)
  \/ \E c \in cleaning : CleanupContainer(c) \/ CleanupCancelled(c)
  \/ \E e \in Envs : StrayEnds(e)
  \/ BeginShutdown
  \/ ShutdownStep
  \/ Quiesced

Spec == Init /\ [][Next]_vars

\* The event loop runs every coroutine that is ready, and the daemon answers
\* or the call fails; requests and the shutdown signal need never come.
Fairness ==
  /\ \A r \in Replenishers : WF_vars(ReplenisherStep(r))
  /\ \A a \in Clients : WF_vars(ClientStep(a))
  /\ WF_vars(\E c \in cleaning : CleanupContainer(c))
  /\ WF_vars(ShutdownStep)

FairSpec == Spec /\ Fairness
-----------------------------------------------------------------------------
(***************************************************************************)
(* Properties.                                                              *)
(***************************************************************************)
\* Every variable has its type.
TypeOK ==
  /\ stage \in {"down", "up", "draining", "locked", "stopped"}
  /\ mockMode \in BOOLEAN
  /\ fleet \in Seq(Instance)
  /\ idle \in [Envs -> Seq(Containers)]
  /\ active \subseteq Containers
  /\ phase \in [Replenishers -> {"off", "asleep", "creating", "ended"}]
  /\ pending \in [Replenishers -> Nat]
  /\ made \in [Replenishers -> Seq(Containers)]
  /\ pc \in [Clients ->
               {"start", "waiting", "creating", "got", "holding", "done"}]
  /\ asked \in [Clients -> Requests \cup {DefaultEnv}]
  /\ hand \in [Clients -> Containers \cup {0}]
  /\ cleaning \subseteq Containers
  /\ doomed \subseteq Containers
  /\ strays \in [Envs -> Nat]
  /\ lost \subseteq Containers
  /\ idleGauge \in [Envs -> Nat]
  /\ activeGauge \in [Envs -> Nat]

\* A client refers to a container exactly from the moment it has one until it
\* releases it: what makes TypeOK inductive.
HandMatchesPc ==
  \A a \in Clients : hand[a] # 0 <=> pc[a] \in {"got", "holding"}

\* The containers a client's coroutine refers to.
Held == {hand[a] : a \in Clients} \ {0}

Queued == UNION {Range(idle[e]) : e \in Envs}

InBatch == UNION {Range(made[r]) : r \in Replenishers}

Referenced == Held \cup Queued \cup InBatch \cup cleaning \cup doomed

\* Patch isolation (pool.py:199): a container is in one place at a time, one
\* client's hand, one slot of one queue, one batch or one cleanup task.  Two
\* clients racing for a queue, or a batch queued twice, would break it.
Isolation ==
  /\ \A a, b \in Clients : hand[a] # 0 /\ hand[a] = hand[b] => a = b
  /\ Held \cap (Queued \cup InBatch \cup cleaning) = {}
  /\ cleaning \cap (Queued \cup InBatch) = {}
  /\ Queued \cap InBatch = {}
  /\ \A e \in Envs : IsInjective(idle[e])
  /\ \A e, f \in Envs : e # f => Range(idle[e]) \cap Range(idle[f]) = {}

\* _active_containers is exactly what the clients hold until shutdown clears
\* it, and never more than that afterwards: an acquire that was waiting for
\* the lock then enters a set nobody will look at again.
ActiveIsHeld ==
  LET holding == {hand[a] : a \in {b \in Clients : pc[b] = "holding"}} IN
  IF stage = "stopped" THEN active \subseteq holding ELSE active = holding

\* A running container that no coroutine refers to was lost to one of the
\* named causes: a failed start or removal, a start-up that outlived its
\* timeout, a batch cancelled by shutdown, or a cleanup cancelled at the end.
NoSilentLeak == Running \subseteq Referenced \cup lost

\* The containers a replenisher has committed to and not yet queued.
onItsWay == [r \in Replenishers |-> pending[r] + Len(made[r])]

\* A replenisher that is not inside gather has nothing on its way, and before
\* initialize there is nothing at all: what makes OvershootBounded inductive.
BatchMatchesPhase ==
  /\ \A r \in Replenishers :
       phase[r] # "creating" => pending[r] = 0 /\ made[r] = <<>>
  /\ stage = "down" =>
       /\ \A r \in Replenishers : phase[r] = "off"
       /\ \A e \in Envs : idle[e] = <<>>

\* The seeding pass and the worker of an environment each top up from what
\* they saw, so together they may double the queue, but never more: at most
\* one batch of each is on its way.
OvershootBounded ==
  \A e \in Envs :
    /\ onItsWay[<<"worker", e>>] <= MinIdle
    /\ onItsWay[<<"seed", e>>] <= MinIdle
    /\ Len(idle[e]) + onItsWay[<<"worker", e>>] + onItsWay[<<"seed", e>>]
         <= 2 * MinIdle

\* No container is removed under a client that is using it, until shutdown
\* holds the lock and terminates the active set.
HeldIsAlive ==
  stage \in {"down", "up", "draining"} =>
    \A c \in Held : fleet[c].docker # "removed"

\* Once shutdown has returned, the queues stay empty and no replenisher runs.
QuietAfterShutdown ==
  stage = "stopped" =>
    /\ Queued = {} /\ InBatch = {}
    /\ \A r \in Replenishers : phase[r] = "ended"

\* While the pool runs, the idle gauge of an environment is its queue's length
\* unless a client that took one has yet to leave acquire.
IdleGaugeExact ==
  stage = "up" =>
    \A e \in Envs :
      \/ idleGauge[e] = Len(idle[e])
      \/ \E a \in Clients : pc[a] = "got" /\ PoolFor(asked[a]) = e

\* A container that enters or leaves the active set is reported in the same step
\* under its own environment, whatever name the client asked for; what is reported
\* is the size of the whole active set as it now is, under that label alone.  The
\* clean-up at the end of shutdown reports nothing.
ActiveGaugeReported ==
  [][LET Reported(e) ==
           activeGauge' = [activeGauge EXCEPT ![e] = Cardinality(active')]
         Joined == active' \ active
         Left   == active \ active' IN
     /\ stage' = stage =>
          /\ \A c \in Joined : Reported(fleet'[c].env)
          /\ \A c \in Left : Reported(fleet[c].env)
     /\ activeGauge' # activeGauge => \E e \in Envs : Reported(e)]_vars

\* A client that names an environment of the pool gets a container of it, and
\* any other client one of the default environment.
RightRuntime ==
  \A a \in Clients :
    hand[a] # 0 =>
      fleet[hand[a]].env =
        IF asked[a] \in Envs THEN asked[a] ELSE DefaultEnv

\* An acquire returns: at worst the client waits its second and builds a
\* container of its own, even when shutdown runs in between.
AcquireReturns ==
  \A a \in Clients :
    pc[a] \in {"waiting", "creating", "got"} ~> pc[a] = "holding"

\* In the end only warm containers run: every container a client used has been
\* removed, unless Docker refused.
OnlyWarmRemain ==
  <>[](\A c \in Running : c \in Queued \cup InBatch \cup lost)

\* The workers keep the queues warm until shutdown begins.
StaysWarm ==
  (stage = "up") ~> (stage # "up" \/ \A e \in Envs : Len(idle[e]) >= MinIdle)

\* A shutdown ends, whatever the clients are doing.
ShutdownCompletes == stage = "draining" ~> stage = "stopped"
-----------------------------------------------------------------------------
(***************************************************************************)
(* The pool implements SandboxLease: a container is ready while it is in a  *)
(* queue or a batch, leased while a client refers to it, and then spent.    *)
(***************************************************************************)
leaseView ==
  [c \in Containers |->
     IF c \in Queued \cup InBatch THEN "ready"
     ELSE IF c \in Held THEN "leased" ELSE "spent"]

Lease == INSTANCE SandboxLease WITH lease <- leaseView, holds <- hand

\* Every container is leased at most once, to one client, and is never handed
\* out again after its release, whatever the interleaving of acquire, release,
\* replenishment and shutdown.
LeasedOnce == Lease!LeaseSpec
-----------------------------------------------------------------------------
\* What the docstring and the log line of shutdown (pool.py:209, 236) say: no
\* container runs afterwards, but for those release is still removing.
DrainedCompletely == stage = "stopped" => Running \subseteq cleaning

\* What the help text and the label of swe_pool_active_containers
\* (opik_tracker.py:41-45) say: how many containers of an environment are in use.
ActiveGaugePerEnv ==
  stage = "up" =>
    \A e \in Envs :
      activeGauge[e] = Cardinality({c \in active : fleet[c].env = e})
=============================================================================
