------------------------------ MODULE Harness ------------------------------
(***************************************************************************)
(* The service: evaluations (EvalRunner) over the warm pool (WarmPool) and  *)
(* the lifespan of app/main.py, which starts and stops the pool.            *)
(*                                                                          *)
(* An evaluation is the pool's client of the same name.  Asking the pool    *)
(* and giving the container back are joint steps; everything else one of    *)
(* the two does alone.  Other evaluations are seen only as clients of the   *)
(* pool, so that there is somebody to wait for.  Streams do not touch the   *)
(* pool and are left to EvalRunner.                                         *)
(***************************************************************************)
EXTENDS Naturals, Sequences

CONSTANTS
  Evals, TaskIds, MaxChunks, None,             \* see EvalRunner
  Envs, DefaultEnv, Requests, MinIdle, Faults, \* see WarmPool
  Others                                       \* clients that are no Evals

VARIABLES
  registry, runPc, taskOf, status, response, events, taken, chunks, sandbox,
  outcome, evalTotal, conn, reader, stopping,  \* see EvalRunner
  stage, mockMode, fleet, idle, active, phase, pending, made, poolPc, asked,
  hand, cleaning, doomed, strays, lost, idleGauge, activeGauge  \* see WarmPool

Runner == INSTANCE EvalRunner WITH pc <- runPc, Streams <- {}

Pool == INSTANCE WarmPool WITH Clients <- Evals \cup Others, pc <- poolPc,
                               DrainFirst <- TRUE

ASSUME HarnessAssumption ==
  /\ Others \cap Evals = {}
  /\ MaxChunks \in Nat /\ None \notin Evals \cup Runner!Verdict
  /\ DefaultEnv \in Envs /\ MinIdle \in Nat \ {0}
  /\ Faults \subseteq Pool!AllFaults

runnerVars == <<registry, runPc, taskOf, status, response, events, taken, chunks,
                sandbox, outcome, evalTotal, conn, reader, stopping>>
poolVars == <<stage, mockMode, fleet, idle, active, phase, pending, made, poolPc,
              asked, hand, cleaning, doomed, strays, lost, idleGauge,
              activeGauge>>
vars == <<runnerVars, poolVars>>

Init == Runner!Init /\ Pool!Init
-----------------------------------------------------------------------------
(***************************************************************************)
(* Requests, which the server passes on once initialize has returned.       *)
(***************************************************************************)
PostAsync(v) ==
  /\ Pool!Serving
  /\ Runner!PostAsync(v)
  /\ UNCHANGED poolVars

\* The run asks for a container.
Begin(v) == Runner!Begin(v) /\ Pool!Acquire(v)
-----------------------------------------------------------------------------
(***************************************************************************)
(* Runs.                                                                    *)
(***************************************************************************)
GrantedEarly(v) == poolPc[v] \in {"creating", "got", "holding"}

GrantedWarm(v) == poolPc[v] = "holding" /\ fleet[hand[v]].docker = "running"

\* acquire has returned; a mock is as good as a container.
Granted(v) == poolPc[v] = "holding"

KeepContainer(v) == UNCHANGED poolVars

GiveBack(v) == Pool!Release(v)

\* A step of a run.  acquire never raises: a container that cannot be built is
\* replaced by a mock.
RunStep(v) ==
  \/ /\ Runner!Complete(v) \/ Runner!RejectedReleased(v)
     /\ GiveBack(v)
  \/ /\ \/ Granted(v) /\ Runner!Acquired(v)
        \/ Runner!CheckedOut(v) \/ Runner!Chunk(v) \/ Runner!StreamOver(v)
        \/ Runner!BaseExecuted(v) \/ Runner!PatchGoesOn(v)
        \/ Runner!PatchRefused(v) \/ Runner!PatchApplied(v)
        \/ Runner!PatchedExecuted(v)
     /\ UNCHANGED poolVars
-----------------------------------------------------------------------------
(***************************************************************************)
(* The pool, between acquire and release, and in the background.            *)
(***************************************************************************)
AcquireStep(a) ==
  /\ \/ Pool!TakeQueued(a) \/ Pool!GiveUp(a) \/ Pool!CreateOnDemand(a)
     \/ Pool!Activate(a)
  /\ UNCHANGED runnerVars

OtherBegins(o) ==
  /\ ~stopping
  /\ Pool!Acquire(o)
  /\ UNCHANGED runnerVars

OtherEnds(o) == Pool!Release(o) /\ UNCHANGED runnerVars

Replenish(r) == Pool!ReplenisherStep(r) /\ UNCHANGED runnerVars

Cleanup ==
  /\ \E c \in cleaning : Pool!CleanupContainer(c)
  /\ UNCHANGED runnerVars

\* Start-up, and what no other step waits for.
Background ==
  /\ \/ Pool!Initialize
     \/ \E e \in Envs : Pool!StrayEnds(e)
     \/ \E c \in cleaning : Pool!CleanupCancelled(c)
  /\ UNCHANGED runnerVars
-----------------------------------------------------------------------------
(***************************************************************************)
(* The stop.                                                                *)
(***************************************************************************)
Stop == Pool!Serving /\ Runner!Stop /\ UNCHANGED poolVars

ShutdownAtOnce == stopping

\* The server waits for its requests and background runs before the lifespan
\* goes on.
MayShutDown == stopping /\ Runner!Drained

BeginShutdown ==
  /\ MayShutDown
  /\ Pool!BeginShutdown
  /\ UNCHANGED runnerVars

ShutdownStep == Pool!ShutdownStep /\ UNCHANGED runnerVars
-----------------------------------------------------------------------------
Next ==
  \/ \E v \in Evals : PostAsync(v) \/ Begin(v) \/ RunStep(v)
  \/ \E a \in Evals \cup Others : AcquireStep(a)
  \/ \E o \in Others : OtherBegins(o) \/ OtherEnds(o)
  \/ \E r \in Pool!Replenishers : Replenish(r)
  \/ Cleanup \/ Background
  \/ Stop \/ BeginShutdown \/ ShutdownStep

\* What is ready runs.  Nothing is assumed of the pool towards a run, nor of a
\* run towards the pool.
Fairness ==
  /\ \A v \in Evals :
       WF_vars(RunStep(v)) /\ WF_vars(runPc[v] = "queued" /\ Begin(v))
  /\ \A a \in Evals \cup Others : WF_vars(AcquireStep(a))
  /\ \A o \in Others : WF_vars(OtherEnds(o))
  /\ \A r \in Pool!Replenishers : WF_vars(Replenish(r))
  /\ WF_vars(Cleanup) /\ WF_vars(BeginShutdown) /\ WF_vars(ShutdownStep)

Spec == Init /\ [][Next]_vars /\ Fairness
-----------------------------------------------------------------------------
(***************************************************************************)
(* Properties.                                                              *)
(***************************************************************************)
\* A run that uses its container has one of its own in the active set, which is
\* not removed and not about to be: neither a release of another run nor the
\* shutdown takes it away while a command may run in it.
RunHasContainer ==
  \A v \in Evals : sandbox[v] = "held" =>
    /\ hand[v] \in active \ (cleaning \cup doomed)
    /\ fleet[hand[v]].docker # "removed"
    /\ \A a \in Evals \cup Others : a # v => hand[a] # hand[v]

\* The pool behaves towards the runs as EvalRunner assumes: every acquire
\* returns, so what holds of FairSpec there holds of the service.
RunnerSpec == Runner!FairSpec

\* The runs behave towards the pool as WarmPool assumes: every client that got
\* a container lets go of it.
PoolSpec == Pool!FairSpec

\* A stop is carried out, with the runs of that moment finished, queued ones
\* included.
StopCompletes ==
  stopping ~> /\ stage = "stopped"
              /\ \A v \in Evals : runPc[v] \in {"new", "finished"}
=============================================================================
