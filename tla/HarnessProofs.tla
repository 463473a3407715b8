--------------------------- MODULE HarnessProofs ---------------------------
(***************************************************************************)
(* Theorems about Harness: the service is a pool and a set of runs that     *)
(* behave as WarmPool and EvalRunner say, so what is proved of each of them *)
(* holds in it, and no run loses the container it uses.                     *)
(***************************************************************************)
EXTENDS Harness, TLAPS

\* What is proved about the pool.
PoolFacts == INSTANCE PoolPlacesProofs WITH Clients <- Evals \cup Others,
                                            pc <- poolPc, DrainFirst <- TRUE
-----------------------------------------------------------------------------
(***************************************************************************)
(* The components of the service.                                           *)
(***************************************************************************)
\* A step of the service is a step of the pool or leaves it alone.
LEMMA PoolStep == [Next]_vars => [Pool!Next]_Pool!vars
<1> SUFFICES ASSUME [Next]_vars PROVE Pool!Next \/ UNCHANGED Pool!vars
  OBVIOUS
<1>1. UNCHANGED poolVars => UNCHANGED Pool!vars
  BY DEF poolVars, Pool!vars, Pool!lifeVars, Pool!dockerVars, Pool!batchVars,
         Pool!clientVars, Pool!gaugeVars
<1>2. ASSUME NEW v \in Evals, PostAsync(v) \/ Begin(v) \/ RunStep(v)
      PROVE  Pool!Next \/ UNCHANGED poolVars
  BY <1>2 DEF PostAsync, Begin, RunStep, GiveBack, Pool!Next, Pool!ClientStep
<1>3. ASSUME NEW a \in Evals \cup Others, AcquireStep(a) PROVE Pool!Next
  BY <1>3 DEF AcquireStep, Pool!Next, Pool!ClientStep
<1>4. ASSUME NEW o \in Others, OtherBegins(o) \/ OtherEnds(o) PROVE Pool!Next
  BY <1>4 DEF OtherBegins, OtherEnds, Pool!Next, Pool!ClientStep
<1>5. CASE \/ \E r \in Pool!Replenishers : Replenish(r)
           \/ Cleanup \/ Background \/ Stop \/ BeginShutdown \/ ShutdownStep
  BY <1>1, <1>5
  DEF Replenish, Cleanup, Background, Stop, BeginShutdown,
              ShutdownStep, Pool!Next
<1>6. CASE UNCHANGED vars
  BY <1>1, <1>6 DEF vars
<1>7. QED  BY <1>1, <1>2, <1>3, <1>4, <1>5, <1>6 DEF Next

\* A step of the service is a step of the runs or leaves them alone.
LEMMA RunnerStep == [Next]_vars => [Runner!Next]_Runner!vars
<1> SUFFICES ASSUME [Next]_vars PROVE Runner!Next \/ UNCHANGED Runner!vars
  OBVIOUS
<1>1. UNCHANGED runnerVars => UNCHANGED Runner!vars
  BY DEF runnerVars, Runner!vars, Runner!runVars, Runner!streamVars,
         Runner!answerVars, Runner!workVars
<1>2. ASSUME NEW v \in Evals, PostAsync(v) \/ Begin(v) \/ RunStep(v)
      PROVE  Runner!Next
  BY <1>2 DEF PostAsync, Begin, RunStep, Runner!Next, Runner!RunStep
<1>3. CASE \/ \E a \in Evals \cup Others : AcquireStep(a)
           \/ \E o \in Others : OtherBegins(o) \/ OtherEnds(o)
           \/ \E r \in Pool!Replenishers : Replenish(r)
           \/ Cleanup \/ Background \/ BeginShutdown \/ ShutdownStep
  BY <1>1, <1>3 DEF AcquireStep, OtherBegins, OtherEnds, Replenish, Cleanup,
                    Background, BeginShutdown, ShutdownStep
<1>4. CASE Stop
  BY <1>4 DEF Stop, Runner!Next
<1>5. CASE UNCHANGED vars
  BY <1>1, <1>5 DEF vars
<1>6. QED  BY <1>2, <1>3, <1>4, <1>5 DEF Next

\* The service implements both components: the pool with clients that do only
\* what WarmPool lets them do, and runs that get from the pool only what
\* EvalRunner says.  (That they are also fair to each other is checked by TLC.)
THEOREM ComponentsImplemented == Spec => Runner!Spec /\ Pool!Spec
<1>1. Init => Runner!Init /\ Pool!Init
  BY DEF Init
<1>2. QED  BY <1>1, PoolStep, RunnerStep, PTL DEF Spec, Runner!Spec, Pool!Spec
-----------------------------------------------------------------------------
(***************************************************************************)
(* The two instances of WarmPool, the one the service is made of and the    *)
(* one the facts are about, have the same definitions.                      *)
(***************************************************************************)
\* Action by action.
LEMMA SamePoolActions ==
  /\ Pool!Initialize => PoolFacts!Initialize
  /\ \A r : Pool!Replenish(r) => PoolFacts!Replenish(r)
  /\ \A r : Pool!BatchCreate(r) => PoolFacts!BatchCreate(r)
  /\ \A r : Pool!BatchPut(r) => PoolFacts!BatchPut(r)
  /\ \A a : Pool!Acquire(a) => PoolFacts!Acquire(a)
  /\ \A a : Pool!TakeQueued(a) => PoolFacts!TakeQueued(a)
  /\ \A a : Pool!GiveUp(a) => PoolFacts!GiveUp(a)
  /\ \A a : Pool!CreateOnDemand(a) => PoolFacts!CreateOnDemand(a)
  /\ \A a : Pool!Activate(a) => PoolFacts!Activate(a)
  /\ \A a : Pool!Release(a) => PoolFacts!Release(a)
  /\ \A c : Pool!CleanupContainer(c) => PoolFacts!CleanupContainer(c)
  /\ \A c : Pool!CleanupCancelled(c) => PoolFacts!CleanupCancelled(c)
  /\ \A e : Pool!StrayEnds(e) => PoolFacts!StrayEnds(e)
  /\ Pool!BeginShutdown => PoolFacts!BeginShutdown
  /\ \A e : Pool!DrainPop(e) => PoolFacts!DrainPop(e)
  /\ \A c : Pool!ShutdownTerminate(c) => PoolFacts!ShutdownTerminate(c)
  /\ Pool!LockForActive => PoolFacts!LockForActive
  /\ Pool!FinishShutdown => PoolFacts!FinishShutdown
<1> USE DEF Pool!lifeVars, PoolFacts!lifeVars, Pool!dockerVars,
            PoolFacts!dockerVars, Pool!batchVars, PoolFacts!batchVars,
            Pool!clientVars, PoolFacts!clientVars, Pool!gaugeVars,
            PoolFacts!gaugeVars, Pool!Replenishers, PoolFacts!Replenishers
<1>1. ASSUME Pool!Initialize PROVE PoolFacts!Initialize
  BY <1>1 DEF Pool!Initialize, PoolFacts!Initialize
<1>2. ASSUME NEW r, Pool!Replenish(r) PROVE PoolFacts!Replenish(r)
  BY <1>2 DEF Pool!Replenish, PoolFacts!Replenish, Pool!EnvOf, PoolFacts!EnvOf,
     Pool!PoolRunning, PoolFacts!PoolRunning, Pool!MustTopUp,
     PoolFacts!MustTopUp, Pool!Needed, PoolFacts!Needed, Pool!Rest,
     PoolFacts!Rest, Pool!ShowIdle, PoolFacts!ShowIdle
<1>3. ASSUME NEW r, Pool!BatchCreate(r) PROVE PoolFacts!BatchCreate(r)
  BY <1>3 DEF Pool!BatchCreate, PoolFacts!BatchCreate, Pool!EnvOf,
     PoolFacts!EnvOf, Pool!CreateContainer, PoolFacts!CreateContainer,
     Pool!Real, PoolFacts!Real, Pool!Mock, PoolFacts!Mock
<1>4. ASSUME NEW r, Pool!BatchPut(r) PROVE PoolFacts!BatchPut(r)
  BY <1>4 DEF Pool!BatchPut, PoolFacts!BatchPut, Pool!EnvOf, PoolFacts!EnvOf,
     Pool!Rest, PoolFacts!Rest, Pool!ShowIdle, PoolFacts!ShowIdle
<1>5. ASSUME NEW a, Pool!Acquire(a) PROVE PoolFacts!Acquire(a)
  BY <1>5 DEF Pool!Acquire, PoolFacts!Acquire, Pool!Serving, PoolFacts!Serving,
     Pool!PoolFor, PoolFacts!PoolFor, Pool!PopIdle, PoolFacts!PopIdle,
     Pool!LockFree, PoolFacts!LockFree, Pool!EnterActive,
     PoolFacts!EnterActive, Pool!ShowIdle, PoolFacts!ShowIdle,
     Pool!Cardinality, PoolFacts!Cardinality
<1>6. ASSUME NEW a, Pool!TakeQueued(a) PROVE PoolFacts!TakeQueued(a)
  BY <1>6 DEF Pool!TakeQueued, PoolFacts!TakeQueued, Pool!PoolFor,
     PoolFacts!PoolFor, Pool!PopIdle, PoolFacts!PopIdle
<1>7. ASSUME NEW a, Pool!GiveUp(a) PROVE PoolFacts!GiveUp(a)
  BY <1>7 DEF Pool!GiveUp, PoolFacts!GiveUp
<1>8. ASSUME NEW a, Pool!CreateOnDemand(a) PROVE PoolFacts!CreateOnDemand(a)
  BY <1>8 DEF Pool!CreateOnDemand, PoolFacts!CreateOnDemand, Pool!PoolFor,
     PoolFacts!PoolFor, Pool!CreateContainer, PoolFacts!CreateContainer,
     Pool!Real, PoolFacts!Real, Pool!Mock, PoolFacts!Mock
<1>9. ASSUME NEW a, Pool!Activate(a) PROVE PoolFacts!Activate(a)
  BY <1>9 DEF Pool!Activate, PoolFacts!Activate, Pool!LockFree,
     PoolFacts!LockFree, Pool!PoolFor, PoolFacts!PoolFor, Pool!EnterActive,
     PoolFacts!EnterActive, Pool!ShowIdle, PoolFacts!ShowIdle,
     Pool!Cardinality, PoolFacts!Cardinality
<1>10. ASSUME NEW a, Pool!Release(a) PROVE PoolFacts!Release(a)
  BY <1>10 DEF Pool!Release, PoolFacts!Release, Pool!LockFree,
     PoolFacts!LockFree, Pool!LeaveActive, PoolFacts!LeaveActive,
     Pool!StartCleanup, PoolFacts!StartCleanup, Pool!Cardinality,
     PoolFacts!Cardinality
<1>11. ASSUME NEW c, Pool!CleanupContainer(c) PROVE PoolFacts!CleanupContainer(c)
  BY <1>11 DEF Pool!CleanupContainer, PoolFacts!CleanupContainer,
     Pool!Terminate, PoolFacts!Terminate, Pool!Running, PoolFacts!Running,
     Pool!Containers, PoolFacts!Containers
<1>12. ASSUME NEW c, Pool!CleanupCancelled(c) PROVE PoolFacts!CleanupCancelled(c)
  BY <1>12 DEF Pool!CleanupCancelled, PoolFacts!CleanupCancelled, Pool!Running,
     PoolFacts!Running, Pool!Containers, PoolFacts!Containers
<1>13. ASSUME NEW e, Pool!StrayEnds(e) PROVE PoolFacts!StrayEnds(e)
  BY <1>13 DEF Pool!StrayEnds, PoolFacts!StrayEnds, Pool!Real, PoolFacts!Real
<1>14. ASSUME Pool!BeginShutdown PROVE PoolFacts!BeginShutdown
  BY <1>14 DEF Pool!BeginShutdown, PoolFacts!BeginShutdown, Pool!Serving,
     PoolFacts!Serving, Pool!CancelWorkers, PoolFacts!CancelWorkers,
     Pool!Running, PoolFacts!Running, Pool!Containers, PoolFacts!Containers,
     Pool!Range, PoolFacts!Range
<1>15. ASSUME NEW e, Pool!DrainPop(e) PROVE PoolFacts!DrainPop(e)
  BY <1>15 DEF Pool!DrainPop, PoolFacts!DrainPop, Pool!PopIdle,
     PoolFacts!PopIdle
<1>16. ASSUME NEW c, Pool!ShutdownTerminate(c) PROVE PoolFacts!ShutdownTerminate(c)
  BY <1>16 DEF Pool!ShutdownTerminate, PoolFacts!ShutdownTerminate,
     Pool!Terminate, PoolFacts!Terminate, Pool!Running, PoolFacts!Running,
     Pool!Containers, PoolFacts!Containers
<1>17. ASSUME Pool!LockForActive PROVE PoolFacts!LockForActive
  BY <1>17 DEF Pool!LockForActive, PoolFacts!LockForActive
<1>18. ASSUME Pool!FinishShutdown PROVE PoolFacts!FinishShutdown
  BY <1>18 DEF Pool!FinishShutdown, PoolFacts!FinishShutdown
<1>19. QED  BY <1>1, <1>2, <1>3, <1>4, <1>5, <1>6, <1>7, <1>8, <1>9, <1>10,
       <1>11, <1>12, <1>13, <1>14, <1>15, <1>16, <1>17, <1>18

\* So a behaviour of the pool is one the facts are about.
LEMMA SamePool == Pool!Spec => PoolFacts!Spec
<1>1. Pool!Init => PoolFacts!Init
  BY DEF Pool!Init, PoolFacts!Init, Pool!Replenishers, PoolFacts!Replenishers
<1>2. /\ Pool!Replenishers = PoolFacts!Replenishers
      /\ UNCHANGED Pool!vars => UNCHANGED PoolFacts!vars
  BY DEF Pool!Replenishers, PoolFacts!Replenishers, Pool!vars, PoolFacts!vars,
         Pool!lifeVars, PoolFacts!lifeVars, Pool!dockerVars,
         PoolFacts!dockerVars, Pool!batchVars, PoolFacts!batchVars,
         Pool!clientVars, PoolFacts!clientVars, Pool!gaugeVars,
         PoolFacts!gaugeVars
<1>3. ASSUME [Pool!Next]_Pool!vars PROVE [PoolFacts!Next]_PoolFacts!vars
  <2>1. \A r : Pool!ReplenisherStep(r) => PoolFacts!ReplenisherStep(r)
    BY SamePoolActions DEF Pool!ReplenisherStep, PoolFacts!ReplenisherStep
  <2>2. \A a : Pool!ClientStep(a) => PoolFacts!ClientStep(a)
    BY SamePoolActions DEF Pool!ClientStep, PoolFacts!ClientStep
  <2>3. Pool!ShutdownStep => PoolFacts!ShutdownStep
    BY SamePoolActions DEF Pool!ShutdownStep, PoolFacts!ShutdownStep
  <2>4. Pool!Quiesced => UNCHANGED Pool!vars
    BY DEF Pool!Quiesced
  <2>5. QED
    BY <1>2, <1>3, <2>1, <2>2, <2>3, <2>4, SamePoolActions
       DEF Pool!Next, PoolFacts!Next
<1>4. QED  BY <1>1, <1>3, PTL DEF Pool!Spec, PoolFacts!Spec
-----------------------------------------------------------------------------
(***************************************************************************)
(* The runs and their containers.                                           *)
(***************************************************************************)
\* The places in which a run uses its container.
Using == {"checkout", "base_stream", "base_exec", "writing", "checking",
          "applying", "patched_stream", "patched_exec", "releasing",
          "rejected"}

\* Where an evaluation is as a run and where it is as a client of the pool.
Linked(v) ==
  /\ runPc[v] \in {"new", "queued"} => poolPc[v] = "start"
  /\ runPc[v] = "acquiring" =>
       poolPc[v] \in {"waiting", "creating", "got", "holding"}
  /\ runPc[v] \in Using => poolPc[v] = "holding"
  /\ sandbox[v] = "held" => runPc[v] \in Using

LinkInv ==
  /\ runPc \in [Evals -> {"new", "queued", "acquiring", "finished"} \cup Using]
  /\ sandbox \in [Evals -> {"none", "held", "released"}]
  /\ poolPc \in [Evals \cup Others -> {"start", "waiting", "creating", "got",
                                       "holding", "done"}]
  /\ \A v \in Evals : Linked(v)

\* Nobody has asked for anything.
LEMMA LinkInit == Init => LinkInv
BY DEF Init, Runner!Init, Pool!Init, LinkInv, Linked, Using

\* The steps a run does alone: it goes on using what it has.
LEMMA RunLinked ==
  ASSUME LinkInv, NEW v \in Evals, PostAsync(v) \/ Begin(v) \/ RunStep(v)
  PROVE  LinkInv'
<1> USE DEF Runner!Goto, Runner!workVars, Runner!restVars
<1>1. ASSUME NEW p, NEW q, runPc' = [runPc EXCEPT ![v] = p],
             poolPc' = [poolPc EXCEPT ![v] = q],
             \/ sandbox' = sandbox
             \/ sandbox' = [sandbox EXCEPT ![v] = "held"] /\ p \in Using
             \/ sandbox' = [sandbox EXCEPT ![v] = "released"],
             sandbox[v] = "held" => p \in Using \/ sandbox'[v] # "held",
             \/ p = "queued" /\ q = "start"
             \/ p = "acquiring" /\ q \in {"waiting", "got", "holding"}
             \/ p \in Using /\ q = "holding"
             \/ p = "finished" /\ q = "done"
      PROVE  LinkInv'
  <2>1. /\ runPc'[v] = p /\ poolPc'[v] = q
        /\ \A w \in Evals \ {v} : /\ runPc'[w] = runPc[w]
                                  /\ poolPc'[w] = poolPc[w]
                                  /\ sandbox'[w] = sandbox[w]
    BY <1>1 DEF LinkInv
  <2>2. sandbox'[v] = "held" => p \in Using
    BY <1>1 DEF LinkInv
  <2>3. Linked(v)'
    BY <1>1, <2>1, <2>2 DEF Linked, Using
  <2>4. \A w \in Evals \ {v} : Linked(w)'
    BY <2>1 DEF LinkInv, Linked
  <2>5. /\ runPc' \in [Evals -> {"new", "queued", "acquiring", "finished"}
                                  \cup Using]
        /\ poolPc' \in [Evals \cup Others -> {"start", "waiting", "creating",
                                              "got", "holding", "done"}]
        /\ sandbox' \in [Evals -> {"none", "held", "released"}]
    BY <1>1 DEF LinkInv
  <2>6. QED  BY <2>3, <2>4, <2>5 DEF LinkInv
<1>2. ASSUME UNCHANGED poolPc
      PROVE  poolPc' = [poolPc EXCEPT ![v] = poolPc[v]]
  BY <1>2 DEF LinkInv
<1>3. CASE PostAsync(v)
  <2>1. /\ runPc[v] = "new" /\ runPc' = [runPc EXCEPT ![v] = "queued"]
        /\ UNCHANGED <<poolPc, sandbox>>
    BY <1>3 DEF PostAsync, Runner!PostAsync, poolVars
  <2>2. poolPc[v] = "start" /\ sandbox[v] # "held"
    BY <2>1 DEF LinkInv, Linked, Using
  <2>3. QED  BY <1>1, <1>2, <2>1, <2>2
<1>4. CASE Begin(v)
  <2>1. /\ runPc[v] \in {"new", "queued"} /\ UNCHANGED sandbox
        /\ runPc' = [runPc EXCEPT ![v] = "acquiring"]
    BY <1>4 DEF Begin, Runner!Begin
  <2>2. PICK q \in {"waiting", "got", "holding"} :
          poolPc' = [poolPc EXCEPT ![v] = q]
    BY <1>4 DEF Begin, Pool!Acquire
  <2>3. sandbox[v] # "held"
    BY <2>1 DEF LinkInv, Linked, Using
  <2>4. QED  BY <1>1, <2>1, <2>2, <2>3
<1>5. CASE /\ Runner!Complete(v) \/ Runner!RejectedReleased(v)
           /\ GiveBack(v)
  <2>1. /\ runPc' = [runPc EXCEPT ![v] = "finished"]
        /\ sandbox' = [sandbox EXCEPT ![v] = "released"]
        /\ poolPc' = [poolPc EXCEPT ![v] = "done"]
    BY <1>5 DEF Runner!Complete, Runner!RejectedReleased,
                Runner!ReleaseSandbox, GiveBack, Pool!Release
  <2>2. sandbox'[v] # "held"
    BY <2>1 DEF LinkInv
  <2>3. QED  BY <1>1, <2>1, <2>2
<1>6. CASE Granted(v) /\ Runner!Acquired(v) /\ UNCHANGED poolVars
  <2>1. /\ poolPc[v] = "holding" /\ UNCHANGED poolPc
        /\ sandbox' = [sandbox EXCEPT ![v] = "held"]
        /\ \E p \in {"checkout", "base_stream"} :
             runPc' = [runPc EXCEPT ![v] = p]
    BY <1>6 DEF Granted, Runner!Acquired, Runner!StartBase,
                Runner!StartStream, poolVars
  <2>2. QED  BY <1>1, <1>2, <2>1 DEF Using
<1>7. CASE /\ \/ Runner!CheckedOut(v) \/ Runner!Chunk(v)
              \/ Runner!StreamOver(v) \/ Runner!BaseExecuted(v)
              \/ Runner!PatchGoesOn(v) \/ Runner!PatchRefused(v)
              \/ Runner!PatchApplied(v) \/ Runner!PatchedExecuted(v)
           /\ UNCHANGED poolVars
  <2>1. UNCHANGED <<sandbox, poolPc>> /\ runPc[v] \in Using
    BY <1>7 DEF Runner!CheckedOut, Runner!Chunk, Runner!StreamOver,
         Runner!BaseExecuted, Runner!PatchGoesOn, Runner!PatchRefused,
         Runner!PatchApplied, Runner!PatchedExecuted, poolVars, Using
  <2>2. \E p \in Using : runPc' = [runPc EXCEPT ![v] = p]
    <3>1. runPc = [runPc EXCEPT ![v] = runPc[v]]
      BY DEF LinkInv
    <3>2. QED
      BY <1>7, <2>1, <3>1 DEF Runner!CheckedOut, Runner!Chunk,
         Runner!StreamOver, Runner!BaseExecuted, Runner!PatchGoesOn,
         Runner!PatchRefused, Runner!PatchApplied, Runner!PatchedExecuted,
         Runner!Reject, Runner!StartBase, Runner!StartPatched,
         Runner!StartStream, Using
  <2>3. poolPc[v] = "holding"
    BY <2>1 DEF LinkInv, Linked
  <2>4. QED  BY <1>1, <1>2, <2>1, <2>2, <2>3
<1>8. QED  BY <1>3, <1>4, <1>5, <1>6, <1>7 DEF RunStep

\* The steps of the pool: a run waits until acquire has returned, and no other
\* client moves it.
LEMMA PoolLinked ==
  ASSUME LinkInv, UNCHANGED runnerVars,
         \/ UNCHANGED poolPc
         \/ \E a \in Evals \cup Others : AcquireStep(a)
         \/ \E o \in Others : OtherBegins(o) \/ OtherEnds(o)
  PROVE  LinkInv'
<1>1. UNCHANGED <<runPc, sandbox>>
  BY DEF runnerVars
<1>2. CASE UNCHANGED poolPc
  BY <1>1, <1>2 DEF LinkInv, Linked
<1>3. ASSUME NEW a \in Evals \cup Others, AcquireStep(a) PROVE LinkInv'
  <2>1. /\ poolPc[a] \in {"waiting", "creating", "got"}
        /\ \E q \in {"creating", "got", "holding"} :
             poolPc' = [poolPc EXCEPT ![a] = q]
    BY <1>3 DEF AcquireStep, Pool!TakeQueued, Pool!GiveUp,
                Pool!CreateOnDemand, Pool!Activate
  <2>2. \A v \in Evals : Linked(v)'
    BY <1>1, <2>1 DEF LinkInv, Linked
  <2>3. QED  BY <1>1, <2>1, <2>2 DEF LinkInv
<1>4. ASSUME NEW o \in Others, OtherBegins(o) \/ OtherEnds(o) PROVE LinkInv'
  <2>1. \E q \in {"waiting", "got", "holding", "done"} :
          poolPc' = [poolPc EXCEPT ![o] = q]
    BY <1>4 DEF OtherBegins, OtherEnds, Pool!Acquire, Pool!Release
  <2>2. \A v \in Evals : v # o
    BY HarnessAssumption
  <2>3. \A v \in Evals : Linked(v)'
    BY <1>1, <2>1, <2>2 DEF LinkInv, Linked
  <2>4. QED  BY <1>1, <2>1, <2>3 DEF LinkInv
<1>5. QED  BY <1>2, <1>3, <1>4

\* Every step keeps a run and the client it is together.
LEMMA LinkStep == LinkInv /\ [Next]_vars => LinkInv'
<1> SUFFICES ASSUME LinkInv, [Next]_vars PROVE LinkInv'
  OBVIOUS
<1>1. CASE \E v \in Evals : PostAsync(v) \/ Begin(v) \/ RunStep(v)
  BY <1>1, RunLinked
<1>2. CASE \/ \E a \in Evals \cup Others : AcquireStep(a)
           \/ \E o \in Others : OtherBegins(o) \/ OtherEnds(o)
  BY <1>2, PoolLinked DEF AcquireStep, OtherBegins, OtherEnds
<1>3. CASE \/ \E r \in Pool!Replenishers : Replenish(r)
           \/ Cleanup \/ Background \/ BeginShutdown \/ ShutdownStep
  <2>1. UNCHANGED runnerVars
    BY <1>3 DEF Replenish, Cleanup, Background, BeginShutdown, ShutdownStep
  <2>2. UNCHANGED poolPc
    BY <1>3
    DEF Replenish, Cleanup, Background, BeginShutdown, ShutdownStep,
        Pool!clientVars, Pool!ReplenisherStep, Pool!Replenish,
        Pool!BatchCreate, Pool!BatchPut, Pool!CleanupContainer,
        Pool!Initialize, Pool!StrayEnds, Pool!CleanupCancelled,
        Pool!BeginShutdown, Pool!ShutdownStep, Pool!DrainPop,
        Pool!ShutdownTerminate, Pool!LockForActive, Pool!FinishShutdown
  <2>3. QED  BY <2>1, <2>2, PoolLinked
<1>4. CASE Stop
  <2>1. UNCHANGED <<runPc, sandbox, poolPc>>
    BY <1>4 DEF Stop, Runner!Stop, Runner!runVars, Runner!workVars, poolVars
  <2>2. QED  BY <2>1 DEF LinkInv, Linked
<1>5. CASE UNCHANGED vars
  BY <1>5, PoolLinked DEF vars, poolVars
<1>6. QED  BY <1>1, <1>2, <1>3, <1>4, <1>5 DEF Next

\* What is proved about the pool, in the service.
LEMMA PoolInService ==
  Spec => [](PoolFacts!PlacesInv /\ PoolFacts!ServedFirst)
<1>1. PoolFacts!PoolAssumption
  BY HarnessAssumption DEF PoolFacts!PoolAssumption, PoolFacts!AllFaults,
                           Pool!AllFaults
<1>2. PoolFacts!Spec => []PoolFacts!PlacesInv
  BY <1>1, PoolFacts!PlacesInvariant
<1>3. PoolFacts!Spec => []PoolFacts!ServedFirst
  BY <1>1, PoolFacts!ShutdownAfterClients
<1>4. QED  BY <1>2, <1>3, ComponentsImplemented, SamePool, PTL

\* A run that uses its container has one of its own, in the active set, that
\* nothing removes or is about to: its client holds it, and shutdown begins only
\* when no client does.
THEOREM NoRunLosesItsContainer == Spec => []RunHasContainer
<1>1. ASSUME LinkInv, PoolFacts!PlacesInv, PoolFacts!ServedFirst,
             NEW v \in Evals, sandbox[v] = "held"
      PROVE  /\ hand[v] \in active \ (cleaning \cup doomed)
             /\ fleet[hand[v]].docker # "removed"
             /\ \A a \in Evals \cup Others : a # v => hand[a] # hand[v]
  <2>1. poolPc[v] = "holding"
    BY <1>1 DEF LinkInv, Linked
  <2>2. stage \in {"down", "up"}
    BY <1>1, <2>1 DEF PoolFacts!ServedFirst, PoolFacts!PlacesInv,
                      PoolFacts!TypeOK
  <2>3. hand[v] # 0
    BY <1>1, <2>1 DEF PoolFacts!PlacesInv, PoolFacts!HandMatchesPc
  <2>4. hand[v] \in active
    BY <1>1, <2>1, <2>2 DEF PoolFacts!PlacesInv, PoolFacts!ActiveIsHeld
  <2>5. /\ hand[v] \notin cleaning
        /\ \A a \in Evals \cup Others : a # v => hand[a] # hand[v]
    BY <1>1, <2>3 DEF PoolFacts!PlacesInv, PoolFacts!Apart,
                      PoolFacts!HandsApart
  <2>6. doomed = {}
    BY <1>1, <2>2 DEF PoolFacts!PlacesInv, PoolFacts!DoomedApart
  <2>7. fleet[hand[v]].docker # "removed"
    BY <1>1, <2>2, <2>3 DEF PoolFacts!PlacesInv, PoolFacts!Alive,
                            PoolFacts!Held
  <2>8. QED  BY <2>4, <2>5, <2>6, <2>7
<1>2. LinkInv /\ PoolFacts!PlacesInv /\ PoolFacts!ServedFirst
        => RunHasContainer
  BY <1>1 DEF RunHasContainer
<1>3. QED  BY <1>2, LinkInit, LinkStep, PoolInService, PTL DEF Spec
=============================================================================
