--------------------------- MODULE WarmPoolProofs ---------------------------
(***************************************************************************)
(* Proofs about WarmPool, for every set of clients, environments and        *)
(* faults and every POOL_MIN_IDLE.                                          *)
(***************************************************************************)
EXTENDS WarmPool, FiniteSetTheorems, SequenceTheorems, TLAPS

(***************************************************************************)
(* Lemmas about the helpers of WarmPool.                                    *)
(***************************************************************************)
\* The index of an instance is a positive number, and stays one of the fleet
\* when the fleet grows.
LEMMA FleetIndexes ==
  ASSUME NEW s \in Seq(Instance)
  PROVE  /\ Len(s) \in Nat
         /\ DOMAIN s = 1 .. Len(s)
         /\ \A i \in Instance :
              /\ Append(s, i) \in Seq(Instance)
              /\ Len(Append(s, i)) = Len(s) + 1
              /\ DOMAIN Append(s, i) = 1 .. Len(s) + 1
              /\ \A c \in DOMAIN s : Append(s, i)[c] = s[c]
              /\ Append(s, i)[Len(s) + 1] = i
<1>1. Len(s) \in Nat /\ DOMAIN s = 1 .. Len(s)
  BY LenProperties
<1>2. ASSUME NEW i \in Instance
      PROVE  /\ Append(s, i) \in Seq(Instance)
             /\ Len(Append(s, i)) = Len(s) + 1
             /\ DOMAIN Append(s, i) = 1 .. Len(s) + 1
             /\ \A c \in DOMAIN s : Append(s, i)[c] = s[c]
             /\ Append(s, i)[Len(s) + 1] = i
  BY <1>1, <1>2, AppendProperties, LenProperties
<1>3. QED  BY <1>1, <1>2

\* What every outcome of _create_container preserves: the fleet grows, and
\* the instance returned is its last one.
LEMMA CreateContainerType ==
  ASSUME TypeOK, NEW e \in Envs, CreateContainer(e)
  PROVE  /\ fleet' \in Seq(Instance)
         /\ Containers \subseteq Containers'
         /\ Len(fleet') \in Containers'
         /\ lost' \subseteq Containers'
         /\ strays' \in [Envs -> Nat]
<1>1. /\ fleet \in Seq(Instance)
      /\ lost \subseteq Containers
      /\ strays \in [Envs -> Nat]
  BY DEF TypeOK
<1>2. Real(e) \in Instance /\ Mock(e) \in Instance
  BY DEF Real, Mock, Instance
<1>3. ASSUME NEW i \in Instance, fleet' = Append(fleet, i)
      PROVE  /\ fleet' \in Seq(Instance)
             /\ Containers \subseteq Containers'
             /\ Len(fleet') \in Containers'
  BY <1>1, <1>3, FleetIndexes DEF Containers
<1>4. CASE fleet' = Append(fleet, Real(e)) /\ UNCHANGED <<strays, lost>>
  BY <1>1, <1>2, <1>3, <1>4
<1>5. CASE fleet' = Append(fleet, Mock(e)) /\ UNCHANGED <<strays, lost>>
  BY <1>1, <1>2, <1>3, <1>5
<1>6. CASE /\ fleet' = fleet \o <<Real(e), Mock(e)>>
           /\ lost' = lost \cup {Len(fleet) + 1}
           /\ UNCHANGED strays
  <2>1. <<Real(e), Mock(e)>> \in Seq(Instance)
    BY <1>2
  <2>2. fleet' \in Seq(Instance) /\ Len(fleet') = Len(fleet) + 2
    BY <1>1, <1>6, <2>1, ConcatProperties
  <2>3. Containers = 1 .. Len(fleet) /\ Containers' = 1 .. Len(fleet) + 2
    BY <1>1, <2>2, LenProperties DEF Containers
  <2>4. Len(fleet) \in Nat
    BY <1>1, LenProperties
  <2>5. Containers \subseteq Containers' /\ Len(fleet') \in Containers'
    BY <2>2, <2>3, <2>4
  <2>6. lost' \subseteq Containers'
    <3>1. lost' = lost \cup {Len(fleet) + 1}
      BY <1>6
    <3>2. Len(fleet) + 1 \in Containers'
      BY <2>3, <2>4
    <3>3. lost \subseteq Containers'
      BY <1>1, <2>5
    <3>4. QED  BY <3>1, <3>2, <3>3
  <2>7. QED  BY <1>1, <1>6, <2>2, <2>5, <2>6
<1>7. CASE /\ fleet' = Append(fleet, Mock(e))
           /\ strays' = [strays EXCEPT ![e] = @ + 1]
           /\ UNCHANGED lost
  <2>1. strays' \in [Envs -> Nat]
    BY <1>1, <1>7
  <2>2. QED  BY <1>1, <1>2, <1>3, <1>7, <2>1
<1>8. QED  BY <1>4, <1>5, <1>6, <1>7 DEF CreateContainer

\* Terminating a container changes what Docker has for it and nothing else.
LEMMA TerminateType ==
  ASSUME TypeOK, NEW c, Terminate(c)
  PROVE  /\ fleet' \in Seq(Instance)
         /\ Containers' = Containers
         /\ lost' \subseteq Containers'
<1>1. fleet \in Seq(Instance) /\ lost \subseteq Containers
  BY DEF TypeOK
<1>2. CASE c \in Running /\ fleet' = [fleet EXCEPT ![c].docker = "removed"]
             /\ UNCHANGED lost
  <2>1. c \in 1 .. Len(fleet) /\ fleet[c] \in Instance
    BY <1>1, <1>2, FleetIndexes, ElementOfSeq DEF Running, Containers
  <2>2. [fleet[c] EXCEPT !.docker = "removed"] \in Instance
    BY <2>1 DEF Instance
  <2>3. fleet' \in Seq(Instance) /\ Len(fleet') = Len(fleet)
    BY <1>1, <1>2, <2>1, <2>2, ExceptSeq
  <2>4. QED  BY <1>1, <1>2, <2>3, FleetIndexes DEF Containers
<1>3. CASE c \in Running /\ lost' = lost \cup {c} /\ UNCHANGED fleet
  BY <1>1, <1>3 DEF Running, Containers
<1>4. CASE UNCHANGED <<fleet, lost>>
  BY <1>1, <1>4 DEF Containers
<1>5. QED  BY <1>2, <1>3, <1>4 DEF Terminate

\* A set of containers is finite, so the gauge that counts it is a number.
LEMMA CountIsNat ==
  ASSUME fleet \in Seq(Instance), NEW S \in SUBSET Containers
  PROVE  IsFiniteSet(S) /\ Cardinality(S) \in Nat
<1>1. Containers = 1 .. Len(fleet) /\ Len(fleet) \in Nat
  BY FleetIndexes DEF Containers
<1>2. IsFiniteSet(Containers)
  BY <1>1, FS_Interval
<1>3. QED  BY <1>2, FS_Subset, FS_CardinalityType

\* Sequences of containers stay sequences of containers when the fleet grows.
LEMMA Widen ==
  ASSUME TypeOK, Containers \subseteq Containers'
  PROVE  /\ idle \in [Envs -> Seq(Containers')]
         /\ made \in [Replenishers -> Seq(Containers')]
         /\ hand \in [Clients -> Containers' \cup {0}]
         /\ active \subseteq Containers' /\ cleaning \subseteq Containers'
         /\ doomed \subseteq Containers' /\ lost \subseteq Containers'
<1>1. \A s \in Seq(Containers) : s \in Seq(Containers')
  BY SeqMonotonic
<1>2. idle \in [Envs -> Seq(Containers)] /\ made \in [Replenishers -> Seq(Containers)]
  BY DEF TypeOK
<1>3. idle \in [Envs -> Seq(Containers')] /\ made \in [Replenishers -> Seq(Containers')]
  BY <1>1, <1>2
<1>4. QED  BY <1>3 DEF TypeOK
-----------------------------------------------------------------------------
(***************************************************************************)
(* Type correctness.  Each action is taken in turn; the ones that build a   *)
(* container widen the set every reference is drawn from.                   *)
(***************************************************************************)
\* Before initialize every variable has its type.
LEMMA InitTypeOK == Init => TypeOK
<1> SUFFICES ASSUME Init PROVE TypeOK
  OBVIOUS
<1>1. <<>> \in Seq(Instance) /\ <<>> \in Seq(Containers)
  OBVIOUS
<1>2. QED  BY <1>1, PoolAssumption DEF Init, TypeOK

\* The steps of _replenish_pool and _replenish_worker keep every type.
LEMMA ReplenisherTypeOK ==
  ASSUME TypeOK, NEW r \in Replenishers, ReplenisherStep(r)
  PROVE  TypeOK'
<1>e. EnvOf(r) \in Envs
  BY DEF EnvOf, Replenishers
<1>i. \A e \in Envs : Len(idle[e]) \in Nat
  BY LenProperties DEF TypeOK
<1>1. CASE Replenish(r)
  <2>1. fleet' = fleet /\ Containers' = Containers
    BY <1>1 DEF Replenish, dockerVars, Containers
  <2>2. phase' \in [Replenishers -> {"off", "asleep", "creating", "ended"}]
    BY <1>1 DEF Replenish, Rest, TypeOK
  <2>3. pending' \in [Replenishers -> Nat]
    <3>1. MustTopUp(EnvOf(r)) => Needed(EnvOf(r)) \in Nat
      BY <1>e, <1>i, PoolAssumption DEF MustTopUp, Needed
    <3>2. QED  BY <1>1, <3>1 DEF Replenish, TypeOK
  <2>4. idleGauge' \in [Envs -> Nat]
    BY <1>1, <1>e, <1>i DEF Replenish, ShowIdle, TypeOK
  <2>5. QED
    BY <1>1, <2>1, <2>2, <2>3, <2>4
    DEF Replenish, TypeOK, lifeVars, dockerVars, clientVars
<1>2. CASE BatchCreate(r)
  <2>1. /\ fleet' \in Seq(Instance) /\ Containers \subseteq Containers'
        /\ Len(fleet') \in Containers'
        /\ lost' \subseteq Containers' /\ strays' \in [Envs -> Nat]
    BY <1>2, <1>e, CreateContainerType DEF BatchCreate
  <2>2. pending' \in [Replenishers -> Nat]
    BY <1>2 DEF BatchCreate, TypeOK
  <2>3. made' \in [Replenishers -> Seq(Containers')]
    <3>1. made[r] \in Seq(Containers')
      BY <2>1, Widen
    <3>2. Append(made[r], Len(fleet')) \in Seq(Containers')
      BY <2>1, <3>1, AppendProperties
    <3>3. QED  BY <1>2, <2>1, <3>2, Widen DEF BatchCreate
  <2>4. QED
    BY <1>2, <2>1, <2>2, <2>3, Widen
    DEF BatchCreate, TypeOK, lifeVars, clientVars, gaugeVars
<1>3. CASE BatchPut(r)
  <2>1. fleet' = fleet /\ Containers' = Containers
    BY <1>3 DEF BatchPut, dockerVars, Containers
  <2>2. idle' \in [Envs -> Seq(Containers)]
    <3>1. idle[EnvOf(r)] \o made[r] \in Seq(Containers)
      BY <1>e, ConcatProperties DEF TypeOK
    <3>2. QED  BY <1>3, <3>1 DEF BatchPut, TypeOK
  <2>3. idleGauge' \in [Envs -> Nat]
    <3>1. Len(idle'[EnvOf(r)]) \in Nat
      BY <2>2, <1>e, LenProperties
    <3>2. QED  BY <1>3, <3>1 DEF BatchPut, ShowIdle, TypeOK
  <2>4. made' \in [Replenishers -> Seq(Containers)]
    BY <1>3, EmptySeq DEF BatchPut, TypeOK
  <2>5. phase' \in [Replenishers -> {"off", "asleep", "creating", "ended"}]
    BY <1>3 DEF BatchPut, Rest, TypeOK
  <2>6. QED
    BY <1>3, <2>1, <2>2, <2>3, <2>4, <2>5
    DEF BatchPut, TypeOK, lifeVars, dockerVars, clientVars
<1>4. QED  BY <1>1, <1>2, <1>3 DEF ReplenisherStep

\* The steps of acquire and release keep every type.
LEMMA ClientTypeOK ==
  ASSUME TypeOK, HandMatchesPc, NEW a \in Clients,
         Acquire(a) \/ ClientStep(a)
  PROVE  TypeOK'
<1>p. \A q : PoolFor(q) \in Envs
  BY PoolAssumption DEF PoolFor
<1>i. \A e \in Envs : idle[e] # <<>> => /\ Head(idle[e]) \in Containers
                                        /\ Tail(idle[e]) \in Seq(Containers)
  BY HeadTailProperties DEF TypeOK
<1>e. \A e \in Envs, c \in Containers :
        /\ EnterActive(e, c)
        /\ fleet' = fleet
        /\ idle' \in [Envs -> Seq(Containers)]
        => /\ active' \subseteq Containers
           /\ idleGauge' \in [Envs -> Nat]
           /\ activeGauge' \in [Envs -> Nat]
  <2> SUFFICES ASSUME NEW e \in Envs, NEW c \in Containers, EnterActive(e, c),
                      fleet' = fleet, idle' \in [Envs -> Seq(Containers)]
               PROVE  /\ active' \subseteq Containers
                      /\ idleGauge' \in [Envs -> Nat]
                      /\ activeGauge' \in [Envs -> Nat]
    OBVIOUS
  <2>1. active' \subseteq Containers
    BY DEF EnterActive, TypeOK
  <2>2. Cardinality(active') \in Nat
    BY <2>1, CountIsNat DEF TypeOK
  <2>3. Len(idle'[e]) \in Nat
    BY LenProperties
  <2>4. QED  BY <2>1, <2>2, <2>3 DEF EnterActive, ShowIdle, TypeOK
<1>1. CASE Acquire(a)
  <2>1. PICK q \in Requests :
          LET e == PoolFor(q) IN
          /\ asked' = [asked EXCEPT ![a] = q]
          /\ \/ /\ idle[e] = <<>>
                /\ pc' = [pc EXCEPT ![a] = "waiting"]
                /\ UNCHANGED <<idle, hand, active, gaugeVars>>
             \/ /\ idle[e] # <<>>
                /\ PopIdle(e)
                /\ hand' = [hand EXCEPT ![a] = Head(idle[e])]
                /\ \/ /\ LockFree
                      /\ pc' = [pc EXCEPT ![a] = "holding"]
                      /\ EnterActive(e, Head(idle[e]))
                   \/ /\ ~LockFree
                      /\ pc' = [pc EXCEPT ![a] = "got"]
                      /\ UNCHANGED <<active, gaugeVars>>
    BY <1>1 DEF Acquire
  <2>2. fleet' = fleet /\ Containers' = Containers
    BY <1>1 DEF Acquire, dockerVars, Containers
  <2>3. asked' \in [Clients -> Requests \cup {DefaultEnv}]
    BY <2>1 DEF TypeOK
  <2>4. pc' \in [Clients ->
                   {"start", "waiting", "creating", "got", "holding", "done"}]
    BY <2>1 DEF TypeOK
  <2>5. idle' \in [Envs -> Seq(Containers)] /\ hand' \in [Clients -> Containers \cup {0}]
    <3>1. /\ PoolFor(q) \in Envs
          /\ idle[PoolFor(q)] # <<>> => /\ Head(idle[PoolFor(q)]) \in Containers
                                        /\ Tail(idle[PoolFor(q)]) \in Seq(Containers)
      BY <1>p, <1>i
    <3>2. CASE UNCHANGED <<idle, hand>>
      BY <3>2 DEF TypeOK
    <3>3. CASE /\ idle[PoolFor(q)] # <<>>
               /\ PopIdle(PoolFor(q))
               /\ hand' = [hand EXCEPT ![a] = Head(idle[PoolFor(q)])]
      BY <3>1, <3>3 DEF PopIdle, TypeOK
    <3>4. QED  BY <2>1, <3>2, <3>3
  <2>6. /\ active' \subseteq Containers
        /\ idleGauge' \in [Envs -> Nat]
        /\ activeGauge' \in [Envs -> Nat]
    BY <2>1, <2>2, <2>5, <1>p, <1>i, <1>e DEF TypeOK, gaugeVars
  <2>7. QED
    BY <1>1, <2>2, <2>3, <2>4, <2>5, <2>6
    DEF Acquire, TypeOK, lifeVars, dockerVars, batchVars
<1>2. CASE TakeQueued(a)
  <2>1. fleet' = fleet /\ Containers' = Containers
    BY <1>2 DEF TakeQueued, dockerVars, Containers
  <2>2. QED
    BY <1>2, <2>1, <1>p, <1>i
    DEF TakeQueued, PopIdle, TypeOK, lifeVars, dockerVars, batchVars, gaugeVars
<1>3. CASE GiveUp(a)
  BY <1>3 DEF GiveUp, TypeOK, Containers, lifeVars, dockerVars, batchVars, gaugeVars
<1>4. CASE CreateOnDemand(a)
  <2>1. /\ fleet' \in Seq(Instance) /\ Containers \subseteq Containers'
        /\ Len(fleet') \in Containers'
        /\ lost' \subseteq Containers' /\ strays' \in [Envs -> Nat]
    BY <1>4, <1>p, CreateContainerType DEF CreateOnDemand
  <2>2. hand' \in [Clients -> Containers' \cup {0}]
    BY <1>4, <2>1, Widen DEF CreateOnDemand
  <2>3. QED
    BY <1>4, <2>1, <2>2, Widen
    DEF CreateOnDemand, TypeOK, lifeVars, batchVars, gaugeVars
<1>5. CASE Activate(a)
  <2>1. fleet' = fleet /\ Containers' = Containers
    BY <1>5 DEF Activate, dockerVars, Containers
  <2>2. hand[a] \in Containers
    BY <1>5 DEF Activate, HandMatchesPc, TypeOK
  <2>3. idle' \in [Envs -> Seq(Containers)]
    BY <1>5 DEF Activate, TypeOK
  <2>4. /\ active' \subseteq Containers
        /\ idleGauge' \in [Envs -> Nat]
        /\ activeGauge' \in [Envs -> Nat]
    BY <1>5, <2>1, <2>2, <2>3, <1>p, <1>e DEF Activate
  <2>5. QED
    BY <1>5, <2>1, <2>3, <2>4
    DEF Activate, TypeOK, lifeVars, dockerVars, batchVars
<1>6. CASE Release(a)
  <2>1. fleet' = fleet /\ Containers' = Containers
    BY <1>6 DEF Release, StartCleanup, dockerVars, Containers
  <2>2. hand[a] \in Containers
    BY <1>6 DEF Release, StartCleanup, HandMatchesPc, TypeOK
  <2>3. active' \subseteq Containers
    BY <1>6 DEF Release, LeaveActive, TypeOK
  <2>4. activeGauge' \in [Envs -> Nat]
    <3>1. Cardinality(active') \in Nat
      BY <2>3, CountIsNat DEF TypeOK
    <3>2. QED  BY <1>6, <3>1 DEF Release, LeaveActive, TypeOK
  <2>5. hand' \in [Clients -> Containers \cup {0}] /\ cleaning' \subseteq Containers
    BY <1>6, <2>2 DEF Release, StartCleanup, TypeOK
  <2>6. QED
    BY <1>6, <2>1, <2>3, <2>4, <2>5
    DEF Release, StartCleanup, TypeOK, lifeVars, dockerVars, batchVars
<1>7. QED  BY <1>1, <1>2, <1>3, <1>4, <1>5, <1>6 DEF ClientStep

\* Cleanup tasks and start-up threads keep every type.
LEMMA BackgroundTypeOK ==
  ASSUME TypeOK,
         \/ \E c \in cleaning : CleanupContainer(c) \/ CleanupCancelled(c)
         \/ \E e \in Envs : StrayEnds(e)
  PROVE  TypeOK'
<1>1. ASSUME NEW c \in cleaning, CleanupContainer(c)
      PROVE  TypeOK'
  <2>1. /\ fleet' \in Seq(Instance) /\ Containers' = Containers
        /\ lost' \subseteq Containers'
    BY <1>1, TerminateType DEF CleanupContainer
  <2>2. QED
    BY <1>1, <2>1
    DEF CleanupContainer, TypeOK, lifeVars, batchVars, clientVars, gaugeVars
<1>2. ASSUME NEW e \in Envs, StrayEnds(e)
      PROVE  TypeOK'
  <2>1. strays' \in [Envs -> Nat]
    BY <1>2 DEF StrayEnds, TypeOK
  <2>2. /\ fleet' \in Seq(Instance) /\ Containers \subseteq Containers'
        /\ lost' \subseteq Containers'
    <3>1. CASE /\ fleet' = Append(fleet, Real(e))
               /\ lost' = lost \cup {Len(fleet) + 1}
      <4>1. Real(e) \in Instance /\ fleet \in Seq(Instance)
        BY DEF Real, Instance, TypeOK
      <4>2. /\ fleet' \in Seq(Instance)
            /\ Containers = 1 .. Len(fleet) /\ Containers' = 1 .. Len(fleet) + 1
            /\ Len(fleet) \in Nat
        BY <3>1, <4>1, FleetIndexes DEF Containers
      <4>3. lost \subseteq Containers
        BY DEF TypeOK
      <4>4. Containers \subseteq Containers' /\ Len(fleet) + 1 \in Containers'
        BY <4>2
      <4>5. QED  BY <3>1, <4>2, <4>3, <4>4
    <3>2. CASE UNCHANGED <<fleet, lost>>
      BY <3>2 DEF TypeOK, Containers
    <3>3. QED  BY <1>2, <3>1, <3>2 DEF StrayEnds
  <2>3. QED
    BY <1>2, <2>1, <2>2, Widen
    DEF StrayEnds, TypeOK, lifeVars, batchVars, clientVars, gaugeVars
<1>3. ASSUME NEW c \in cleaning, CleanupCancelled(c)
      PROVE  TypeOK'
  <2>1. Containers' = Containers
    BY <1>3 DEF CleanupCancelled, Containers
  <2>2. cleaning' \subseteq Containers /\ lost' \subseteq Containers
    BY <1>3 DEF CleanupCancelled, TypeOK, Running
  <2>3. QED
    BY <1>3, <2>1, <2>2
    DEF CleanupCancelled, TypeOK, lifeVars, batchVars, clientVars, gaugeVars
<1>4. QED  BY <1>1, <1>2, <1>3

\* The steps of initialize and shutdown keep every type.
LEMMA LifespanTypeOK ==
  ASSUME TypeOK, Initialize \/ BeginShutdown \/ ShutdownStep \/ UNCHANGED vars
  PROVE  TypeOK'
<1>1. CASE Initialize
  <2>1. Containers' = Containers
    BY <1>1 DEF Initialize, dockerVars, Containers
  <2>2. pending' \in [Replenishers -> Nat]
    BY <1>1, PoolAssumption DEF Initialize, TypeOK
  <2>3. phase' \in [Replenishers -> {"off", "asleep", "creating", "ended"}]
    BY <1>1 DEF Initialize
  <2>4. QED
    BY <1>1, <2>1, <2>2, <2>3
    DEF Initialize, TypeOK, dockerVars, clientVars, gaugeVars
<1>2. CASE BeginShutdown
  <2>1. Containers' = Containers
    BY <1>2 DEF BeginShutdown, Containers
  <2>2. /\ pending' \in [Replenishers -> Nat]
        /\ phase' \in [Replenishers -> {"off", "asleep", "creating", "ended"}]
        /\ made' \in [Replenishers -> Seq(Containers)]
    BY <1>2, EmptySeq DEF BeginShutdown, CancelWorkers
  <2>3. strays' \in [Envs -> Nat]
    <3>1. \A e \in Envs : strays[e] \in Nat /\ pending[<<"worker", e>>] \in Nat
      BY DEF TypeOK, Replenishers
    <3>2. QED  BY <1>2, <3>1 DEF BeginShutdown
  <2>4. lost' \subseteq Containers
    BY <1>2 DEF BeginShutdown, TypeOK, Running
  <2>5. QED
    BY <1>2, <2>1, <2>2, <2>3, <2>4
    DEF BeginShutdown, TypeOK, clientVars, gaugeVars
<1>3. ASSUME NEW e \in Envs, DrainPop(e)
      PROVE  TypeOK'
  <2>1. Containers' = Containers
    BY <1>3 DEF DrainPop, dockerVars, Containers
  <2>2. Head(idle[e]) \in Containers /\ Tail(idle[e]) \in Seq(Containers)
    BY <1>3, HeadTailProperties DEF DrainPop, TypeOK
  <2>3. QED
    BY <1>3, <2>1, <2>2
    DEF DrainPop, PopIdle, TypeOK, lifeVars, dockerVars, batchVars, clientVars, gaugeVars
<1>4. ASSUME NEW c \in doomed, ShutdownTerminate(c)
      PROVE  TypeOK'
  <2>1. /\ fleet' \in Seq(Instance) /\ Containers' = Containers
        /\ lost' \subseteq Containers'
    BY <1>4, TerminateType DEF ShutdownTerminate
  <2>2. QED
    BY <1>4, <2>1
    DEF ShutdownTerminate, TypeOK, lifeVars, batchVars, clientVars, gaugeVars
<1>5. CASE LockForActive
  BY <1>5
  DEF LockForActive, TypeOK, Containers, dockerVars, batchVars, clientVars, gaugeVars
<1>6. CASE FinishShutdown
  BY <1>6
  DEF FinishShutdown, TypeOK, Containers, dockerVars, batchVars, clientVars, gaugeVars
<1>7. CASE UNCHANGED vars
  BY <1>7
  DEF vars, TypeOK, Containers, lifeVars, dockerVars, batchVars, clientVars, gaugeVars
<1>8. QED  BY <1>1, <1>2, <1>3, <1>4, <1>5, <1>6, <1>7 DEF ShutdownStep

\* Who has a container, and who does not, follows the client's own steps; no
\* other coroutine touches it.
LEMMA HandStep ==
  ASSUME TypeOK, HandMatchesPc, [Next]_vars
  PROVE  HandMatchesPc'
<1>p. \A q : PoolFor(q) \in Envs
  BY PoolAssumption DEF PoolFor
<1>i. \A e \in Envs : idle[e] # <<>> => Head(idle[e]) # 0
  <2> SUFFICES ASSUME NEW e \in Envs, idle[e] # <<>> PROVE Head(idle[e]) # 0
    OBVIOUS
  <2>1. Head(idle[e]) \in Containers
    BY HeadTailProperties DEF TypeOK
  <2>2. QED  BY <2>1, FleetIndexes DEF TypeOK, Containers
<1>1. ASSUME NEW a \in Clients, Acquire(a)
      PROVE  HandMatchesPc'
  <2>1. PICK q \in Requests :
          LET e == PoolFor(q) IN
          \/ /\ pc' = [pc EXCEPT ![a] = "waiting"]
             /\ hand' = hand
          \/ /\ idle[e] # <<>>
             /\ hand' = [hand EXCEPT ![a] = Head(idle[e])]
             /\ \/ pc' = [pc EXCEPT ![a] = "holding"]
                \/ pc' = [pc EXCEPT ![a] = "got"]
    BY <1>1 DEF Acquire
  <2>2. pc[a] = "start"
    BY <1>1 DEF Acquire
  <2>3. idle[PoolFor(q)] # <<>> => Head(idle[PoolFor(q)]) # 0
    BY <1>i, <1>p
  <2>4. CASE pc' = [pc EXCEPT ![a] = "waiting"] /\ hand' = hand
    BY <2>2, <2>4 DEF HandMatchesPc, TypeOK
  <2>5. CASE /\ hand' = [hand EXCEPT ![a] = Head(idle[PoolFor(q)])]
             /\ Head(idle[PoolFor(q)]) # 0
             /\ \/ pc' = [pc EXCEPT ![a] = "holding"]
                \/ pc' = [pc EXCEPT ![a] = "got"]
    BY <2>5 DEF HandMatchesPc, TypeOK
  <2>6. QED  BY <2>1, <2>3, <2>4, <2>5
<1>2. ASSUME NEW a \in Clients, ClientStep(a)
      PROVE  HandMatchesPc'
  <2>1. CASE TakeQueued(a)
    BY <2>1, <1>i, <1>p DEF TakeQueued, HandMatchesPc, TypeOK
  <2>2. CASE GiveUp(a)
    BY <2>2 DEF GiveUp, HandMatchesPc, TypeOK
  <2>3. CASE CreateOnDemand(a)
    <3>1. Len(fleet') \in Containers' /\ fleet' \in Seq(Instance)
      BY <2>3, <1>p, CreateContainerType DEF CreateOnDemand
    <3>2. Len(fleet') # 0
      BY <3>1, FleetIndexes DEF Containers
    <3>3. QED  BY <2>3, <3>2 DEF CreateOnDemand, HandMatchesPc, TypeOK
  <2>4. CASE Activate(a)
    BY <2>4 DEF Activate, HandMatchesPc, TypeOK
  <2>5. CASE Release(a)
    BY <2>5 DEF Release, StartCleanup, HandMatchesPc, TypeOK
  <2>6. QED  BY <1>2, <2>1, <2>2, <2>3, <2>4, <2>5 DEF ClientStep
<1>3. ASSUME UNCHANGED clientVars
      PROVE  HandMatchesPc'
  BY <1>3 DEF clientVars, HandMatchesPc
<1>4. ASSUME NEW r \in Replenishers, ReplenisherStep(r)
      PROVE  UNCHANGED clientVars
  BY <1>4 DEF ReplenisherStep, Replenish, BatchCreate, BatchPut
<1>5. ASSUME \/ Initialize \/ BeginShutdown \/ ShutdownStep
             \/ \E c \in cleaning : CleanupContainer(c) \/ CleanupCancelled(c)
             \/ \E e \in Envs : StrayEnds(e)
             \/ UNCHANGED vars
      PROVE  UNCHANGED clientVars
  BY <1>5
  DEF Initialize, BeginShutdown, ShutdownStep, DrainPop, ShutdownTerminate,
      LockForActive, FinishShutdown, CleanupContainer, CleanupCancelled,
      StrayEnds, vars
<1>6. QED
  BY <1>1, <1>2, <1>3, <1>4, <1>5 DEF Next, Quiesced

\* Every variable keeps its type, in every behaviour of the pool.
THEOREM TypeCorrect == Spec => [](TypeOK /\ HandMatchesPc)
<1>1. Init => TypeOK /\ HandMatchesPc
  BY InitTypeOK DEF Init, HandMatchesPc
<1>2. TypeOK /\ HandMatchesPc /\ [Next]_vars => (TypeOK /\ HandMatchesPc)'
  <2> SUFFICES ASSUME TypeOK, HandMatchesPc, [Next]_vars
               PROVE  TypeOK' /\ HandMatchesPc'
    OBVIOUS
  <2>1. TypeOK'
    BY ReplenisherTypeOK, ClientTypeOK, BackgroundTypeOK, LifespanTypeOK
    DEF Next, Quiesced
  <2>2. QED  BY <2>1, HandStep
<1>3. QED  BY <1>1, <1>2, PTL DEF Spec
-----------------------------------------------------------------------------
(***************************************************************************)
(* The queues stay bounded.  Each of the two replenishers of an environment *)
(* commits to at most MinIdle containers, and only to what it saw missing.  *)
(***************************************************************************)
SizeInv == TypeOK /\ BatchMatchesPhase /\ OvershootBounded

\* The arithmetic of one replenisher's step: either what it has queued and
\* what is on its way have the same sum as before, or they fill the queue to
\* the minimum; the partner of the environment stays within its own batch.
LEMMA BoundKept ==
  ASSUME OvershootBounded, NEW r \in Replenishers,
         \A q \in Replenishers : onItsWay[q] \in Nat /\ onItsWay'[q] \in Nat,
         \A e \in Envs : Len(idle[e]) \in Nat /\ Len(idle'[e]) \in Nat,
         \A q \in Replenishers \ {r} : onItsWay'[q] = onItsWay[q],
         \A e \in Envs \ {EnvOf(r)} : Len(idle'[e]) = Len(idle[e]),
         onItsWay'[r] <= MinIdle,
         \/ Len(idle'[EnvOf(r)]) + onItsWay'[r] <= MinIdle
         \/ Len(idle'[EnvOf(r)]) + onItsWay'[r]
              = Len(idle[EnvOf(r)]) + onItsWay[r]
  PROVE  OvershootBounded'
<1> SUFFICES ASSUME NEW e \in Envs
             PROVE  /\ onItsWay'[<<"worker", e>>] <= MinIdle
                    /\ onItsWay'[<<"seed", e>>] <= MinIdle
                    /\ Len(idle'[e]) + onItsWay'[<<"worker", e>>]
                         + onItsWay'[<<"seed", e>>] <= 2 * MinIdle
  BY DEF OvershootBounded
<1> DEFINE w == <<"worker", e>>
           s == <<"seed", e>>
<1>1. /\ onItsWay[w] <= MinIdle /\ onItsWay[s] <= MinIdle
      /\ Len(idle[e]) + onItsWay[w] + onItsWay[s] <= 2 * MinIdle
  BY DEF OvershootBounded
<1>2. w \in Replenishers /\ s \in Replenishers /\ w # s /\ MinIdle \in Nat
  BY PoolAssumption DEF Replenishers
<1>3. CASE e # EnvOf(r)
  <2>1. w # r /\ s # r
    BY <1>3 DEF EnvOf
  <2>2. onItsWay'[w] = onItsWay[w] /\ onItsWay'[s] = onItsWay[s]
    BY <2>1, <1>2
  <2>3. Len(idle'[e]) = Len(idle[e])
    BY <1>3
  <2> HIDE DEF w, s
  <2>4. QED  BY <2>2, <2>3, <1>1 DEF w, s
<1>4. CASE e = EnvOf(r) /\ r = w
  <2>1. onItsWay'[s] = onItsWay[s]
    BY <1>2, <1>4
  <2>2. /\ onItsWay'[w] <= MinIdle
        /\ \/ Len(idle'[e]) + onItsWay'[w] <= MinIdle
           \/ Len(idle'[e]) + onItsWay'[w] = Len(idle[e]) + onItsWay[w]
    BY <1>4
  <2>3. /\ onItsWay[w] \in Nat /\ onItsWay'[w] \in Nat /\ onItsWay[s] \in Nat
        /\ Len(idle[e]) \in Nat /\ Len(idle'[e]) \in Nat
    BY <1>2
  <2> DEFINE n == Len(idle[e])  m == Len(idle'[e])
             x == onItsWay[w]  y == onItsWay'[w]  z == onItsWay[s]
  <2>4. m + y + z <= 2 * MinIdle
    <3>1. n + x + z <= 2 * MinIdle /\ z <= MinIdle
      BY <1>1, <2>3
    <3>2. m + y <= MinIdle \/ m + y = n + x
      BY <2>2
    <3>3. /\ n \in Nat /\ m \in Nat /\ x \in Nat /\ y \in Nat /\ z \in Nat
          /\ MinIdle \in Nat
      BY <2>3, <1>2
    <3> HIDE DEF n, m, x, y, z
    <3>4. QED  BY <3>1, <3>2, <3>3
  <2>5. Len(idle'[e]) + onItsWay'[w] + onItsWay'[s] <= 2 * MinIdle
    BY <2>1, <2>3, <2>4
  <2>6. QED  BY <2>1, <2>2, <2>5, <1>1
<1>5. CASE e = EnvOf(r) /\ r = s
  <2>1. onItsWay'[w] = onItsWay[w]
    BY <1>2, <1>5
  <2>2. /\ onItsWay'[s] <= MinIdle
        /\ \/ Len(idle'[e]) + onItsWay'[s] <= MinIdle
           \/ Len(idle'[e]) + onItsWay'[s] = Len(idle[e]) + onItsWay[s]
    BY <1>5
  <2>3. /\ onItsWay[s] \in Nat /\ onItsWay'[s] \in Nat /\ onItsWay[w] \in Nat
        /\ Len(idle[e]) \in Nat /\ Len(idle'[e]) \in Nat
    BY <1>2
  <2> DEFINE n == Len(idle[e])  m == Len(idle'[e])
             x == onItsWay[s]  y == onItsWay'[s]  z == onItsWay[w]
  <2>4. m + y + z <= 2 * MinIdle
    <3>1. n + x + z <= 2 * MinIdle /\ z <= MinIdle
      BY <1>1, <2>3
    <3>2. m + y <= MinIdle \/ m + y = n + x
      BY <2>2
    <3>3. /\ n \in Nat /\ m \in Nat /\ x \in Nat /\ y \in Nat /\ z \in Nat
          /\ MinIdle \in Nat
      BY <2>3, <1>2
    <3> HIDE DEF n, m, x, y, z
    <3>4. QED  BY <3>1, <3>2, <3>3
  <2>5. Len(idle'[e]) + onItsWay'[w] + onItsWay'[s] <= 2 * MinIdle
    BY <2>1, <2>3, <2>4
  <2>6. QED  BY <2>1, <2>2, <2>5, <1>1
<1>6. r = w \/ r = s \/ e # EnvOf(r)
  BY DEF EnvOf, Replenishers
<1>7. QED  BY <1>3, <1>4, <1>5, <1>6 DEF EnvOf

\* The sizes are numbers, before a step and after it.
SizesAreNumbers ==
  /\ \A e \in Envs : Len(idle[e]) \in Nat
  /\ \A q \in Replenishers :
       pending[q] \in Nat /\ Len(made[q]) \in Nat /\ onItsWay[q] \in Nat

\* What a replenisher has on its way is a number.
LEMMA Sizes == TypeOK => SizesAreNumbers
<1> SUFFICES ASSUME TypeOK PROVE SizesAreNumbers
  OBVIOUS
<1>1. \A e \in Envs : Len(idle[e]) \in Nat
  BY LenProperties DEF TypeOK
<1>2. \A q \in Replenishers : pending[q] \in Nat /\ Len(made[q]) \in Nat
  BY LenProperties DEF TypeOK
<1>3. QED  BY <1>1, <1>2 DEF onItsWay, SizesAreNumbers

\* So it is after a step.
LEMMA SizesNext == TypeOK' => SizesAreNumbers'
<1> SUFFICES ASSUME TypeOK' PROVE SizesAreNumbers'
  OBVIOUS
<1>1. \A e \in Envs : Len(idle'[e]) \in Nat
  BY LenProperties DEF TypeOK
<1>2. \A q \in Replenishers : pending'[q] \in Nat /\ Len(made'[q]) \in Nat
  BY LenProperties DEF TypeOK
<1>3. QED  BY <1>1, <1>2 DEF onItsWay, SizesAreNumbers

\* What is in an environment's queue or on its way to it never exceeds twice
\* the minimum, whichever replenisher moves.
LEMMA ReplenisherSize ==
  ASSUME SizeInv, NEW r \in Replenishers, ReplenisherStep(r)
  PROVE  BatchMatchesPhase' /\ OvershootBounded'
<1>a. TypeOK /\ TypeOK' /\ EnvOf(r) \in Envs
  BY ReplenisherTypeOK DEF SizeInv, EnvOf, Replenishers
<1>b. SizesAreNumbers /\ SizesAreNumbers' /\ MinIdle \in Nat
  BY <1>a, Sizes, SizesNext, PoolAssumption
<1>c. BatchMatchesPhase /\ OvershootBounded
  BY DEF SizeInv
<1>d. stage # "down" /\ stage' = stage
  <2>1. CASE Replenish(r)
    BY <2>1 DEF Replenish, PoolRunning, lifeVars
  <2>2. CASE BatchCreate(r)
    BY <2>2, <1>c, <1>b DEF BatchCreate, BatchMatchesPhase, lifeVars
  <2>3. CASE BatchPut(r)
    BY <2>3, <1>c DEF BatchPut, BatchMatchesPhase, lifeVars
  <2>4. QED  BY <2>1, <2>2, <2>3 DEF ReplenisherStep
<1>1. CASE Replenish(r)
  <2>1. /\ pending[r] = 0 /\ made[r] = <<>> /\ onItsWay[r] = 0
        /\ made' = made /\ idle' = idle
    <3>1. pending[r] = 0 /\ made[r] = <<>>
      BY <1>1, <1>c DEF Replenish, BatchMatchesPhase
    <3>2. Len(made[r]) = 0
      BY <3>1
    <3>3. QED  BY <1>1, <3>1, <3>2 DEF Replenish, onItsWay
  <2>2. \/ /\ phase' = [phase EXCEPT ![r] = "creating"]
           /\ pending' = [pending EXCEPT ![r] = MinIdle - Len(idle[EnvOf(r)])]
        \/ phase' = [phase EXCEPT ![r] = Rest(r)] /\ pending' = pending
    BY <1>1 DEF Replenish, Needed
  <2>3. \A q \in Replenishers \ {r} : pending'[q] = pending[q] /\ phase'[q] = phase[q]
    BY <2>2, <1>a DEF TypeOK
  <2>4. \/ phase'[r] = "creating" /\ pending'[r] = MinIdle - Len(idle[EnvOf(r)])
        \/ phase'[r] # "creating" /\ pending'[r] = 0
    BY <2>1, <2>2, <1>a DEF TypeOK, Rest
  <2>5. BatchMatchesPhase'
    BY <2>1, <2>3, <2>4, <1>c, <1>d DEF BatchMatchesPhase
  <2>6. /\ \A q \in Replenishers \ {r} : onItsWay'[q] = onItsWay[q]
        /\ onItsWay'[r] = pending'[r]
    <3>1. Len(made'[r]) = 0
      BY <2>1
    <3>2. pending'[r] \in Nat
      BY <1>b DEF SizesAreNumbers
    <3>3. QED  BY <2>1, <2>3, <3>1, <3>2 DEF onItsWay
  <2>7. \/ Len(idle'[EnvOf(r)]) + onItsWay'[r] <= MinIdle
        \/ Len(idle'[EnvOf(r)]) + onItsWay'[r] = Len(idle[EnvOf(r)]) + onItsWay[r]
    BY <2>1, <2>4, <2>6, <1>a, <1>b DEF SizesAreNumbers
  <2>8. onItsWay'[r] <= MinIdle
    BY <2>4, <2>6, <1>a, <1>b DEF SizesAreNumbers
  <2>9. OvershootBounded'
    BY <2>1, <2>6, <2>7, <2>8, <1>b, <1>c, BoundKept DEF SizesAreNumbers
  <2>10. QED  BY <2>5, <2>9
<1>2. CASE BatchCreate(r)
  <2>1. /\ pending[r] > 0 /\ idle' = idle /\ phase' = phase
        /\ pending' = [pending EXCEPT ![r] = pending[r] - 1]
        /\ made' = [made EXCEPT ![r] = Append(made[r], Len(fleet'))]
    BY <1>2 DEF BatchCreate
  <2>2. /\ pending'[r] = pending[r] - 1
        /\ made'[r] = Append(made[r], Len(fleet'))
        /\ \A q \in Replenishers \ {r} : pending'[q] = pending[q] /\ made'[q] = made[q]
    BY <2>1, <1>a DEF TypeOK
  <2>3. Len(made'[r]) = Len(made[r]) + 1
    <3>1. made[r] \in Seq(Containers) /\ Containers \subseteq Containers'
          /\ Len(fleet') \in Containers'
      BY <1>2, <1>a, CreateContainerType DEF BatchCreate, TypeOK
    <3>2. made[r] \in Seq(Containers')
      BY <3>1, SeqMonotonic
    <3>3. QED  BY <2>2, <3>1, <3>2, AppendProperties
  <2>4. phase[r] = "creating"
    BY <2>1, <1>b, <1>c DEF BatchMatchesPhase
  <2>5. BatchMatchesPhase'
    BY <2>1, <2>2, <2>4, <1>c, <1>d DEF BatchMatchesPhase
  <2>6. /\ \A q \in Replenishers \ {r} : onItsWay'[q] = onItsWay[q]
        /\ onItsWay'[r] = onItsWay[r]
    <3>1. /\ onItsWay'[r] = pending'[r] + Len(made'[r])
          /\ onItsWay[r] = pending[r] + Len(made[r])
          /\ pending[r] \in Nat /\ Len(made[r]) \in Nat
      BY <1>b DEF onItsWay, SizesAreNumbers
    <3>2. pending'[r] = pending[r] - 1
      BY <2>2
    <3>3. onItsWay'[r] = onItsWay[r]
      BY <2>3, <3>1, <3>2
    <3>4. QED  BY <2>2, <3>3 DEF onItsWay
  <2>7. onItsWay'[r] <= MinIdle
    <3>1. r = <<"worker", EnvOf(r)>> \/ r = <<"seed", EnvOf(r)>>
      BY DEF EnvOf, Replenishers
    <3>2. QED  BY <2>6, <3>1, <1>a, <1>c DEF OvershootBounded
  <2>8. OvershootBounded'
    BY <2>1, <2>6, <2>7, <1>b, <1>c, BoundKept DEF SizesAreNumbers
  <2>9. QED  BY <2>5, <2>8
<1>3. CASE BatchPut(r)
  <2>1. /\ pending' = pending /\ pending[r] = 0
        /\ phase' = [phase EXCEPT ![r] = Rest(r)]
        /\ idle' = [idle EXCEPT ![EnvOf(r)] = idle[EnvOf(r)] \o made[r]]
        /\ made' = [made EXCEPT ![r] = <<>>]
    BY <1>3 DEF BatchPut
  <2>2. /\ \A e \in Envs \ {EnvOf(r)} : idle'[e] = idle[e]
        /\ idle'[EnvOf(r)] = idle[EnvOf(r)] \o made[r]
        /\ \A q \in Replenishers \ {r} : made'[q] = made[q] /\ phase'[q] = phase[q]
        /\ made'[r] = <<>> /\ phase'[r] # "creating"
    BY <2>1, <1>a DEF TypeOK, Rest
  <2>3. Len(idle'[EnvOf(r)]) = Len(idle[EnvOf(r)]) + Len(made[r])
    BY <2>2, <1>a, ConcatProperties DEF TypeOK
  <2>4. BatchMatchesPhase'
    BY <2>1, <2>2, <1>c, <1>d DEF BatchMatchesPhase
  <2>5. /\ \A q \in Replenishers \ {r} : onItsWay'[q] = onItsWay[q]
        /\ onItsWay'[r] = 0 /\ onItsWay[r] = Len(made[r])
    <3>1. Len(made'[r]) = 0
      BY <2>2
    <3>2. QED  BY <2>1, <2>2, <3>1, <1>b DEF onItsWay, SizesAreNumbers
  <2>6. OvershootBounded'
    <3>1. /\ \A e \in Envs \ {EnvOf(r)} : Len(idle'[e]) = Len(idle[e])
          /\ Len(idle'[EnvOf(r)]) + onItsWay'[r] = Len(idle[EnvOf(r)]) + onItsWay[r]
          /\ onItsWay'[r] <= MinIdle
      BY <2>2, <2>3, <2>5, <1>a, <1>b DEF SizesAreNumbers
    <3>2. QED
      BY <2>5, <3>1, <1>b, <1>c, BoundKept DEF SizesAreNumbers
  <2>7. QED  BY <2>4, <2>6
<1>4. QED  BY <1>1, <1>2, <1>3 DEF ReplenisherStep

\* Clients and shutdown leave the batches alone and only shorten the queues.
LEMMA TakerSize ==
  ASSUME SizeInv, TypeOK', UNCHANGED batchVars,
         stage' = "down" => stage = "down",
         stage = "down" => idle' = idle,
         \/ idle' = idle
         \/ \E e \in Envs : /\ idle[e] # <<>>
                           /\ PopIdle(e)
  PROVE  BatchMatchesPhase' /\ OvershootBounded'
<1>1. BatchMatchesPhase'
  BY DEF SizeInv, BatchMatchesPhase, batchVars
<1>2. SizesAreNumbers /\ SizesAreNumbers'
  BY Sizes, SizesNext DEF SizeInv
<1>3. \A e \in Envs : Len(idle'[e]) <= Len(idle[e])
  <2>1. CASE idle' = idle
    BY <2>1, <1>2 DEF SizesAreNumbers
  <2>2. ASSUME NEW e \in Envs, idle[e] # <<>>, PopIdle(e)
        PROVE  \A f \in Envs : Len(idle'[f]) <= Len(idle[f])
    <3>1. Len(Tail(idle[e])) = Len(idle[e]) - 1
      BY <2>2, HeadTailProperties DEF SizeInv, TypeOK
    <3>2. idle'[e] = Tail(idle[e]) /\ \A f \in Envs \ {e} : idle'[f] = idle[f]
      BY <2>2 DEF PopIdle, SizeInv, TypeOK
    <3>3. \A f \in Envs : Len(idle[f]) \in Nat
      BY <1>2 DEF SizesAreNumbers
    <3>4. Len(idle'[e]) <= Len(idle[e])
      BY <3>1, <3>2, <3>3
    <3>5. ASSUME NEW f \in Envs \ {e} PROVE Len(idle'[f]) <= Len(idle[f])
      BY <3>2, <3>3
    <3>6. QED  BY <3>4, <3>5
  <2>3. QED  BY <2>1, <2>2
<1>4. onItsWay' = onItsWay
  BY DEF onItsWay, batchVars
<1>5. OvershootBounded'
  <2> SUFFICES ASSUME NEW e \in Envs
               PROVE  /\ onItsWay'[<<"worker", e>>] <= MinIdle
                      /\ onItsWay'[<<"seed", e>>] <= MinIdle
                      /\ Len(idle'[e]) + onItsWay'[<<"worker", e>>]
                           + onItsWay'[<<"seed", e>>] <= 2 * MinIdle
    BY DEF OvershootBounded
  <2>1. <<"worker", e>> \in Replenishers /\ <<"seed", e>> \in Replenishers
    BY DEF Replenishers
  <2>2. /\ onItsWay[<<"worker", e>>] \in Nat /\ onItsWay[<<"seed", e>>] \in Nat
        /\ Len(idle[e]) \in Nat /\ Len(idle'[e]) \in Nat
    BY <2>1, <1>2 DEF SizesAreNumbers
  <2>3. /\ onItsWay[<<"worker", e>>] <= MinIdle
        /\ onItsWay[<<"seed", e>>] <= MinIdle
        /\ Len(idle[e]) + onItsWay[<<"worker", e>>] + onItsWay[<<"seed", e>>]
             <= 2 * MinIdle
    BY DEF SizeInv, OvershootBounded
  <2>4. Len(idle'[e]) <= Len(idle[e]) /\ MinIdle \in Nat
    BY <1>3, PoolAssumption
  <2>5. /\ onItsWay'[<<"worker", e>>] = onItsWay[<<"worker", e>>]
        /\ onItsWay'[<<"seed", e>>] = onItsWay[<<"seed", e>>]
    BY <1>4
  <2>6. \A w, s, n, k \in Nat :
          n <= k /\ k + w + s <= 2 * MinIdle => n + w + s <= 2 * MinIdle
    BY <2>4
  <2>7. Len(idle'[e]) + onItsWay[<<"worker", e>>] + onItsWay[<<"seed", e>>]
          <= 2 * MinIdle
    BY <2>2, <2>3, <2>4, <2>6
  <2>8. QED  BY <2>3, <2>5, <2>7
<1>6. QED  BY <1>1, <1>5

\* The first batch of initialize starts from empty queues, and shutdown
\* cancels whatever is on its way.
LEMMA LifespanSize ==
  ASSUME SizeInv, TypeOK', Initialize \/ BeginShutdown
  PROVE  BatchMatchesPhase' /\ OvershootBounded'
<1>1. SizesAreNumbers /\ SizesAreNumbers' /\ MinIdle \in Nat
  BY Sizes, SizesNext, PoolAssumption DEF SizeInv
<1>2. CASE Initialize
  <2>1. PICK e \in Envs :
          /\ phase' = [r \in Replenishers |->
                         IF r = <<"seed", e>> THEN "creating" ELSE "asleep"]
          /\ pending' = [pending EXCEPT ![<<"seed", e>>] = MinIdle]
    BY <1>2 DEF Initialize
  <2>2. /\ stage = "down" /\ stage' = "up" /\ idle' = idle /\ made' = made
        /\ \A r \in Replenishers : pending[r] = 0 /\ made[r] = <<>>
        /\ \A f \in Envs : idle[f] = <<>>
    BY <1>2 DEF Initialize, SizeInv, BatchMatchesPhase
  <2>3. \A r \in Replenishers : pending'[r] = IF r = <<"seed", e>> THEN MinIdle ELSE 0
    BY <2>1, <2>2 DEF SizeInv, TypeOK
  <2>4. BatchMatchesPhase'
    BY <2>1, <2>2, <2>3 DEF BatchMatchesPhase
  <2>5. \A r \in Replenishers :
          onItsWay'[r] = IF r = <<"seed", e>> THEN MinIdle ELSE 0
    <3>1. Len(<<>>) = 0
      OBVIOUS
    <3>2. QED  BY <2>2, <2>3, <3>1, <1>1 DEF onItsWay
  <2>6. \A f \in Envs : Len(idle'[f]) = 0
    BY <2>2
  <2>7. \A f \in Envs : /\ <<"worker", f>> \in Replenishers
                       /\ <<"seed", f>> \in Replenishers
                       /\ <<"worker", f>> # <<"seed", e>>
    BY DEF Replenishers
  <2>8. OvershootBounded'
    <3> SUFFICES ASSUME NEW f \in Envs
                 PROVE  /\ onItsWay'[<<"worker", f>>] <= MinIdle
                        /\ onItsWay'[<<"seed", f>>] <= MinIdle
                        /\ Len(idle'[f]) + onItsWay'[<<"worker", f>>]
                             + onItsWay'[<<"seed", f>>] <= 2 * MinIdle
      BY DEF OvershootBounded
    <3>1. /\ onItsWay'[<<"worker", f>>] = 0
          /\ onItsWay'[<<"seed", f>>] \in {0, MinIdle}
          /\ Len(idle'[f]) = 0
      BY <2>5, <2>6, <2>7
    <3>2. QED  BY <3>1, <1>1
  <2>9. QED  BY <2>4, <2>8
<1>3. CASE BeginShutdown
  <2>1. /\ stage' = "draining" /\ idle' = idle
        /\ pending' = [r \in Replenishers |-> 0]
        /\ made' = [r \in Replenishers |-> <<>>]
    BY <1>3 DEF BeginShutdown, CancelWorkers
  <2>2. BatchMatchesPhase'
    BY <2>1 DEF BatchMatchesPhase
  <2>3. \A r \in Replenishers : onItsWay'[r] = 0
    <3>1. Len(<<>>) = 0
      OBVIOUS
    <3>2. QED  BY <2>1, <3>1 DEF onItsWay
  <2>4. \A e \in Envs : Len(idle'[e]) <= 2 * MinIdle
    <3> SUFFICES ASSUME NEW e \in Envs PROVE Len(idle[e]) <= 2 * MinIdle
      BY <2>1
    <3>1. <<"worker", e>> \in Replenishers /\ <<"seed", e>> \in Replenishers
      BY DEF Replenishers
    <3>2. /\ onItsWay[<<"worker", e>>] \in Nat /\ onItsWay[<<"seed", e>>] \in Nat
          /\ Len(idle[e]) \in Nat
      BY <3>1, <1>1 DEF SizesAreNumbers
    <3>3. Len(idle[e]) + onItsWay[<<"worker", e>>] + onItsWay[<<"seed", e>>]
            <= 2 * MinIdle
      BY DEF SizeInv, OvershootBounded
    <3>4. QED  BY <3>2, <3>3, PoolAssumption
  <2>5. \A f \in Envs : <<"worker", f>> \in Replenishers /\ <<"seed", f>> \in Replenishers
    BY DEF Replenishers
  <2>6. OvershootBounded'
    <3> SUFFICES ASSUME NEW f \in Envs
                 PROVE  /\ onItsWay'[<<"worker", f>>] <= MinIdle
                        /\ onItsWay'[<<"seed", f>>] <= MinIdle
                        /\ Len(idle'[f]) + onItsWay'[<<"worker", f>>]
                             + onItsWay'[<<"seed", f>>] <= 2 * MinIdle
      BY DEF OvershootBounded
    <3>1. onItsWay'[<<"worker", f>>] = 0 /\ onItsWay'[<<"seed", f>>] = 0
      BY <2>3, <2>5
    <3>2. Len(idle'[f]) \in Nat /\ Len(idle'[f]) <= 2 * MinIdle
      BY <2>4, <1>1 DEF SizesAreNumbers
    <3>3. QED  BY <3>1, <3>2, <1>1
  <2>7. QED  BY <2>2, <2>6
<1>4. QED  BY <1>2, <1>3

\* The seeding pass and the worker together never fill a queue beyond twice
\* POOL_MIN_IDLE, although neither knows of the other's batch.
THEOREM NeverMoreThanTwice == Spec => []OvershootBounded
<1>1. Init => BatchMatchesPhase /\ OvershootBounded
  <2> SUFFICES ASSUME Init PROVE BatchMatchesPhase /\ OvershootBounded
    OBVIOUS
  <2>1. Len(<<>>) = 0
    OBVIOUS
  <2>2. \A e \in Envs : <<"worker", e>> \in Replenishers /\ <<"seed", e>> \in Replenishers
    BY DEF Replenishers
  <2>3. QED
    BY <2>1, <2>2, PoolAssumption
    DEF Init, BatchMatchesPhase, OvershootBounded, onItsWay
<1>2. TypeOK /\ TypeOK' /\ BatchMatchesPhase /\ OvershootBounded /\ [Next]_vars
        => (BatchMatchesPhase /\ OvershootBounded)'
  <2> SUFFICES ASSUME TypeOK', SizeInv, [Next]_vars
               PROVE  BatchMatchesPhase' /\ OvershootBounded'
    BY DEF SizeInv
  <2>1. ASSUME NEW r \in Replenishers, ReplenisherStep(r)
        PROVE  BatchMatchesPhase' /\ OvershootBounded'
    BY <2>1, ReplenisherSize
  <2>2. CASE Initialize \/ BeginShutdown
    BY <2>2, LifespanSize
  <2>3. ASSUME NEW a \in Clients, Acquire(a) \/ ClientStep(a)
        PROVE  BatchMatchesPhase' /\ OvershootBounded'
    <3>1. \A q : PoolFor(q) \in Envs
      BY PoolAssumption DEF PoolFor
    <3>2. UNCHANGED batchVars /\ stage' = stage
      BY <2>3
      DEF Acquire, ClientStep, TakeQueued, GiveUp, CreateOnDemand, Activate,
          Release, StartCleanup, lifeVars
    <3>3. \/ idle' = idle
          \/ \E e \in Envs : /\ idle[e] # <<>>
                            /\ PopIdle(e)
      BY <2>3, <3>1
      DEF Acquire, ClientStep, TakeQueued, GiveUp, CreateOnDemand, Activate,
          Release
    <3>4. stage = "down" => idle' = idle
      <4> SUFFICES ASSUME stage = "down" PROVE idle' = idle
        OBVIOUS
      <4>1. \A e \in Envs : idle[e] = <<>>
        BY DEF SizeInv, BatchMatchesPhase
      <4>2. QED  BY <3>3, <4>1
    <3>5. QED  BY <3>2, <3>3, <3>4, TakerSize
  <2>4. CASE \/ \E c \in cleaning : CleanupContainer(c) \/ CleanupCancelled(c)
             \/ \E e \in Envs : StrayEnds(e)
             \/ UNCHANGED vars
    <3>1. UNCHANGED batchVars /\ stage' = stage /\ idle' = idle
      BY <2>4 DEF CleanupContainer, CleanupCancelled, StrayEnds, vars, lifeVars
    <3>2. QED  BY <3>1, TakerSize
  <2>5. CASE ShutdownStep
    <3>2. \/ idle' = idle
          \/ \E e \in Envs : /\ idle[e] # <<>>
                            /\ PopIdle(e)
      BY <2>5
      DEF ShutdownStep, DrainPop, ShutdownTerminate, LockForActive,
          FinishShutdown
    <3>3. /\ stage' = "down" => stage = "down"
          /\ stage = "down" => idle' = idle
      BY <2>5
      DEF ShutdownStep, DrainPop, ShutdownTerminate, LockForActive,
          FinishShutdown, lifeVars
    <3>4. UNCHANGED batchVars
      BY <2>5
      DEF ShutdownStep, DrainPop, ShutdownTerminate, LockForActive,
          FinishShutdown
    <3>5. QED  BY <3>2, <3>3, <3>4, TakerSize
  <2>6. QED
    BY <2>1, <2>2, <2>3, <2>4, <2>5 DEF Next, Quiesced
<1>3. Spec => []TypeOK
  BY TypeCorrect, PTL
<1>4. QED  BY <1>1, <1>2, <1>3, PTL DEF Spec

(***************************************************************************)
(* The gauges.                                                              *)
(***************************************************************************)
\* Before initialize the idle gauges are as right as while the pool runs: what
\* makes IdleGaugeExact inductive.
GaugeOrGot(e) ==
  \/ idleGauge[e] = Len(idle[e])
  \/ \E a \in Clients : pc[a] = "got" /\ PoolFor(asked[a]) = e

IdleGaugeInv == stage \in {"down", "up"} => \A e \in Envs : GaugeOrGot(e)

\* The gauge of one environment is set and the other queues are left alone.
LEMMA GaugeShown ==
  ASSUME IdleGaugeInv, NEW e \in Envs, ShowIdle(e, idle'[e]),
         idleGauge \in [Envs -> Nat],
         \A f \in Envs \ {e} : idle'[f] = idle[f],
         stage' = stage,
         \A a \in Clients :
           pc[a] = "got" /\ PoolFor(asked[a]) # e =>
             pc'[a] = "got" /\ asked'[a] = asked[a]
  PROVE  IdleGaugeInv'
<1>1. /\ idleGauge'[e] = Len(idle'[e])
      /\ \A f \in Envs \ {e} : idleGauge'[f] = idleGauge[f]
  BY DEF ShowIdle
<1>2. QED  BY <1>1 DEF IdleGaugeInv, GaugeOrGot, PoolFor

\* No queue and no gauge is touched, and whoever has yet to leave acquire stays.
LEMMA GaugeKept ==
  ASSUME IdleGaugeInv, UNCHANGED <<idle, idleGauge>>,
         stage' \in {"down", "up"} => stage \in {"down", "up"},
         \A a \in Clients :
           pc[a] = "got" => pc'[a] = "got" /\ asked'[a] = asked[a]
  PROVE  IdleGaugeInv'
BY DEF IdleGaugeInv, GaugeOrGot, PoolFor

\* While the pool runs, an idle gauge lags behind its queue only for a client
\* that is between the queue and the lock.
LEMMA IdleGaugeStep ==
  ASSUME TypeOK, IdleGaugeInv, [Next]_vars
  PROVE  IdleGaugeInv'
<1> USE DEF lifeVars, batchVars, clientVars, gaugeVars
<1>1. \A q : PoolFor(q) \in Envs
  BY PoolAssumption DEF PoolFor
<1>2. \A r \in Replenishers : EnvOf(r) \in Envs
  BY DEF Replenishers, EnvOf
<1>3. CASE stage' \notin {"down", "up"}
  BY <1>3 DEF IdleGaugeInv
<1>4. ASSUME NEW r \in Replenishers, Replenish(r) PROVE IdleGaugeInv'
  <2>1. /\ UNCHANGED <<idle, stage, pc, asked>>
        /\ UNCHANGED idleGauge \/ ShowIdle(EnvOf(r), idle[EnvOf(r)])
    BY <1>4 DEF Replenish
  <2>2. CASE UNCHANGED idleGauge
    BY <2>1, <2>2, GaugeKept
  <2>3. CASE ShowIdle(EnvOf(r), idle'[EnvOf(r)])
    BY <1>2, <2>1, <2>3, GaugeShown DEF TypeOK
  <2>4. QED  BY <2>1, <2>2, <2>3
<1>5. ASSUME NEW r \in Replenishers, BatchPut(r) PROVE IdleGaugeInv'
  <2>1. /\ UNCHANGED <<stage, pc, asked>> /\ ShowIdle(EnvOf(r), idle'[EnvOf(r)])
        /\ \A f \in Envs \ {EnvOf(r)} : idle'[f] = idle[f]
    BY <1>5 DEF BatchPut, TypeOK
  <2>2. QED  BY <1>2, <2>1, GaugeShown DEF TypeOK
<1>6. ASSUME NEW a \in Clients, Acquire(a), LockFree PROVE IdleGaugeInv'
  <2>1. PICK q \in Requests :
          /\ asked' = [asked EXCEPT ![a] = q]
          /\ \/ /\ pc' = [pc EXCEPT ![a] = "waiting"]
                /\ UNCHANGED <<idle, idleGauge>>
             \/ /\ PopIdle(PoolFor(q)) /\ pc' = [pc EXCEPT ![a] = "holding"]
                /\ ShowIdle(PoolFor(q), idle'[PoolFor(q)])
    BY <1>6 DEF Acquire, EnterActive
  <2>2. /\ UNCHANGED stage
        /\ \A b \in Clients :
             pc[b] = "got" => pc'[b] = "got" /\ asked'[b] = asked[b]
    BY <1>6, <2>1 DEF Acquire, TypeOK
  <2>3. CASE UNCHANGED <<idle, idleGauge>>
    BY <2>2, <2>3, GaugeKept
  <2>4. CASE /\ PopIdle(PoolFor(q))
             /\ ShowIdle(PoolFor(q), idle'[PoolFor(q)])
    <3>1. \A f \in Envs \ {PoolFor(q)} : idle'[f] = idle[f]
      BY <2>4 DEF PopIdle, TypeOK
    <3>2. QED  BY <1>1, <2>2, <2>4, <3>1, GaugeShown DEF TypeOK
  <2>5. QED  BY <2>1, <2>3, <2>4
<1>7. ASSUME NEW a \in Clients, TakeQueued(a) PROVE IdleGaugeInv'
  <2>1. /\ UNCHANGED <<stage, asked, idleGauge>> /\ pc'[a] = "got"
        /\ \A b \in Clients : pc[b] = "got" => pc'[b] = "got"
        /\ \A f \in Envs \ {PoolFor(asked[a])} : idle'[f] = idle[f]
    BY <1>7 DEF TakeQueued, PopIdle, TypeOK
  <2>2. QED  BY <2>1 DEF IdleGaugeInv, GaugeOrGot
<1>8. ASSUME NEW a \in Clients, Activate(a) PROVE IdleGaugeInv'
  <2>1. /\ UNCHANGED <<stage, asked, idle>>
        /\ \A b \in Clients \ {a} : pc[b] = "got" => pc'[b] = "got"
        /\ ShowIdle(PoolFor(asked[a]), idle'[PoolFor(asked[a])])
    BY <1>8 DEF Activate, EnterActive, TypeOK
  <2>2. QED  BY <1>1, <2>1, GaugeShown DEF TypeOK
<1>9. ASSUME NEW a \in Clients, GiveUp(a) \/ CreateOnDemand(a) \/ Release(a)
      PROVE  IdleGaugeInv'
  <2>1. /\ UNCHANGED <<stage, asked, idle, idleGauge>>
        /\ \A b \in Clients : pc[b] = "got" => pc'[b] = "got"
    BY <1>9 DEF GiveUp, CreateOnDemand, Release, TypeOK
  <2>2. QED  BY <2>1, GaugeKept
<1>10. CASE \/ Initialize \/ Quiesced \/ UNCHANGED vars
            \/ \E r \in Replenishers : BatchCreate(r)
            \/ \E c \in cleaning : CleanupContainer(c) \/ CleanupCancelled(c)
            \/ \E e \in Envs : StrayEnds(e)
            \/ \E c \in doomed : ShutdownTerminate(c)
  <2>1. /\ UNCHANGED <<pc, asked, idle, idleGauge>>
        /\ stage' \in {"down", "up"} => stage \in {"down", "up"}
    BY <1>10
    DEF Initialize, Quiesced, vars, BatchCreate, CleanupContainer,
        CleanupCancelled, StrayEnds, ShutdownTerminate
  <2>2. QED  BY <2>1, GaugeKept
<1>11. CASE \/ BeginShutdown \/ LockForActive \/ FinishShutdown
            \/ \E e \in Envs : DrainPop(e)
            \/ \E a \in Clients : Acquire(a) /\ ~LockFree
  BY <1>3, <1>11
  DEF BeginShutdown, LockForActive, FinishShutdown, DrainPop, Acquire, LockFree
<1>12. QED
  BY <1>4, <1>5, <1>6, <1>7, <1>8, <1>9, <1>10, <1>11
  DEF Next, ReplenisherStep, ClientStep, ShutdownStep

\* POOL_IDLE_CONTAINERS is the length of the queue, except for a client that
\* took a container from it and waits for the lock.
THEOREM IdleGaugeRight == Spec => []IdleGaugeExact
<1>1. Init => IdleGaugeInv
  <2>1. Len(<<>>) = 0
    OBVIOUS
  <2>2. QED  BY <2>1 DEF Init, IdleGaugeInv, GaugeOrGot
<1>2. TypeOK /\ IdleGaugeInv /\ [Next]_vars => IdleGaugeInv'
  BY IdleGaugeStep
<1>3. IdleGaugeInv => IdleGaugeExact
  BY DEF IdleGaugeInv, GaugeOrGot, IdleGaugeExact
<1>4. Spec => []TypeOK
  BY TypeCorrect, PTL
<1>5. QED  BY <1>1, <1>2, <1>3, <1>4, PTL DEF Spec
=============================================================================
