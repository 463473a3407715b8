---------------------------- MODULE PoolPlacesProofs ----------------------------
(***************************************************************************)
(* Proofs about WarmPool: where containers are, what they are and who uses  *)
(* them, for every set of clients, environments and faults.                 *)
(***************************************************************************)
EXTENDS WarmPoolProofs, QueueTheorems

(***************************************************************************)
(* The inductive invariants.                                                *)
(***************************************************************************)
\* Isolation, and that batches keep apart, too.
HandsApart ==
  \A a \in Clients : hand[a] # 0 =>
    /\ \A b \in Clients : hand[b] = hand[a] => b = a
    /\ hand[a] \notin cleaning
    /\ \A e \in Envs : hand[a] \notin Range(idle[e])
    /\ \A r \in Replenishers : hand[a] \notin Range(made[r])

QueuesApart ==
  \A e \in Envs :
    /\ IsInjective(idle[e])
    /\ Range(idle[e]) \cap cleaning = {}
    /\ \A f \in Envs : f # e => Range(idle[e]) \cap Range(idle[f]) = {}
    /\ \A r \in Replenishers : Range(idle[e]) \cap Range(made[r]) = {}

BatchesApart ==
  \A r \in Replenishers :
    /\ IsInjective(made[r])
    /\ Range(made[r]) \cap cleaning = {}
    /\ \A q \in Replenishers : q # r => Range(made[r]) \cap Range(made[q]) = {}

Apart == HandsApart /\ QueuesApart /\ BatchesApart

\* A container is where its environment says.
RightPlace ==
  /\ \A e \in Envs : \A c \in Range(idle[e]) : fleet[c].env = e
  /\ \A r \in Replenishers : \A c \in Range(made[r]) : fleet[c].env = EnvOf(r)
  /\ \A a \in Clients : hand[a] # 0 => fleet[hand[a]].env = PoolFor(asked[a])

\* What shutdown has stopped and emptied stays so.
Quiet ==
  /\ stage \in {"draining", "locked", "stopped"} =>
       \A r \in Replenishers : phase[r] = "ended" /\ pending[r] = 0 /\ made[r] = <<>>
  /\ stage \in {"locked", "stopped"} => \A e \in Envs : idle[e] = <<>>

\* What shutdown terminates while it drains the queues is nobody else's.
DoomedApart ==
  /\ stage \in {"down", "up", "stopped"} => doomed = {}
  /\ stage = "draining" => doomed \cap (Held \cup Queued \cup InBatch \cup cleaning) = {}

\* Whatever may still be handed out has not been removed.
Alive ==
  /\ \A c \in Queued \cup InBatch : fleet[c].docker # "removed"
  /\ stage \in {"down", "up", "draining"} =>
       \A c \in Held : fleet[c].docker # "removed"

PlacesInv ==
  /\ TypeOK /\ HandMatchesPc
  /\ Apart /\ RightPlace /\ Quiet /\ DoomedApart /\ Alive
  /\ ActiveIsHeld /\ NoSilentLeak

(***************************************************************************)
(* What building and terminating a container changes.                       *)
(***************************************************************************)
\* _create_container returns a container nobody can know yet, and leaves those
\* there are alone; what else it starts is lost.
LEMMA CreateContainerBuilds ==
  ASSUME TypeOK, NEW e \in Envs, CreateContainer(e)
  PROVE  /\ Len(fleet') \in Nat \ Containers /\ Len(fleet') # 0
         /\ \A c \in Containers : fleet'[c] = fleet[c]
         /\ fleet'[Len(fleet')] \in {Real(e), Mock(e)}
         /\ Running' \subseteq Running \cup lost' \cup {Len(fleet')}
         /\ lost \subseteq lost'
<1>1. /\ fleet \in Seq(Instance) /\ Len(fleet) \in Nat
      /\ Containers = 1 .. Len(fleet)
      /\ Real(e) \in Instance /\ Mock(e) \in Instance
  BY FleetIndexes DEF TypeOK, Containers, Real, Mock, Instance
<1>2. ASSUME NEW i \in {Real(e), Mock(e)}, fleet' = Append(fleet, i)
      PROVE  /\ Len(fleet') = Len(fleet) + 1 /\ Containers' = 1 .. Len(fleet) + 1
             /\ \A c \in Containers : fleet'[c] = fleet[c]
             /\ fleet'[Len(fleet')] = i
  BY <1>1, <1>2, FleetIndexes DEF Containers
<1>3. ASSUME NEW i \in {Real(e), Mock(e)}, fleet' = Append(fleet, i),
             lost \subseteq lost'
      PROVE  /\ Len(fleet') \in Nat \ Containers /\ Len(fleet') # 0
             /\ \A c \in Containers : fleet'[c] = fleet[c]
             /\ fleet'[Len(fleet')] \in {Real(e), Mock(e)}
             /\ Running' \subseteq Running \cup lost' \cup {Len(fleet')}
  <2>1. Len(fleet') \in Nat \ Containers /\ Len(fleet') # 0
    BY <1>1, <1>2, <1>3
  <2>2. ASSUME NEW c \in Containers', c # Len(fleet') PROVE c \in Containers
    BY <1>1, <1>2, <1>3, <2>2
  <2>3. Running' \subseteq Running \cup {Len(fleet')}
    BY <1>2, <1>3, <2>2 DEF Running
  <2>4. QED  BY <1>2, <1>3, <2>1, <2>3
<1>4. CASE /\ fleet' = fleet \o <<Real(e), Mock(e)>>
           /\ lost' = lost \cup {Len(fleet) + 1}
  <2>1. <<Real(e), Mock(e)>> \in Seq(Instance) /\ Len(<<Real(e), Mock(e)>>) = 2
    BY <1>1
  <2>2. /\ fleet' \in Seq(Instance) /\ Len(fleet') = Len(fleet) + 2
        /\ \A i \in 1 .. Len(fleet) + 2 :
             fleet'[i] = IF i <= Len(fleet) THEN fleet[i]
                         ELSE <<Real(e), Mock(e)>>[i - Len(fleet)]
    BY <1>1, <1>4, <2>1, ConcatProperties
  <2>3. /\ Len(fleet') \in Nat \ Containers /\ Len(fleet') # 0
        /\ Containers' = 1 .. Len(fleet) + 2
        /\ \A c \in Containers : fleet'[c] = fleet[c]
    BY <1>1, <2>2, LenProperties DEF Containers
  <2>4. fleet'[Len(fleet')] = Mock(e)
    <3>1. /\ Len(fleet) + 2 \in 1 .. Len(fleet) + 2
          /\ ~(Len(fleet) + 2 <= Len(fleet)) /\ Len(fleet) + 2 - Len(fleet) = 2
      BY <1>1
    <3>2. QED  BY <2>2, <3>1
  <2>5. ASSUME NEW c \in Containers', c # Len(fleet'), c # Len(fleet) + 1
        PROVE  c \in Containers
    BY <1>1, <2>2, <2>3, <2>5
  <2>6. Running' \subseteq Running \cup lost' \cup {Len(fleet')}
    BY <1>4, <2>3, <2>5 DEF Running
  <2>7. QED  BY <1>4, <2>3, <2>4, <2>6
<1>5. QED  BY <1>3, <1>4 DEF CreateContainer

\* terminate touches one container, which then does not run or is lost.
LEMMA TerminateRemoves ==
  ASSUME TypeOK, NEW c \in Containers, Terminate(c)
  PROVE  /\ \A x \in Containers : fleet'[x].env = fleet[x].env
         /\ \A x \in Containers \ {c} : fleet'[x] = fleet[x]
         /\ Running' \subseteq Running
         /\ c \in Running' => c \in lost'
         /\ lost \subseteq lost'
<1>1. fleet \in Seq(Instance) /\ Containers' = Containers
  BY TerminateType DEF TypeOK
<1>2. Containers = 1 .. Len(fleet) /\ fleet \in [Containers -> Instance]
  <2>1. Containers = 1 .. Len(fleet)
    BY <1>1, FleetIndexes DEF Containers
  <2>2. QED  BY <1>1, <2>1, SeqDef, ElementOfSeq DEF Containers
<1>3. CASE c \in Running /\ fleet' = [fleet EXCEPT ![c].docker = "removed"]
           /\ UNCHANGED lost
  <2>1. /\ \A x \in Containers \ {c} : fleet'[x] = fleet[x]
        /\ fleet'[c].env = fleet[c].env /\ fleet'[c].docker = "removed"
    BY <1>2, <1>3 DEF Instance
  <2>2. QED  BY <1>1, <1>3, <2>1 DEF Running
<1>4. CASE c \in Running /\ lost' = lost \cup {c} /\ UNCHANGED fleet
  BY <1>1, <1>4 DEF Running
<1>5. CASE c \notin Running /\ UNCHANGED <<fleet, lost>>
  BY <1>1, <1>5 DEF Running
<1>6. QED  BY <1>3, <1>4, <1>5 DEF Terminate

(***************************************************************************)
(* How containers move between hands, queues, batches and cleanup tasks.    *)
(***************************************************************************)
\* Containers leave, and none arrives.
LEMMA LeavingKeepsApart ==
  ASSUME Apart,
         \A a \in Clients : hand'[a] \in {hand[a], 0},
         \A e \in Envs : Range(idle'[e]) \subseteq Range(idle[e])
                         /\ IsInjective(idle'[e]),
         \A r \in Replenishers : Range(made'[r]) \subseteq Range(made[r])
                                 /\ IsInjective(made'[r]),
         cleaning' \subseteq cleaning
  PROVE  Apart'
<1>1. HandsApart'
  BY DEF Apart, HandsApart
<1>2. QueuesApart'
  BY DEF Apart, QueuesApart
<1>3. BatchesApart'
  BY DEF Apart, BatchesApart
<1>4. QED  BY <1>1, <1>2, <1>3 DEF Apart

\* The oldest container of a queue goes to a client that has none.
LEMMA PoppedApart ==
  ASSUME TypeOK, Apart, NEW a \in Clients, NEW e \in Envs, idle[e] # <<>>,
         PopIdle(e), hand' = [hand EXCEPT ![a] = Head(idle[e])],
         UNCHANGED <<made, cleaning>>
  PROVE  Apart'
<1>1. /\ Head(idle[e]) \in Range(idle[e]) /\ Head(idle[e]) \in Containers
      /\ Range(Tail(idle[e])) = Range(idle[e]) \ {Head(idle[e])}
      /\ IsInjective(Tail(idle[e]))
  BY TailListed DEF TypeOK, Apart, QueuesApart
<1>2. /\ idle'[e] = Tail(idle[e]) /\ \A f \in Envs \ {e} : idle'[f] = idle[f]
      /\ hand'[a] = Head(idle[e]) /\ \A b \in Clients \ {a} : hand'[b] = hand[b]
  BY DEF PopIdle, TypeOK
<1>3. \A f \in Envs : IsInjective(idle'[f]) /\ Range(idle'[f]) \subseteq Range(idle[f])
  BY <1>1, <1>2 DEF Apart, QueuesApart
<1>4. QueuesApart'
  BY <1>3 DEF Apart, QueuesApart
<1>5. BatchesApart'
  BY DEF Apart, BatchesApart
<1>6. ASSUME NEW b \in Clients, hand'[b] # 0
      PROVE  /\ \A d \in Clients : hand'[d] = hand'[b] => d = b
             /\ hand'[b] \notin cleaning
             /\ \A f \in Envs : hand'[b] \notin Range(idle'[f])
             /\ \A r \in Replenishers : hand'[b] \notin Range(made[r])
  <2>1. CASE b = a
    <3>1. \A d \in Clients \ {a} : hand[d] # Head(idle[e])
      BY <1>1, <1>2, <1>6, <2>1 DEF Apart, HandsApart
    <3>2. /\ Head(idle[e]) \notin cleaning
          /\ \A r \in Replenishers : Head(idle[e]) \notin Range(made[r])
          /\ \A f \in Envs \ {e} : Head(idle[e]) \notin Range(idle[f])
      BY <1>1 DEF Apart, QueuesApart
    <3>3. QED  BY <1>1, <1>2, <2>1, <3>1, <3>2
  <2>2. CASE b # a
    <3>1. hand[b] # Head(idle[e])
      BY <1>1, <1>2, <1>6, <2>2 DEF Apart, HandsApart
    <3>2. QED  BY <1>2, <1>3, <1>6, <2>2, <3>1 DEF Apart, HandsApart
  <2>3. QED  BY <2>1, <2>2
<1>7. HandsApart'
  BY <1>6 DEF HandsApart
<1>8. QED  BY <1>4, <1>5, <1>7 DEF Apart

\* A container that was just built is nowhere yet.
LEMMA NewIsNowhere ==
  ASSUME TypeOK, NEW n \in Nat \ Containers, n # 0
  PROVE  /\ \A a \in Clients : hand[a] # n
         /\ \A e \in Envs : n \notin Range(idle[e])
         /\ \A r \in Replenishers : n \notin Range(made[r])
         /\ n \notin cleaning \cup doomed \cup active \cup lost
BY ElementOfSeq, LenProperties DEF TypeOK, Range

\* It goes to the client that waits for it.
LEMMA BuiltForClientApart ==
  ASSUME TypeOK, Apart, NEW a \in Clients, NEW n \in Nat \ Containers, n # 0,
         hand' = [hand EXCEPT ![a] = n], UNCHANGED <<idle, made, cleaning>>
  PROVE  Apart'
<1>1. hand'[a] = n /\ \A b \in Clients \ {a} : hand'[b] = hand[b]
  BY DEF TypeOK
<1>2. HandsApart'
  BY <1>1, NewIsNowhere DEF Apart, HandsApart
<1>3. QueuesApart' /\ BatchesApart'
  BY DEF Apart, QueuesApart, BatchesApart
<1>4. QED  BY <1>2, <1>3 DEF Apart

\* Or it joins a batch.
LEMMA BuiltForBatchApart ==
  ASSUME TypeOK, Apart, NEW r \in Replenishers, NEW n \in Nat \ Containers, n # 0,
         made' = [made EXCEPT ![r] = Append(@, n)],
         UNCHANGED <<idle, hand, cleaning>>
  PROVE  Apart'
<1>1. /\ made'[r] = Append(made[r], n)
      /\ \A q \in Replenishers \ {r} : made'[q] = made[q]
      /\ made[r] \in Seq(Nat)
  <2>1. Containers \subseteq Nat
    BY FleetIndexes DEF TypeOK, Containers
  <2>2. made[r] \in Seq(Containers)
    BY DEF TypeOK
  <2>3. QED  BY <2>1, <2>2, SeqMonotonic DEF TypeOK
<1>2. Range(made'[r]) = Range(made[r]) \cup {n} /\ IsInjective(made'[r])
  BY <1>1, AppendListed, NewIsNowhere DEF Apart, BatchesApart
<1>3. /\ \A e \in Envs : n \notin Range(idle[e])
      /\ \A q \in Replenishers : n \notin Range(made[q])
      /\ n \notin cleaning /\ \A a \in Clients : hand[a] # n
  BY NewIsNowhere
<1>4. HandsApart'
  BY <1>1, <1>2, <1>3 DEF Apart, HandsApart
<1>5. QueuesApart'
  <2>1. ASSUME NEW e \in Envs, NEW q \in Replenishers
        PROVE  Range(idle[e]) \cap Range(made'[q]) = {}
    <3>1. Range(idle[e]) \cap Range(made[q]) = {}
      BY DEF Apart, QueuesApart
    <3>2. Range(made'[q]) \subseteq Range(made[q]) \cup {n}
      BY <1>1, <1>2
    <3>3. QED  BY <1>3, <3>1, <3>2
  <2>2. QED  BY <2>1 DEF Apart, QueuesApart
<1>6. ASSUME NEW q \in Replenishers
      PROVE  /\ IsInjective(made'[q])
             /\ Range(made'[q]) \cap cleaning' = {}
             /\ \A p \in Replenishers :
                  p # q => Range(made'[q]) \cap Range(made'[p]) = {}
  <2>1. CASE q = r
    <3>1. Range(made'[r]) \cap cleaning' = {}
      BY <1>2, <1>3 DEF Apart, BatchesApart
    <3>2. ASSUME NEW p \in Replenishers \ {r}
          PROVE  Range(made'[r]) \cap Range(made[p]) = {}
      BY <1>2, <1>3 DEF Apart, BatchesApart
    <3>3. QED  BY <1>1, <1>2, <2>1, <3>1, <3>2
  <2>2. CASE q # r
    <3>1. /\ IsInjective(made[q]) /\ Range(made[q]) \cap cleaning = {}
          /\ \A p \in Replenishers :
               p # q => Range(made[q]) \cap Range(made[p]) = {}
      BY DEF Apart, BatchesApart
    <3>2. \A p \in Replenishers : Range(made'[p]) \subseteq Range(made[p]) \cup {n}
      BY <1>1, <1>2
    <3>3. made'[q] = made[q] /\ n \notin Range(made[q])
      BY <1>1, <1>3, <2>2
    <3>4. QED  BY <3>1, <3>2, <3>3
  <2>3. QED  BY <2>1, <2>2
<1>7. BatchesApart'
  BY <1>6 DEF BatchesApart
<1>8. QED  BY <1>4, <1>5, <1>7 DEF Apart

\* A batch joins the queue of its environment.
LEMMA QueuedBatchApart ==
  ASSUME TypeOK, Apart, NEW r \in Replenishers, NEW e \in Envs,
         idle' = [idle EXCEPT ![e] = @ \o made[r]],
         made' = [made EXCEPT ![r] = <<>>], UNCHANGED <<hand, cleaning>>
  PROVE  Apart'
<1>1. /\ idle'[e] = idle[e] \o made[r]
      /\ \A f \in Envs \ {e} : idle'[f] = idle[f]
      /\ made'[r] = <<>> /\ \A q \in Replenishers \ {r} : made'[q] = made[q]
  BY DEF TypeOK
<1>2. /\ Range(idle'[e]) = Range(idle[e]) \cup Range(made[r])
      /\ IsInjective(idle'[e])
  BY <1>1, ConcatListed DEF TypeOK, Apart, QueuesApart, BatchesApart
<1>3. Range(made'[r]) = {} /\ IsInjective(made'[r])
  BY <1>1, EmptyListed
<1>4. HandsApart'
  BY <1>1, <1>2, <1>3 DEF Apart, HandsApart
<1>5. ASSUME NEW f \in Envs
      PROVE  /\ IsInjective(idle'[f])
             /\ Range(idle'[f]) \cap cleaning' = {}
             /\ \A g \in Envs : g # f => Range(idle'[f]) \cap Range(idle'[g]) = {}
             /\ \A q \in Replenishers : Range(idle'[f]) \cap Range(made'[q]) = {}
  <2>1. \A g \in Envs \ {e} : Range(idle[g]) \cap Range(idle'[e]) = {}
    BY <1>2 DEF Apart, QueuesApart
  <2>2. ASSUME NEW q \in Replenishers
        PROVE  Range(idle'[e]) \cap Range(made'[q]) = {}
    <3>1. CASE q = r
      BY <1>3, <3>1
    <3>2. CASE q # r
      <4>1. /\ Range(idle[e]) \cap Range(made[q]) = {}
            /\ Range(made[r]) \cap Range(made[q]) = {}
        BY <3>2 DEF Apart, QueuesApart, BatchesApart
      <4>2. QED  BY <1>1, <1>2, <3>2, <4>1
    <3>3. QED  BY <3>1, <3>2
  <2>3. Range(idle'[e]) \cap cleaning = {}
    BY <1>2 DEF Apart, QueuesApart, BatchesApart
  <2>4. CASE f = e
    BY <1>1, <1>2, <2>1, <2>2, <2>3, <2>4
  <2>5. CASE f # e
    BY <1>1, <1>3, <2>1, <2>5 DEF Apart, QueuesApart
  <2>6. QED  BY <2>4, <2>5
<1>6. QueuesApart'
  BY <1>5 DEF QueuesApart
<1>7. BatchesApart'
  BY <1>1, <1>3 DEF Apart, BatchesApart
<1>8. QED  BY <1>4, <1>6, <1>7 DEF Apart

\* A released container goes to its cleanup task.
LEMMA ReleasedApart ==
  ASSUME TypeOK, Apart, NEW a \in Clients, hand[a] # 0,
         hand' = [hand EXCEPT ![a] = 0], cleaning' = cleaning \cup {hand[a]},
         UNCHANGED <<idle, made>>
  PROVE  Apart'
<1>1. hand'[a] = 0 /\ \A b \in Clients \ {a} : hand'[b] = hand[b]
  BY DEF TypeOK
<1>2. HandsApart'
  BY <1>1 DEF Apart, HandsApart
<1>3. QueuesApart'
  BY DEF Apart, HandsApart, QueuesApart
<1>4. BatchesApart'
  BY DEF Apart, HandsApart, BatchesApart
<1>5. QED  BY <1>2, <1>3, <1>4 DEF Apart

(***************************************************************************)
(* The steps of the pool, one invariant at a time.                          *)
(***************************************************************************)
\* Every reference is to a container that was built.
LEMMA RefsExist ==
  ASSUME TypeOK
  PROVE  /\ 0 \notin Containers
         /\ \A e \in Envs : Range(idle[e]) \subseteq Containers
         /\ \A r \in Replenishers : Range(made[r]) \subseteq Containers
         /\ \A a \in Clients : hand[a] # 0 => hand[a] \in Containers
         /\ Held \cup Queued \cup InBatch \subseteq Containers
<1>1. 0 \notin Containers
  BY FleetIndexes DEF TypeOK, Containers
<1>2. /\ \A e \in Envs : Range(idle[e]) \subseteq Containers
      /\ \A r \in Replenishers : Range(made[r]) \subseteq Containers
  BY ElementOfSeq, LenProperties DEF TypeOK, Range
<1>3. \A a \in Clients : hand[a] # 0 => hand[a] \in Containers
  BY DEF TypeOK
<1>4. QED  BY <1>1, <1>2, <1>3 DEF Held, Queued, InBatch

\* A step changes no container but those that are being cleaned up or terminated
\* by shutdown, and no environment.
LEMMA FleetStep ==
  ASSUME TypeOK, [Next]_vars
  PROVE  /\ Containers \subseteq Containers'
         /\ \A c \in Containers : fleet'[c].env = fleet[c].env
         /\ \A c \in Containers \ (cleaning \cup doomed) : fleet'[c] = fleet[c]
<1>1. ASSUME NEW e \in Envs, CreateContainer(e)
      PROVE  /\ Containers \subseteq Containers'
             /\ \A c \in Containers : fleet'[c] = fleet[c]
  BY <1>1, CreateContainerBuilds, CreateContainerType
<1>2. ASSUME NEW c \in Containers, Terminate(c), c \in cleaning \cup doomed
      PROVE  /\ Containers \subseteq Containers'
             /\ \A x \in Containers : fleet'[x].env = fleet[x].env
             /\ \A x \in Containers \ (cleaning \cup doomed) : fleet'[x] = fleet[x]
  BY <1>2, TerminateRemoves, TerminateType
<1>3. CASE UNCHANGED fleet
  BY <1>3 DEF Containers
<1>4. ASSUME NEW e \in Envs, fleet' = Append(fleet, Real(e))
      PROVE  /\ Containers \subseteq Containers'
             /\ \A c \in Containers : fleet'[c] = fleet[c]
  <2>1. Real(e) \in Instance /\ fleet \in Seq(Instance)
    BY DEF Real, Instance, TypeOK
  <2>2. QED  BY <1>4, <2>1, FleetIndexes DEF Containers
<1>5. \A q : PoolFor(q) \in Envs
  BY PoolAssumption DEF PoolFor
<1>6. \A r \in Replenishers : EnvOf(r) \in Envs
  BY DEF Replenishers, EnvOf
<1>7. cleaning \subseteq Containers /\ doomed \subseteq Containers
  BY DEF TypeOK
<1>8. CASE \E r \in Replenishers : ReplenisherStep(r)
  BY <1>1, <1>3, <1>6, <1>8
  DEF ReplenisherStep, Replenish, BatchCreate, BatchPut, dockerVars
<1>9. CASE \E a \in Clients : Acquire(a) \/ ClientStep(a)
  BY <1>1, <1>3, <1>5, <1>9
  DEF Acquire, ClientStep, TakeQueued, GiveUp, CreateOnDemand, Activate, Release,
      dockerVars
<1>10. CASE \E c \in cleaning : CleanupContainer(c) \/ CleanupCancelled(c)
  BY <1>2, <1>3, <1>7, <1>10 DEF CleanupContainer, CleanupCancelled
<1>11. CASE \E e \in Envs : StrayEnds(e)
  BY <1>3, <1>4, <1>11 DEF StrayEnds
<1>12. CASE ShutdownStep
  BY <1>2, <1>3, <1>7, <1>12
  DEF ShutdownStep, DrainPop, ShutdownTerminate, LockForActive, FinishShutdown,
      dockerVars
<1>13. CASE Initialize \/ BeginShutdown \/ Quiesced \/ UNCHANGED vars
  BY <1>3, <1>13 DEF Initialize, BeginShutdown, Quiesced, vars, dockerVars
<1>14. QED
  BY <1>8, <1>9, <1>10, <1>11, <1>12, <1>13 DEF Next

\* The ways in which an acquire gets a container out of a queue.
LEMMA AcquireCases ==
  ASSUME TypeOK, NEW a \in Clients, Acquire(a)
  PROVE  \E q \in Requests :
           LET e == PoolFor(q) IN
           /\ e \in Envs /\ asked' = [asked EXCEPT ![a] = q]
           /\ \/ /\ pc' = [pc EXCEPT ![a] = "waiting"]
                 /\ UNCHANGED <<idle, hand, active, gaugeVars>>
              \/ /\ idle[e] # <<>> /\ PopIdle(e)
                 /\ hand' = [hand EXCEPT ![a] = Head(idle[e])]
                 /\ \/ /\ LockFree
                       /\ pc' = [pc EXCEPT ![a] = "holding"]
                       /\ EnterActive(e, Head(idle[e]))
                    \/ /\ ~LockFree
                       /\ pc' = [pc EXCEPT ![a] = "got"]
                       /\ UNCHANGED <<active, gaugeVars>>
<1>1. \A q : PoolFor(q) \in Envs
  BY PoolAssumption DEF PoolFor
<1>2. PICK q \in Requests :
        LET e == PoolFor(q) IN
        /\ asked' = [asked EXCEPT ![a] = q]
        /\ \/ /\ idle[e] = <<>>
              /\ pc' = [pc EXCEPT ![a] = "waiting"]
              /\ UNCHANGED <<idle, hand, active, gaugeVars>>
           \/ /\ idle[e] # <<>>
              /\ PopIdle(e)
              /\ hand' = [hand EXCEPT ![a] = Head(idle[e])]
              /\ \/ /\ LockFree
                    /\ pc' = [pc EXCEPT ![a] = "holding"]
                    /\ EnterActive(e, Head(idle[e]))
                 \/ /\ ~LockFree
                    /\ pc' = [pc EXCEPT ![a] = "got"]
                    /\ UNCHANGED <<active, gaugeVars>>
  BY DEF Acquire
<1>3. QED  BY <1>1, <1>2

\* Containers stay apart.
LEMMA ApartStep ==
  ASSUME PlacesInv, [Next]_vars
  PROVE  Apart'
<1> USE DEF clientVars, batchVars, dockerVars, lifeVars, gaugeVars
<1>1. TypeOK /\ Apart /\ HandMatchesPc
  BY DEF PlacesInv
<1>2. CASE UNCHANGED <<hand, idle, made, cleaning>>
  BY <1>1, <1>2 DEF Apart, HandsApart, QueuesApart, BatchesApart
<1>3. ASSUME NEW r \in Replenishers, BatchCreate(r) PROVE Apart'
  <2>1. EnvOf(r) \in Envs
    BY DEF EnvOf, Replenishers
  <2>2. Len(fleet') \in Nat \ Containers /\ Len(fleet') # 0
    BY <1>1, <1>3, <2>1, CreateContainerBuilds DEF BatchCreate
  <2>3. PICK n : n = Len(fleet')
    OBVIOUS
  <2>4. /\ made' = [made EXCEPT ![r] = Append(@, n)]
        /\ UNCHANGED <<idle, hand, cleaning>>
    BY <1>3, <2>3 DEF BatchCreate
  <2>5. QED  BY <1>1, <2>2, <2>3, <2>4, BuiltForBatchApart
<1>4. ASSUME NEW r \in Replenishers, BatchPut(r) PROVE Apart'
  BY <1>1, <1>4, QueuedBatchApart DEF BatchPut, EnvOf, Replenishers
<1>5. ASSUME NEW a \in Clients, Acquire(a) PROVE Apart'
  <2>1. UNCHANGED <<made, cleaning>>
    BY <1>5 DEF Acquire
  <2>2. QED  BY <1>1, <1>2, <1>5, <2>1, AcquireCases, PoppedApart
<1>6. ASSUME NEW a \in Clients, TakeQueued(a) PROVE Apart'
  BY <1>1, <1>6, PoppedApart, PoolAssumption DEF TakeQueued, PoolFor
<1>7. ASSUME NEW a \in Clients, CreateOnDemand(a) PROVE Apart'
  <2>1. PoolFor(asked[a]) \in Envs
    BY PoolAssumption DEF PoolFor
  <2>2. Len(fleet') \in Nat \ Containers /\ Len(fleet') # 0
    BY <1>1, <1>7, <2>1, CreateContainerBuilds DEF CreateOnDemand
  <2>3. PICK n : n = Len(fleet')
    OBVIOUS
  <2>4. hand' = [hand EXCEPT ![a] = n] /\ UNCHANGED <<idle, made, cleaning>>
    BY <1>7, <2>3 DEF CreateOnDemand
  <2>5. QED  BY <1>1, <2>2, <2>3, <2>4, BuiltForClientApart
<1>8. ASSUME NEW a \in Clients, Release(a) PROVE Apart'
  <2>1. hand[a] # 0
    BY <1>1, <1>8 DEF Release, HandMatchesPc
  <2>2. QED  BY <1>1, <1>8, <2>1, ReleasedApart DEF Release, StartCleanup
<1>9. ASSUME UNCHANGED <<hand, idle>>, cleaning' \subseteq cleaning,
             \/ UNCHANGED made
             \/ made' = [r \in Replenishers |-> <<>>]
      PROVE  Apart'
  BY <1>1, <1>9, LeavingKeepsApart, EmptyListed
  DEF Apart, QueuesApart, BatchesApart
<1>10. ASSUME NEW e \in Envs, DrainPop(e) PROVE Apart'
  <2>1. /\ Range(Tail(idle[e])) \subseteq Range(idle[e])
        /\ IsInjective(Tail(idle[e]))
    BY <1>1, <1>10, TailListed DEF DrainPop, TypeOK, Apart, QueuesApart
  <2>2. \A f \in Envs : idle'[f] = IF f = e THEN Tail(idle[e]) ELSE idle[f]
    BY <1>1, <1>10 DEF DrainPop, PopIdle, TypeOK
  <2>3. UNCHANGED <<hand, made, cleaning>>
    BY <1>10 DEF DrainPop
  <2>4. QED
    BY <1>1, <2>1, <2>2, <2>3, LeavingKeepsApart
    DEF Apart, QueuesApart, BatchesApart
<1>11. CASE Initialize \/ (\E r \in Replenishers : Replenish(r)) \/ Quiesced
            \/ (\E a \in Clients : GiveUp(a) \/ Activate(a))
            \/ (\E e \in Envs : StrayEnds(e)) \/ LockForActive \/ FinishShutdown
            \/ (\E c \in doomed : ShutdownTerminate(c)) \/ UNCHANGED vars
  BY <1>2, <1>11
  DEF Initialize, Replenish, GiveUp, Activate, StrayEnds, LockForActive,
      FinishShutdown, ShutdownTerminate, Quiesced, vars
<1>12. CASE BeginShutdown
            \/ \E c \in cleaning : CleanupContainer(c) \/ CleanupCancelled(c)
  BY <1>9, <1>12
  DEF BeginShutdown, CancelWorkers, CleanupContainer, CleanupCancelled
<1>13. QED
  BY <1>3, <1>4, <1>5, <1>6, <1>7, <1>8, <1>10, <1>11, <1>12
  DEF Next, ReplenisherStep, ClientStep, ShutdownStep

\* What shutdown stopped stays stopped, and what it emptied stays empty.
LEMMA QuietStep ==
  ASSUME PlacesInv, [Next]_vars
  PROVE  Quiet'
<1> USE DEF clientVars, batchVars, dockerVars, lifeVars, gaugeVars
<1>1. TypeOK /\ Quiet
  BY DEF PlacesInv
<1>2. CASE UNCHANGED <<stage, phase, pending, made, idle>>
  BY <1>1, <1>2 DEF Quiet
<1>3. CASE \E r \in Replenishers : ReplenisherStep(r)
  BY <1>1, <1>3
  DEF ReplenisherStep, Replenish, BatchCreate, BatchPut, PoolRunning, Quiet, TypeOK
<1>4. ASSUME NEW e \in Envs, idle[e] # <<>>, PopIdle(e),
             UNCHANGED <<stage, phase, pending, made>>
      PROVE  Quiet'
  BY <1>1, <1>4 DEF PopIdle, Quiet
<1>5. CASE \E a \in Clients : Acquire(a)
  <2>1. PICK a \in Clients : Acquire(a)
    BY <1>5
  <2>2. UNCHANGED <<stage, phase, pending, made>>
    BY <2>1 DEF Acquire
  <2>3. QED  BY <1>1, <1>2, <1>4, <2>1, <2>2, AcquireCases
<1>6. CASE \E a \in Clients : TakeQueued(a)
  BY <1>4, <1>6, PoolAssumption DEF TakeQueued, PoolFor
<1>7. CASE \E e \in Envs : DrainPop(e)
  BY <1>4, <1>7 DEF DrainPop
<1>8. CASE Initialize \/ BeginShutdown \/ LockForActive \/ FinishShutdown
  BY <1>1, <1>8
  DEF Initialize, BeginShutdown, CancelWorkers, LockForActive, FinishShutdown, Quiet
<1>9. CASE \/ \E a \in Clients : \/ GiveUp(a) \/ CreateOnDemand(a) \/ Activate(a)
                                 \/ Release(a)
           \/ \E e \in Envs : StrayEnds(e)
           \/ \E c \in cleaning : CleanupContainer(c) \/ CleanupCancelled(c)
           \/ \E c \in doomed : ShutdownTerminate(c)
           \/ Quiesced \/ UNCHANGED vars
  BY <1>2, <1>9
  DEF GiveUp, CreateOnDemand, Activate, Release, StrayEnds, CleanupContainer,
      CleanupCancelled, ShutdownTerminate, Quiesced, vars
<1>10. QED
  BY <1>3, <1>5, <1>6, <1>7, <1>8, <1>9 DEF Next, ClientStep, ShutdownStep

\* Containers stay where their environment says.
LEMMA RightPlaceStep ==
  ASSUME PlacesInv, [Next]_vars
  PROVE  RightPlace'
<1> USE DEF clientVars, batchVars, dockerVars, lifeVars, gaugeVars
<1>1. TypeOK /\ RightPlace /\ HandMatchesPc /\ Apart
  BY DEF PlacesInv
<1>2. /\ \A c \in Containers : fleet'[c].env = fleet[c].env
      /\ \A e \in Envs : Range(idle[e]) \subseteq Containers
      /\ \A r \in Replenishers : Range(made[r]) \subseteq Containers
      /\ \A a \in Clients : hand[a] # 0 => hand[a] \in Containers
  BY <1>1, FleetStep, RefsExist
<1>3. \A r \in Replenishers : EnvOf(r) \in Envs
  BY DEF Replenishers, EnvOf
<1>4. \A q : PoolFor(q) \in Envs
  BY PoolAssumption DEF PoolFor
<1>5. CASE /\ UNCHANGED <<idle, asked>>
           /\ \A r \in Replenishers : Range(made'[r]) \subseteq Range(made[r])
           /\ \A a \in Clients : hand'[a] \in {hand[a], 0}
  BY <1>1, <1>2, <1>5 DEF RightPlace, PoolFor
<1>6. ASSUME NEW e \in Envs, CreateContainer(e)
      PROVE  fleet'[Len(fleet')].env = e
  BY <1>1, <1>6, CreateContainerBuilds DEF Real, Mock
<1>7. ASSUME NEW r \in Replenishers, BatchCreate(r) PROVE RightPlace'
  <2>1. /\ fleet'[Len(fleet')].env = EnvOf(r)
        /\ made' = [made EXCEPT ![r] = Append(@, Len(fleet'))]
        /\ Len(fleet') \in Nat /\ UNCHANGED <<idle, hand, asked>>
    BY <1>1, <1>3, <1>6, <1>7, CreateContainerBuilds DEF BatchCreate
  <2>2. made[r] \in Seq(Nat)
    <3>1. Containers \subseteq Nat
      BY <1>1, FleetIndexes DEF TypeOK, Containers
    <3>2. QED  BY <1>1, <3>1, SeqMonotonic DEF TypeOK
  <2>3. Range(made'[r]) = Range(made[r]) \cup {Len(fleet')}
    <3>1. PICK n \in Nat : n = Len(fleet')
      BY <2>1
    <3>2. made'[r] = Append(made[r], n)
      BY <1>1, <2>1, <3>1 DEF TypeOK
    <3>3. QED  BY <2>2, <3>1, <3>2, AppendListed
  <2>4. \A q \in Replenishers \ {r} : made'[q] = made[q]
    BY <1>1, <2>1 DEF TypeOK
  <2>5. ASSUME NEW q \in Replenishers, NEW c \in Range(made'[q])
        PROVE  fleet'[c].env = EnvOf(q)
    BY <1>1, <1>2, <2>1, <2>3, <2>4, <2>5 DEF RightPlace
  <2>6. QED  BY <1>1, <1>2, <2>1, <2>5 DEF RightPlace, PoolFor
<1>8. ASSUME NEW r \in Replenishers, BatchPut(r) PROVE RightPlace'
  <2>1. /\ idle' = [idle EXCEPT ![EnvOf(r)] = @ \o made[r]]
        /\ made' = [made EXCEPT ![r] = <<>>] /\ UNCHANGED <<hand, asked>>
    BY <1>8 DEF BatchPut
  <2>2. Range(idle'[EnvOf(r)]) = Range(idle[EnvOf(r)]) \cup Range(made[r])
    BY <1>1, <1>3, <2>1, ConcatListed DEF TypeOK
  <2>3. \A e \in Envs \ {EnvOf(r)} : idle'[e] = idle[e]
    BY <1>1, <2>1 DEF TypeOK
  <2>4. \A q \in Replenishers : Range(made'[q]) \subseteq Range(made[q])
    BY <1>1, <2>1, EmptyListed DEF TypeOK
  <2>5. ASSUME NEW e \in Envs, NEW c \in Range(idle'[e])
        PROVE  fleet'[c].env = e
    BY <1>1, <1>2, <1>3, <2>2, <2>3, <2>5 DEF RightPlace
  <2>6. QED  BY <1>1, <1>2, <2>1, <2>4, <2>5 DEF RightPlace, PoolFor
<1>9. ASSUME NEW e \in Envs, idle[e] # <<>>, PopIdle(e), UNCHANGED made,
             \/ UNCHANGED <<asked, hand>>
             \/ \E a \in Clients :
                  /\ hand' = [hand EXCEPT ![a] = Head(idle[e])]
                  /\ \E q \in Requests \cup {DefaultEnv} :
                       asked' = [asked EXCEPT ![a] = q] /\ e = PoolFor(q)
      PROVE  RightPlace'
  <2>1. /\ Head(idle[e]) \in Range(idle[e])
        /\ Range(Tail(idle[e])) \subseteq Range(idle[e])
    BY <1>1, <1>9, TailListed DEF TypeOK, Apart, QueuesApart
  <2>2. \A f \in Envs : idle'[f] = IF f = e THEN Tail(idle[e]) ELSE idle[f]
    BY <1>1, <1>9 DEF PopIdle, TypeOK
  <2>3. fleet'[Head(idle[e])].env = e
    BY <1>1, <1>2, <2>1 DEF RightPlace
  <2>4. \A f \in Envs : \A c \in Range(idle'[f]) : fleet'[c].env = f
    BY <1>1, <1>2, <2>1, <2>2 DEF RightPlace
  <2>5. \A r \in Replenishers : \A c \in Range(made'[r]) : fleet'[c].env = EnvOf(r)
    BY <1>1, <1>2, <1>9 DEF RightPlace
  <2>6. ASSUME NEW b \in Clients, hand'[b] # 0
        PROVE  fleet'[hand'[b]].env = PoolFor(asked'[b])
    <3>1. CASE UNCHANGED <<asked, hand>>
      BY <1>1, <1>2, <2>6, <3>1 DEF RightPlace
    <3>2. ASSUME NEW a \in Clients, NEW q \in Requests \cup {DefaultEnv},
                 hand' = [hand EXCEPT ![a] = Head(idle[e])],
                 asked' = [asked EXCEPT ![a] = q], e = PoolFor(q)
          PROVE  fleet'[hand'[b]].env = PoolFor(asked'[b])
      <4>1. CASE b = a
        BY <1>1, <2>3, <3>2, <4>1 DEF TypeOK
      <4>2. CASE b # a
        BY <1>1, <1>2, <2>6, <3>2, <4>2 DEF TypeOK, RightPlace
      <4>3. QED  BY <4>1, <4>2
    <3>3. QED  BY <1>9, <3>1, <3>2
  <2>7. QED  BY <2>4, <2>5, <2>6 DEF RightPlace, PoolFor
<1>10. ASSUME NEW a \in Clients, Acquire(a) PROVE RightPlace'
  <2>1. PICK q \in Requests :
          /\ PoolFor(q) \in Envs /\ asked' = [asked EXCEPT ![a] = q]
          /\ \/ UNCHANGED <<idle, hand>>
             \/ /\ idle[PoolFor(q)] # <<>> /\ PopIdle(PoolFor(q))
                /\ hand' = [hand EXCEPT ![a] = Head(idle[PoolFor(q)])]
    BY <1>1, <1>10, AcquireCases
  <2>2. UNCHANGED made /\ hand[a] = 0
    BY <1>1, <1>10 DEF Acquire, HandMatchesPc
  <2>3. CASE UNCHANGED <<idle, hand>>
    <3>1. \A b \in Clients : hand[b] # 0 => asked'[b] = asked[b]
      BY <1>1, <2>1, <2>2 DEF TypeOK
    <3>2. QED  BY <1>1, <1>2, <2>2, <2>3, <3>1 DEF RightPlace, PoolFor
  <2>4. QED  BY <1>9, <2>1, <2>2, <2>3
<1>11. ASSUME NEW a \in Clients, TakeQueued(a) PROVE RightPlace'
  <2>1. /\ asked[a] \in Requests \cup {DefaultEnv}
        /\ asked' = [asked EXCEPT ![a] = asked[a]]
    BY <1>1, <1>11 DEF TakeQueued, TypeOK
  <2>2. QED  BY <1>4, <1>9, <1>11, <2>1 DEF TakeQueued
<1>12. ASSUME NEW a \in Clients, CreateOnDemand(a) PROVE RightPlace'
  <2>1. /\ fleet'[Len(fleet')].env = PoolFor(asked[a])
        /\ hand' = [hand EXCEPT ![a] = Len(fleet')]
        /\ UNCHANGED <<idle, made, asked>>
    BY <1>4, <1>6, <1>12 DEF CreateOnDemand
  <2>2. \A b \in Clients : hand'[b] = IF b = a THEN Len(fleet') ELSE hand[b]
    BY <1>1, <2>1 DEF TypeOK
  <2>3. QED  BY <1>1, <1>2, <2>1, <2>2 DEF RightPlace, PoolFor
<1>13. ASSUME NEW e \in Envs, DrainPop(e) PROVE RightPlace'
  BY <1>9, <1>13 DEF DrainPop
<1>14. CASE BeginShutdown
  BY <1>5, <1>14, EmptyListed DEF BeginShutdown, CancelWorkers
<1>15. CASE \E a \in Clients : Release(a)
  BY <1>1, <1>5, <1>15 DEF Release, TypeOK
<1>16. CASE \/ Initialize \/ (\E r \in Replenishers : Replenish(r)) \/ Quiesced
            \/ (\E a \in Clients : GiveUp(a) \/ Activate(a))
            \/ (\E e \in Envs : StrayEnds(e)) \/ LockForActive \/ FinishShutdown
            \/ (\E c \in doomed : ShutdownTerminate(c)) \/ UNCHANGED vars
            \/ (\E c \in cleaning : CleanupContainer(c) \/ CleanupCancelled(c))
  BY <1>5, <1>16
  DEF Initialize, Replenish, GiveUp, Activate, StrayEnds, LockForActive,
      FinishShutdown, ShutdownTerminate, Quiesced, vars, CleanupContainer,
      CleanupCancelled
<1>17. QED
  BY <1>7, <1>8, <1>10, <1>11, <1>12, <1>13, <1>14, <1>15, <1>16
  DEF Next, ReplenisherStep, ClientStep, ShutdownStep

(***************************************************************************)
(* Which containers are held, queued and in a batch.                        *)
(***************************************************************************)
\* Membership in the three places, before and after a step.
LEMMA Places ==
  /\ \A c : c \in Held <=> c # 0 /\ \E a \in Clients : c = hand[a]
  /\ \A c : c \in Queued <=> \E e \in Envs : c \in Range(idle[e])
  /\ \A c : c \in InBatch <=> \E r \in Replenishers : c \in Range(made[r])
  /\ \A c : c \in Held' <=> c # 0 /\ \E a \in Clients : c = hand'[a]
  /\ \A c : c \in Queued' <=> \E e \in Envs : c \in Range(idle'[e])
  /\ \A c : c \in InBatch' <=> \E r \in Replenishers : c \in Range(made'[r])
BY DEF Held, Queued, InBatch

\* What does not change stays where it is.
LEMMA PlacesKept ==
  /\ hand' = hand => Held' = Held
  /\ idle' = idle => Queued' = Queued
  /\ made' = made => InBatch' = InBatch
BY DEF Held, Queued, InBatch

\* A client takes a container.
LEMMA HandTakes ==
  ASSUME TypeOK, NEW a \in Clients, hand[a] = 0, NEW n, n # 0,
         hand' = [hand EXCEPT ![a] = n]
  PROVE  Held' = Held \cup {n}
<1>1. hand'[a] = n /\ \A b \in Clients \ {a} : hand'[b] = hand[b]
  BY DEF TypeOK
<1>2. QED  BY <1>1, Places

\* A client gives its container back.
LEMMA HandGives ==
  ASSUME TypeOK, Apart, NEW a \in Clients, hand[a] # 0,
         hand' = [hand EXCEPT ![a] = 0]
  PROVE  hand[a] \in Held /\ Held' = Held \ {hand[a]}
<1>1. hand'[a] = 0 /\ \A b \in Clients \ {a} : hand'[b] = hand[b]
  BY DEF TypeOK
<1>2. \A b \in Clients \ {a} : hand[b] # hand[a]
  BY DEF Apart, HandsApart
<1>3. QED  BY <1>1, <1>2, Places

\* The oldest container leaves a queue.
LEMMA QueuePops ==
  ASSUME TypeOK, Apart, NEW e \in Envs, idle[e] # <<>>, PopIdle(e)
  PROVE  /\ Head(idle[e]) \in Queued /\ Head(idle[e]) # 0
         /\ Queued' = Queued \ {Head(idle[e])}
<1>1. /\ Head(idle[e]) \in Range(idle[e])
      /\ Range(Tail(idle[e])) = Range(idle[e]) \ {Head(idle[e])}
  BY TailListed DEF TypeOK, Apart, QueuesApart
<1>2. \A f \in Envs : idle'[f] = IF f = e THEN Tail(idle[e]) ELSE idle[f]
  BY DEF PopIdle, TypeOK
<1>3. \A f \in Envs \ {e} : Head(idle[e]) \notin Range(idle[f])
  BY <1>1 DEF Apart, QueuesApart
<1>4. Head(idle[e]) \in Queued /\ Head(idle[e]) # 0
  BY <1>1, Places, RefsExist
<1>5. \A c : c \in Queued' <=> c \in Queued /\ c # Head(idle[e])
  BY <1>1, <1>2, <1>3, Places
<1>6. QED  BY <1>4, <1>5

\* A batch gets a container.
LEMMA BatchTakes ==
  ASSUME TypeOK, NEW r \in Replenishers, NEW n \in Nat,
         made' = [made EXCEPT ![r] = Append(@, n)]
  PROVE  InBatch' = InBatch \cup {n}
<1>1. /\ made'[r] = Append(made[r], n)
      /\ \A q \in Replenishers \ {r} : made'[q] = made[q]
      /\ made[r] \in Seq(Containers)
  BY DEF TypeOK
<1>2. made[r] \in Seq(Nat)
  <2>1. Containers \subseteq Nat
    BY FleetIndexes DEF TypeOK, Containers
  <2>2. QED  BY <1>1, <2>1, SeqMonotonic
<1>3. Range(made'[r]) = Range(made[r]) \cup {n}
  BY <1>1, <1>2, AppendListed
<1>4. QED  BY <1>1, <1>3, Places

\* A batch enters the queue of its environment.
LEMMA BatchEnters ==
  ASSUME TypeOK, Apart, NEW r \in Replenishers, BatchPut(r)
  PROVE  /\ Range(made[r]) \subseteq InBatch
         /\ Queued' = Queued \cup Range(made[r])
         /\ InBatch' = InBatch \ Range(made[r])
<1>1. EnvOf(r) \in Envs
  BY DEF EnvOf, Replenishers
<1>2. /\ idle'[EnvOf(r)] = idle[EnvOf(r)] \o made[r]
      /\ \A f \in Envs \ {EnvOf(r)} : idle'[f] = idle[f]
      /\ made'[r] = <<>> /\ \A q \in Replenishers \ {r} : made'[q] = made[q]
  BY <1>1 DEF BatchPut, TypeOK
<1>3. Range(idle'[EnvOf(r)]) = Range(idle[EnvOf(r)]) \cup Range(made[r])
  BY <1>1, <1>2, ConcatListed DEF TypeOK
<1>4. Range(made'[r]) = {}
  BY <1>2, EmptyListed
<1>5. \A q \in Replenishers \ {r} : Range(made[q]) \cap Range(made[r]) = {}
  BY DEF Apart, BatchesApart
<1>6. \A c : c \in Queued' <=> c \in Queued \/ c \in Range(made[r])
  BY <1>1, <1>2, <1>3, Places
<1>7. \A c : c \in InBatch' <=> c \in InBatch /\ c \notin Range(made[r])
  BY <1>2, <1>4, <1>5, Places
<1>8. QED  BY <1>6, <1>7, Places

(***************************************************************************)
(* What a step moves: every step of the pool is one of these.               *)
(***************************************************************************)
InPlace == <<hand, Held, Queued, InBatch>>

MovesNothing == UNCHANGED <<InPlace, fleet, lost, cleaning, doomed, stage>>

\* A client takes a queued container, or shutdown does.
HandsOver(a, c) ==
  /\ hand[a] = 0 /\ hand' = [hand EXCEPT ![a] = c]
  /\ c \in Queued /\ Held' = Held \cup {c} /\ Queued' = Queued \ {c}
  /\ UNCHANGED <<InBatch, fleet, lost, cleaning, doomed, stage>>

Drains(c) ==
  /\ stage = "draining" /\ doomed = {} /\ doomed' = {c}
  /\ c \in Queued /\ Queued' = Queued \ {c}
  /\ UNCHANGED <<hand, Held, InBatch, fleet, lost, cleaning, stage>>

\* A container is built, for a client, for a batch or for nobody.
BuildsForClient(a) ==
  /\ \E e \in Envs : CreateContainer(e)
  /\ hand[a] = 0 /\ hand' = [hand EXCEPT ![a] = Len(fleet')]
  /\ Held' = Held \cup {Len(fleet')}
  /\ UNCHANGED <<Queued, InBatch, cleaning, doomed, stage>>

BuildsForBatch ==
  /\ \E e \in Envs : CreateContainer(e)
  /\ InBatch' = InBatch \cup {Len(fleet')}
  /\ UNCHANGED <<hand, Held, Queued, cleaning, doomed, stage>>

BuildsStray ==
  /\ \E e \in Envs : fleet' = Append(fleet, Real(e))
  /\ lost' = lost \cup {Len(fleet) + 1}
  /\ UNCHANGED <<InPlace, cleaning, doomed, stage>>

\* A batch is queued, or shutdown drops every batch.
QueuesBatch(S) ==
  /\ S \subseteq InBatch
  /\ Queued' = Queued \cup S /\ InBatch' = InBatch \ S
  /\ UNCHANGED <<hand, Held, fleet, lost, cleaning, doomed, stage>>

DropsBatches ==
  /\ stage = "up" /\ stage' = "draining" /\ InBatch' = {}
  /\ lost' = lost \cup (Running \cap InBatch)
  /\ UNCHANGED <<hand, Held, Queued, fleet, cleaning, doomed>>

\* A client gives its container to a cleanup task.
GivesBack(a) ==
  /\ hand[a] # 0 /\ hand' = [hand EXCEPT ![a] = 0]
  /\ hand[a] \in Held /\ Held' = Held \ {hand[a]}
  /\ cleaning' = cleaning \cup {hand[a]}
  /\ UNCHANGED <<Queued, InBatch, fleet, lost, doomed, stage>>

\* A container is terminated, or nobody is left to do it.
CleansUp(c) ==
  /\ c \in cleaning /\ Terminate(c) /\ cleaning' = cleaning \ {c}
  /\ UNCHANGED <<InPlace, doomed, stage>>

Terminates(c) ==
  /\ c \in doomed /\ Terminate(c) /\ doomed' = doomed \ {c}
  /\ UNCHANGED <<InPlace, cleaning, stage>>

DropsCleanup(c) ==
  /\ c \in cleaning /\ cleaning' = cleaning \ {c}
  /\ lost' = lost \cup ({c} \cap Running)
  /\ UNCHANGED <<InPlace, fleet, doomed, stage>>

\* The lifespan goes on to its next stage.
TurnsStage ==
  /\ \/ stage = "down" /\ stage' = "up" /\ doomed' = doomed
     \/ stage = "draining" /\ stage' = "locked" /\ doomed = {} /\ doomed' = active
     \/ stage = "locked" /\ stage' = "stopped" /\ doomed = {} /\ doomed' = {}
  /\ UNCHANGED <<InPlace, fleet, lost, cleaning>>

Moves ==
  \/ MovesNothing \/ DropsBatches \/ TurnsStage
  \/ BuildsForBatch \/ BuildsStray
  \/ \E c \in Queued : Drains(c) \/ \E a \in Clients : HandsOver(a, c)
  \/ \E a \in Clients : BuildsForClient(a) \/ GivesBack(a)
  \/ \E S \in SUBSET InBatch : QueuesBatch(S)
  \/ \E c \in cleaning : CleansUp(c) \/ DropsCleanup(c)
  \/ \E c \in doomed : Terminates(c)

\* The steps of replenishers move nothing, or build or queue a batch.
LEMMA ReplenisherMoves ==
  ASSUME PlacesInv, NEW r \in Replenishers, ReplenisherStep(r)
  PROVE  Moves
<1> USE DEF clientVars, batchVars, dockerVars, lifeVars, gaugeVars, InPlace
<1>1. TypeOK /\ Apart
  BY DEF PlacesInv
<1>2. CASE Replenish(r)
  <2>1. MovesNothing
    BY <1>2, PlacesKept DEF Replenish, MovesNothing
  <2>2. QED  BY <2>1 DEF Moves
<1>3. CASE BatchCreate(r)
  <2>1. EnvOf(r) \in Envs
    BY DEF EnvOf, Replenishers
  <2>2. CreateContainer(EnvOf(r))
    BY <1>3 DEF BatchCreate
  <2>3. PICK n \in Nat : n = Len(fleet')
    BY <1>1, <2>1, <2>2, CreateContainerBuilds
  <2>4. made' = [made EXCEPT ![r] = Append(@, n)]
    BY <1>3, <2>3 DEF BatchCreate
  <2>5. InBatch' = InBatch \cup {n}
    BY <1>1, <2>4, BatchTakes
  <2>6. BuildsForBatch
    BY <1>3, <2>1, <2>2, <2>3, <2>5, PlacesKept DEF BatchCreate, BuildsForBatch
  <2>7. QED  BY <2>6 DEF Moves
<1>4. CASE BatchPut(r)
  <2>1. /\ Range(made[r]) \in SUBSET InBatch
        /\ Queued' = Queued \cup Range(made[r])
        /\ InBatch' = InBatch \ Range(made[r])
    BY <1>1, <1>4, BatchEnters
  <2>2. QueuesBatch(Range(made[r]))
    BY <1>4, <2>1, PlacesKept DEF BatchPut, QueuesBatch
  <2>3. QED  BY <2>1, <2>2 DEF Moves
<1>5. QED  BY <1>2, <1>3, <1>4 DEF ReplenisherStep

\* The steps of clients move nothing, or one container into or out of a hand.
LEMMA ClientMoves ==
  ASSUME PlacesInv, NEW a \in Clients, Acquire(a) \/ ClientStep(a)
  PROVE  Moves
<1> USE DEF clientVars, batchVars, dockerVars, lifeVars, gaugeVars, InPlace
<1>1. TypeOK /\ Apart /\ HandMatchesPc
  BY DEF PlacesInv
<1>2. \A q : PoolFor(q) \in Envs
  BY PoolAssumption DEF PoolFor
<1>3. ASSUME NEW e \in Envs, hand[a] = 0, idle[e] # <<>>, PopIdle(e),
             hand' = [hand EXCEPT ![a] = Head(idle[e])],
             UNCHANGED <<made, fleet, lost, cleaning, doomed, stage>>
      PROVE  Moves
  <2>1. PICK c : c = Head(idle[e])
    OBVIOUS
  <2>2. c \in Queued /\ c # 0 /\ Queued' = Queued \ {c}
    BY <1>1, <1>3, <2>1, QueuePops
  <2>3. Held' = Held \cup {c}
    BY <1>1, <1>3, <2>1, <2>2, HandTakes
  <2>4. HandsOver(a, c)
    BY <1>3, <2>1, <2>2, <2>3, PlacesKept DEF HandsOver
  <2>5. QED  BY <2>2, <2>4 DEF Moves
<1>4. CASE Acquire(a)
  <2>1. hand[a] = 0 /\ UNCHANGED <<made, fleet, lost, cleaning, doomed, stage>>
    BY <1>1, <1>4 DEF Acquire, HandMatchesPc
  <2>2. CASE UNCHANGED <<idle, hand>>
    BY <2>1, <2>2, PlacesKept DEF Moves, MovesNothing
  <2>3. CASE \E e \in Envs : /\ idle[e] # <<>> /\ PopIdle(e)
                             /\ hand' = [hand EXCEPT ![a] = Head(idle[e])]
    BY <1>3, <2>1, <2>3
  <2>4. QED  BY <1>1, <1>4, <2>2, <2>3, AcquireCases
<1>5. CASE TakeQueued(a)
  BY <1>1, <1>2, <1>3, <1>5 DEF TakeQueued, HandMatchesPc
<1>6. CASE GiveUp(a) \/ Activate(a)
  BY <1>6, PlacesKept DEF GiveUp, Activate, Moves, MovesNothing
<1>7. CASE CreateOnDemand(a)
  <2>1. CreateContainer(PoolFor(asked[a])) /\ hand[a] = 0
    BY <1>1, <1>7 DEF CreateOnDemand, HandMatchesPc
  <2>2. PICK n : n = Len(fleet') /\ n # 0
    BY <1>1, <1>2, <2>1, CreateContainerBuilds
  <2>3. hand' = [hand EXCEPT ![a] = n]
    BY <1>7, <2>2 DEF CreateOnDemand
  <2>4. Held' = Held \cup {n}
    BY <1>1, <2>1, <2>2, <2>3, HandTakes
  <2>5. BuildsForClient(a)
    BY <1>2, <1>7, <2>1, <2>2, <2>3, <2>4, PlacesKept
    DEF CreateOnDemand, BuildsForClient
  <2>6. QED  BY <2>5 DEF Moves
<1>8. CASE Release(a)
  <2>1. hand[a] # 0 /\ hand' = [hand EXCEPT ![a] = 0]
    BY <1>1, <1>8 DEF Release, HandMatchesPc
  <2>2. hand[a] \in Held /\ Held' = Held \ {hand[a]}
    BY <1>1, <2>1, HandGives
  <2>3. GivesBack(a)
    BY <1>8, <2>1, <2>2, PlacesKept DEF Release, StartCleanup, GivesBack
  <2>4. QED  BY <2>3 DEF Moves
<1>9. QED  BY <1>4, <1>5, <1>6, <1>7, <1>8 DEF ClientStep

\* Every step moves containers in one of these ways.
LEMMA StepMoves ==
  ASSUME PlacesInv, [Next]_vars
  PROVE  Moves
<1> USE DEF clientVars, batchVars, dockerVars, lifeVars, gaugeVars, InPlace
<1>1. TypeOK /\ Apart
  BY DEF PlacesInv
<1>2. CASE Initialize \/ FinishShutdown \/ LockForActive
  <2>1. TurnsStage
    BY <1>2, PlacesKept DEF Initialize, FinishShutdown, LockForActive, TurnsStage
  <2>2. QED  BY <2>1 DEF Moves
<1>3. ASSUME NEW c \in cleaning, CleanupContainer(c) PROVE Moves
  BY <1>3, PlacesKept DEF CleanupContainer, CleansUp, Moves
<1>4. ASSUME NEW c \in cleaning, CleanupCancelled(c) PROVE Moves
  BY <1>4, PlacesKept DEF CleanupCancelled, DropsCleanup, Moves
<1>5. ASSUME NEW e \in Envs, StrayEnds(e) PROVE Moves
  BY <1>5, PlacesKept DEF StrayEnds, BuildsStray, MovesNothing, Moves
<1>6. CASE BeginShutdown
  <2>1. InBatch' = {}
    <3>1. \A r \in Replenishers : Range(made'[r]) = {}
      BY <1>6, EmptyListed DEF BeginShutdown, CancelWorkers
    <3>2. QED  BY <3>1, Places
  <2>2. {c \in Running : \E r \in Replenishers : c \in Range(made[r])}
          = Running \cap InBatch
    BY Places
  <2>3. DropsBatches
    BY <1>6, <2>1, <2>2, PlacesKept DEF BeginShutdown, Serving, DropsBatches
  <2>4. QED  BY <2>3 DEF Moves
<1>7. ASSUME NEW e \in Envs, DrainPop(e) PROVE Moves
  <2>1. PICK c : c = Head(idle[e])
    OBVIOUS
  <2>2. c \in Queued /\ Queued' = Queued \ {c}
    BY <1>1, <1>7, <2>1, QueuePops DEF DrainPop
  <2>3. Drains(c)
    BY <1>7, <2>1, <2>2, PlacesKept DEF DrainPop, Drains
  <2>4. QED  BY <2>2, <2>3 DEF Moves
<1>8. ASSUME NEW c \in doomed, ShutdownTerminate(c) PROVE Moves
  BY <1>8, PlacesKept DEF ShutdownTerminate, Terminates, Moves
<1>9. CASE Quiesced \/ UNCHANGED vars
  BY <1>9, PlacesKept DEF Quiesced, vars, MovesNothing, Moves
<1>10. QED
  BY <1>2, <1>3, <1>4, <1>5, <1>6, <1>7, <1>8, <1>9, ReplenisherMoves,
     ClientMoves
  DEF Next, ShutdownStep

\* A container in a queue or a batch is not being cleaned up nor terminated, and
\* neither is one a client holds before shutdown takes the active set.
LEMMA UsableIsSafe ==
  ASSUME PlacesInv
  PROVE  /\ (Queued \cup InBatch) \cap (cleaning \cup doomed) = {}
         /\ Held \cap (Queued \cup InBatch \cup cleaning) = {}
         /\ Queued \cap InBatch = {}
         /\ stage \in {"down", "up", "draining"} => Held \cap doomed = {}
<1>1. TypeOK /\ Apart /\ Quiet /\ DoomedApart
  BY DEF PlacesInv
<1>2. (Queued \cup InBatch) \cap cleaning = {}
  BY <1>1, Places DEF Apart, QueuesApart, BatchesApart
<1>3. stage \in {"locked", "stopped"} => Queued \cup InBatch = {}
  BY <1>1, Places, EmptyListed DEF Quiet
<1>4. /\ Held \cap (Queued \cup InBatch \cup cleaning) = {}
      /\ Queued \cap InBatch = {}
  <2>1. ASSUME NEW c \in Held PROVE c \notin Queued \cup InBatch \cup cleaning
    BY <1>1, <2>1, Places DEF Apart, HandsApart
  <2>2. ASSUME NEW c \in Queued PROVE c \notin InBatch
    BY <1>1, <2>2, Places DEF Apart, QueuesApart
  <2>3. QED  BY <2>1, <2>2
<1>5. QED  BY <1>1, <1>2, <1>3, <1>4 DEF DoomedApart, TypeOK

\* Nothing is removed that may still be used.
LEMMA AliveStep ==
  ASSUME PlacesInv, [Next]_vars
  PROVE  Alive'
<1>1. TypeOK /\ Alive
  BY DEF PlacesInv
<1>2. \A c \in Queued \cup InBatch : fleet'[c].docker # "removed"
  BY <1>1, FleetStep, UsableIsSafe, RefsExist DEF Alive
<1>3. stage \in {"down", "up", "draining"} =>
        \A c \in Held : fleet'[c].docker # "removed"
  BY <1>1, FleetStep, UsableIsSafe, RefsExist DEF Alive
<1>4. (\E e \in Envs : CreateContainer(e)) => fleet'[Len(fleet')].docker # "removed"
  BY <1>1, CreateContainerBuilds DEF Real, Mock
<1>5. CASE /\ Held' \subseteq Held \cup Queued
           /\ Queued' \cup InBatch' \subseteq Queued \cup InBatch
           /\ stage' \in {"down", "up", "draining"} =>
                stage \in {"down", "up", "draining"}
  BY <1>2, <1>3, <1>5 DEF Alive
<1>6. CASE /\ \E e \in Envs : CreateContainer(e)
           /\ Held' \subseteq Held \cup {Len(fleet')}
           /\ Queued' \cup InBatch' \subseteq Queued \cup InBatch \cup {Len(fleet')}
           /\ stage' = stage
  BY <1>2, <1>3, <1>4, <1>6 DEF Alive
<1>7. CASE \/ \E a \in Clients : BuildsForClient(a)
           \/ BuildsForBatch
  BY <1>6, <1>7 DEF BuildsForClient, BuildsForBatch
<1>8. CASE \/ MovesNothing \/ DropsBatches \/ TurnsStage \/ BuildsStray
           \/ \E a \in Clients : GivesBack(a)
           \/ \E c \in cleaning : CleansUp(c) \/ DropsCleanup(c)
           \/ \E c \in doomed : Terminates(c)
           \/ \E c \in Queued : Drains(c) \/ \E a \in Clients : HandsOver(a, c)
           \/ \E S \in SUBSET InBatch : QueuesBatch(S)
  BY <1>5, <1>8
  DEF MovesNothing, DropsBatches, TurnsStage, BuildsStray, GivesBack, CleansUp,
      DropsCleanup, Terminates, Drains, HandsOver, QueuesBatch, InPlace
<1>9. QED  BY <1>7, <1>8, StepMoves DEF Moves

\* Nobody gets hold of what shutdown is terminating while it drains the queues.
LEMMA DoomedApartStep ==
  ASSUME PlacesInv, [Next]_vars
  PROVE  DoomedApart'
<1> DEFINE used == Held \cup Queued \cup InBatch \cup cleaning
<1>1. TypeOK /\ DoomedApart
  BY DEF PlacesInv
<1>2. doomed \subseteq Containers
  BY <1>1 DEF TypeOK
<1>3. CASE /\ stage' = stage /\ doomed' \subseteq doomed
           /\ used' \subseteq used
  BY <1>1, <1>3 DEF DoomedApart
<1>4. CASE /\ stage' = stage /\ doomed' = doomed
           /\ \E e \in Envs : CreateContainer(e)
           /\ used' \subseteq used \cup {Len(fleet')}
  <2>1. Len(fleet') \notin Containers
    BY <1>1, <1>4, CreateContainerBuilds
  <2>2. QED  BY <1>1, <1>2, <1>4, <2>1 DEF DoomedApart
<1>5. ASSUME NEW c \in Queued, Drains(c) PROVE DoomedApart'
  <2>1. c \notin Held \cup InBatch \cup cleaning
    BY <1>5, UsableIsSafe
  <2>2. QED  BY <1>5, <2>1 DEF Drains, DoomedApart
<1>6. CASE DropsBatches \/ TurnsStage
  BY <1>1, <1>6 DEF DropsBatches, TurnsStage, DoomedApart
<1>7. CASE \/ \E a \in Clients : BuildsForClient(a)
           \/ BuildsForBatch
  BY <1>4, <1>7 DEF BuildsForClient, BuildsForBatch
<1>8. CASE \/ MovesNothing \/ BuildsStray
           \/ \E a \in Clients : GivesBack(a)
           \/ \E c \in cleaning : CleansUp(c) \/ DropsCleanup(c)
           \/ \E c \in doomed : Terminates(c)
           \/ \E c \in Queued, a \in Clients : HandsOver(a, c)
           \/ \E S \in SUBSET InBatch : QueuesBatch(S)
  BY <1>3, <1>8
  DEF MovesNothing, BuildsStray, GivesBack, CleansUp, DropsCleanup, Terminates,
      HandsOver, QueuesBatch, InPlace
<1>9. QED  BY <1>5, <1>6, <1>7, <1>8, StepMoves DEF Moves

\* A container that runs is referred to or known to be lost.
LEMMA NoSilentLeakStep ==
  ASSUME PlacesInv, [Next]_vars
  PROVE  NoSilentLeak'
<1> USE DEF Referenced
<1>1. TypeOK /\ NoSilentLeak
  BY DEF PlacesInv
<1>2. fleet' = fleet => Running' = Running
  BY DEF Running, Containers
<1>3. CASE /\ fleet' = fleet /\ Referenced \cup lost \subseteq Referenced' \cup lost'
  BY <1>1, <1>2, <1>3 DEF NoSilentLeak
<1>4. CASE /\ \E e \in Envs : CreateContainer(e)
           /\ Referenced \cup {Len(fleet')} \subseteq Referenced'
  <2>1. Running' \subseteq Running \cup lost' \cup {Len(fleet')} /\ lost \subseteq lost'
    BY <1>1, <1>4, CreateContainerBuilds
  <2>2. QED  BY <1>1, <1>4, <2>1 DEF NoSilentLeak
<1>5. ASSUME NEW c \in Containers, Terminate(c), Referenced \ {c} \subseteq Referenced'
      PROVE  NoSilentLeak'
  <2>1. /\ Running' \subseteq Running /\ lost \subseteq lost'
        /\ c \in Running' => c \in lost'
    BY <1>1, <1>5, TerminateRemoves
  <2>2. QED  BY <1>1, <1>5, <2>1 DEF NoSilentLeak
<1>6. CASE \/ \E a \in Clients : BuildsForClient(a)
           \/ BuildsForBatch
  BY <1>4, <1>6 DEF BuildsForClient, BuildsForBatch
<1>7. CASE \/ \E c \in cleaning : CleansUp(c)
           \/ \E c \in doomed : Terminates(c)
  BY <1>1, <1>5, <1>7 DEF CleansUp, Terminates, InPlace, TypeOK
<1>8. CASE BuildsStray
  <2>1. PICK e \in Envs : fleet' = Append(fleet, Real(e))
    BY <1>8 DEF BuildsStray
  <2>2. Real(e) \in Instance /\ fleet \in Seq(Instance)
    BY <1>1 DEF Real, Instance, TypeOK
  <2>3. /\ Containers' = Containers \cup {Len(fleet) + 1}
        /\ \A c \in Containers : fleet'[c] = fleet[c]
    BY <2>1, <2>2, FleetIndexes DEF Containers
  <2>4. Running' \subseteq Running \cup {Len(fleet) + 1}
    BY <2>3 DEF Running
  <2>5. QED  BY <1>1, <1>8, <2>4 DEF BuildsStray, NoSilentLeak, InPlace
<1>9. CASE DropsBatches \/ \E c \in cleaning : DropsCleanup(c)
  BY <1>1, <1>2, <1>9 DEF DropsBatches, DropsCleanup, InPlace, NoSilentLeak
<1>10. CASE \/ MovesNothing \/ TurnsStage
            \/ \E a \in Clients : GivesBack(a)
            \/ \E c \in Queued : Drains(c) \/ \E a \in Clients : HandsOver(a, c)
            \/ \E S \in SUBSET InBatch : QueuesBatch(S)
  BY <1>3, <1>10
  DEF MovesNothing, TurnsStage, GivesBack, Drains, HandsOver, QueuesBatch, InPlace
<1>11. QED  BY <1>6, <1>7, <1>8, <1>9, <1>10, StepMoves DEF Moves

(***************************************************************************)
(* The active set.                                                          *)
(***************************************************************************)
\* What the clients hold that have left acquire.
Holding == {hand[a] : a \in {b \in Clients : pc[b] = "holding"}}

\* ActiveIsHeld says what it says of Holding; a step that changes one client
\* changes what Holding has of that client, and nothing else.
LEMMA HoldingOf ==
  /\ ActiveIsHeld <=>
       IF stage = "stopped" THEN active \subseteq Holding ELSE active = Holding
  /\ ActiveIsHeld' <=>
       IF stage' = "stopped" THEN active' \subseteq Holding' ELSE active' = Holding'
  /\ \A c : c \in Holding <=> \E a \in Clients : pc[a] = "holding" /\ hand[a] = c
  /\ \A c : c \in Holding' <=> \E a \in Clients : pc'[a] = "holding" /\ hand'[a] = c
BY DEF ActiveIsHeld, Holding

\* The active set stays what the clients hold.
LEMMA ActiveIsHeldStep ==
  ASSUME PlacesInv, [Next]_vars
  PROVE  ActiveIsHeld'
<1> USE DEF clientVars, batchVars, dockerVars, lifeVars, gaugeVars
<1>1. TypeOK /\ Apart /\ HandMatchesPc /\ ActiveIsHeld
  BY DEF PlacesInv
<1>2. CASE UNCHANGED <<active, stage>> /\ Holding' = Holding
  BY <1>1, <1>2, HoldingOf
<1>3. ASSUME NEW a \in Clients, NEW s, pc[a] # "holding", s # "holding",
             pc' = [pc EXCEPT ![a] = s], UNCHANGED <<active, stage>>,
             \A b \in Clients \ {a} : hand'[b] = hand[b]
      PROVE  ActiveIsHeld'
  <2>1. \A b \in Clients : pc'[b] = "holding" <=> b # a /\ pc[b] = "holding"
    BY <1>1, <1>3 DEF TypeOK
  <2>2. Holding' = Holding
    BY <1>3, <2>1, HoldingOf
  <2>3. QED  BY <1>2, <1>3, <2>2
<1>4. ASSUME NEW a \in Clients, NEW e, NEW c, pc[a] # "holding",
             pc' = [pc EXCEPT ![a] = "holding"], EnterActive(e, c),
             UNCHANGED stage, hand'[a] = c,
             \A b \in Clients \ {a} : hand'[b] = hand[b]
      PROVE  ActiveIsHeld'
  <2>1. \A b \in Clients : pc'[b] = "holding" <=> b = a \/ pc[b] = "holding"
    BY <1>1, <1>4 DEF TypeOK
  <2>2. Holding' = Holding \cup {c}
    BY <1>4, <2>1, HoldingOf
  <2>3. QED  BY <1>1, <1>4, <2>2, HoldingOf DEF EnterActive
<1>5. ASSUME NEW a \in Clients, Acquire(a) PROVE ActiveIsHeld'
  <2>1. pc[a] # "holding" /\ UNCHANGED stage
    BY <1>5 DEF Acquire
  <2>2. \A c : hand' = [hand EXCEPT ![a] = c] =>
                 hand'[a] = c /\ \A b \in Clients \ {a} : hand'[b] = hand[b]
    BY <1>1 DEF TypeOK
  <2>3. PICK e \in Envs :
          \/ /\ pc' = [pc EXCEPT ![a] = "waiting"] /\ UNCHANGED <<hand, active>>
          \/ /\ hand' = [hand EXCEPT ![a] = Head(idle[e])]
             /\ \/ /\ pc' = [pc EXCEPT ![a] = "holding"]
                   /\ EnterActive(e, Head(idle[e]))
                \/ /\ pc' = [pc EXCEPT ![a] = "got"] /\ UNCHANGED active
    BY <1>1, <1>5, AcquireCases
  <2>4. CASE pc' = [pc EXCEPT ![a] = "waiting"] /\ UNCHANGED <<hand, active>>
    BY <1>3, <2>1, <2>4
  <2>5. CASE /\ hand' = [hand EXCEPT ![a] = Head(idle[e])]
             /\ pc' = [pc EXCEPT ![a] = "got"] /\ UNCHANGED active
    BY <1>3, <2>1, <2>2, <2>5
  <2>6. CASE /\ hand' = [hand EXCEPT ![a] = Head(idle[e])]
             /\ pc' = [pc EXCEPT ![a] = "holding"]
             /\ EnterActive(e, Head(idle[e]))
    BY <1>4, <2>1, <2>2, <2>6
  <2>7. QED  BY <2>3, <2>4, <2>5, <2>6
<1>6. ASSUME NEW a \in Clients, TakeQueued(a) \/ GiveUp(a) \/ CreateOnDemand(a)
      PROVE  ActiveIsHeld'
  <2>1. /\ pc[a] # "holding" /\ UNCHANGED <<active, stage>>
        /\ \E s \in {"got", "creating"} : pc' = [pc EXCEPT ![a] = s]
    BY <1>6 DEF TakeQueued, GiveUp, CreateOnDemand
  <2>2. \A b \in Clients \ {a} : hand'[b] = hand[b]
    BY <1>1, <1>6 DEF TakeQueued, GiveUp, CreateOnDemand, TypeOK
  <2>3. QED  BY <1>3, <2>1, <2>2
<1>7. ASSUME NEW a \in Clients, Activate(a) PROVE ActiveIsHeld'
  BY <1>4, <1>7 DEF Activate
<1>8. ASSUME NEW a \in Clients, Release(a) PROVE ActiveIsHeld'
  <2>1. /\ \A b \in Clients :
             pc'[b] = "holding" <=> b # a /\ pc[b] = "holding"
        /\ \A b \in Clients \ {a} : hand'[b] = hand[b] /\ hand[b] # hand[a]
    BY <1>1, <1>8 DEF Release, TypeOK, HandMatchesPc, Apart, HandsApart
  <2>2. Holding' = Holding \ {hand[a]}
    BY <2>1, HoldingOf
  <2>3. QED  BY <1>1, <1>8, <2>2, HoldingOf DEF Release, LeaveActive
<1>9. CASE LockForActive \/ Initialize \/ BeginShutdown
  <2>1. UNCHANGED <<active, hand, pc>> /\ stage' # "stopped" /\ stage # "stopped"
    BY <1>9 DEF LockForActive, Initialize, BeginShutdown, Serving
  <2>2. Holding' = Holding
    BY <2>1, HoldingOf
  <2>3. QED  BY <1>1, <2>1, <2>2, HoldingOf
<1>10. CASE FinishShutdown
  BY <1>10, HoldingOf DEF FinishShutdown
<1>11. CASE UNCHANGED <<active, stage, hand, pc>>
  <2>1. Holding' = Holding
    BY <1>11, HoldingOf
  <2>2. QED  BY <1>2, <1>11, <2>1
<1>12. CASE \/ \E r \in Replenishers : ReplenisherStep(r)
            \/ \E e \in Envs : StrayEnds(e) \/ DrainPop(e)
            \/ \E c \in cleaning : CleanupContainer(c) \/ CleanupCancelled(c)
            \/ \E c \in doomed : ShutdownTerminate(c)
            \/ Quiesced \/ UNCHANGED vars
  BY <1>11, <1>12
  DEF ReplenisherStep, Replenish, BatchCreate, BatchPut, StrayEnds, DrainPop,
      CleanupContainer, CleanupCancelled, ShutdownTerminate, Quiesced, vars
<1>13. QED
  BY <1>5, <1>6, <1>7, <1>8, <1>9, <1>10, <1>12
  DEF Next, ClientStep, ShutdownStep

(***************************************************************************)
(* The theorems.                                                            *)
(***************************************************************************)
\* Nothing is built yet when the program starts.
LEMMA InitPlaces == Init => PlacesInv
<1> SUFFICES ASSUME Init PROVE PlacesInv
  OBVIOUS
<1>1. TypeOK /\ HandMatchesPc
  BY InitTypeOK DEF Init, HandMatchesPc
<1>2. /\ \A a \in Clients : hand[a] = 0 /\ pc[a] = "start"
      /\ \A e \in Envs : Range(idle[e]) = {} /\ IsInjective(idle[e])
      /\ \A r \in Replenishers : Range(made[r]) = {} /\ IsInjective(made[r])
      /\ active = {} /\ cleaning = {} /\ doomed = {} /\ stage = "down"
  BY EmptyListed DEF Init
<1>3. Held = {} /\ Queued = {} /\ InBatch = {}
  BY <1>2, Places
<1>4. Apart /\ RightPlace
  BY <1>2 DEF Apart, HandsApart, QueuesApart, BatchesApart, RightPlace
<1>5. Quiet /\ DoomedApart /\ Alive
  BY <1>2, <1>3 DEF Quiet, DoomedApart, Alive
<1>6. ActiveIsHeld
  BY <1>2, HoldingOf
<1>7. NoSilentLeak
  <2>1. Containers = {}
    BY DEF Init, Containers
  <2>2. QED  BY <2>1 DEF NoSilentLeak, Running
<1>8. QED  BY <1>1, <1>4, <1>5, <1>6, <1>7 DEF PlacesInv

\* What the theorems rest on: the invariant holds, whatever the number of
\* clients, environments and containers, and whatever Docker does.
LEMMA PlacesInvariant == Spec => []PlacesInv
<1>1. TypeOK /\ HandMatchesPc /\ TypeOK' /\ HandMatchesPc' /\ PlacesInv /\ [Next]_vars
        => PlacesInv'
  BY ApartStep, RightPlaceStep, QuietStep, DoomedApartStep, AliveStep,
     ActiveIsHeldStep, NoSilentLeakStep
  DEF PlacesInv
<1>2. QED  BY <1>1, InitPlaces, TypeCorrect, PTL DEF Spec

\* No container is ever in two places (pool.py:199): one client's hand, one slot
\* of one queue, one batch or one cleanup task.
THEOREM Isolated == Spec => []Isolation
<1>1. PlacesInv => Isolation
  <2> SUFFICES ASSUME PlacesInv PROVE Isolation
    OBVIOUS
  <2>1. Apart /\ TypeOK
    BY DEF PlacesInv
  <2>2. /\ Held \cap (Queued \cup InBatch \cup cleaning) = {}
        /\ Queued \cap InBatch = {} /\ cleaning \cap (Queued \cup InBatch) = {}
    BY UsableIsSafe
  <2>3. QED
    BY <2>1, <2>2 DEF Isolation, Apart, HandsApart, QueuesApart, BatchesApart
<1>2. QED  BY <1>1, PlacesInvariant, PTL

\* _active_containers is what the clients hold.
THEOREM ActiveSetExact == Spec => []ActiveIsHeld
<1>1. PlacesInv => ActiveIsHeld
  BY DEF PlacesInv
<1>2. QED  BY <1>1, PlacesInvariant, PTL

\* A running container that nothing refers to was lost to a named cause.
THEOREM LeaksAreNamed == Spec => []NoSilentLeak
<1>1. PlacesInv => NoSilentLeak
  BY DEF PlacesInv
<1>2. QED  BY <1>1, PlacesInvariant, PTL

\* No container is removed under a client that uses it while the pool serves.
THEOREM NeverRemovedInUse == Spec => []HeldIsAlive
<1>1. PlacesInv => HeldIsAlive
  BY DEF PlacesInv, Alive, HeldIsAlive
<1>2. QED  BY <1>1, PlacesInvariant, PTL

\* After shutdown has returned no queue fills and no replenisher runs.
THEOREM ShutdownIsQuiet == Spec => []QuietAfterShutdown
<1>1. PlacesInv => QuietAfterShutdown
  <2> SUFFICES ASSUME Quiet, stage = "stopped"
               PROVE  /\ Queued = {} /\ InBatch = {}
                      /\ \A r \in Replenishers : phase[r] = "ended"
    BY DEF PlacesInv, QuietAfterShutdown
  <2>1. QED  BY Places, EmptyListed DEF Quiet
<1>2. QED  BY <1>1, PlacesInvariant, PTL

\* A client runs in a container of the environment its request names, if the
\* pool has it, and of the default environment if not.
THEOREM RuntimeIsRight == Spec => []RightRuntime
<1>1. PlacesInv => RightRuntime
  BY DEF PlacesInv, RightPlace, RightRuntime, PoolFor
<1>2. QED  BY <1>1, PlacesInvariant, PTL

\* POOL_ACTIVE_CONTAINERS is set under the environment of the container that enters
\* or leaves the active set, and to the size the set then has: the environment that
\* acquire looked up from the client's request is the container's own.
THEOREM ActiveGaugeRight == Spec => ActiveGaugeReported
<1> DEFINE Reported(e) ==
             activeGauge' = [activeGauge EXCEPT ![e] = Cardinality(active')]
           Joined == active' \ active
           Left   == active \ active'
           Quietly == UNCHANGED <<active, activeGauge>>
           Enters == /\ Left = {}
                     /\ \E e \in Envs : /\ Reported(e)
                                       /\ \A c \in Joined : fleet'[c].env = e
           Leaves == /\ Joined = {}
                     /\ \E e \in Envs : /\ Reported(e)
                                       /\ \A c \in Left : fleet[c].env = e
           Clears == stage' # stage /\ UNCHANGED activeGauge
<1>1. ASSUME PlacesInv, [Next]_vars PROVE Quietly \/ Enters \/ Leaves \/ Clears
  <2> USE DEF lifeVars, batchVars, clientVars, gaugeVars, dockerVars
  <2>1. /\ RightPlace /\ HandMatchesPc /\ TypeOK /\ Apart
        /\ \A q : PoolFor(q) \in Envs
    BY <1>1, PoolAssumption DEF PlacesInv, PoolFor
  <2>2. ASSUME NEW e \in Envs, NEW c, EnterActive(e, c), fleet'[c].env = e
        PROVE  Enters
    BY <2>2 DEF EnterActive
  <2>3. ASSUME NEW a \in Clients, Acquire(a) PROVE Quietly \/ Enters
    <3>1. PICK q \in Requests :
            \/ Quietly
            \/ /\ idle[PoolFor(q)] # <<>> /\ UNCHANGED fleet
               /\ EnterActive(PoolFor(q), Head(idle[PoolFor(q)]))
      BY <2>3 DEF Acquire
    <3>2. ASSUME idle[PoolFor(q)] # <<>>
          PROVE  fleet[Head(idle[PoolFor(q)])].env = PoolFor(q)
      <4>1. /\ idle[PoolFor(q)] \in Seq(Containers)
            /\ IsInjective(idle[PoolFor(q)])
        BY <2>1 DEF TypeOK, Apart, QueuesApart
      <4>2. Head(idle[PoolFor(q)]) \in Range(idle[PoolFor(q)])
        BY <3>2, <4>1, TailListed
      <4>3. QED  BY <2>1, <4>2 DEF RightPlace
    <3>3. QED  BY <2>1, <2>2, <3>1, <3>2
  <2>4. ASSUME NEW a \in Clients, Activate(a) PROVE Enters
    <3>1. /\ hand[a] # 0 /\ UNCHANGED fleet
          /\ EnterActive(PoolFor(asked[a]), hand[a])
      BY <2>1, <2>4 DEF Activate, HandMatchesPc
    <3>2. fleet[hand[a]].env = PoolFor(asked[a])
      BY <2>1, <3>1 DEF RightPlace
    <3>3. QED  BY <2>1, <2>2, <3>1, <3>2
  <2>5. ASSUME NEW a \in Clients, Release(a) PROVE Leaves
    <3>1. hand[a] # 0 /\ LeaveActive(hand[a])
      BY <2>1, <2>5 DEF Release, HandMatchesPc
    <3>2. fleet[hand[a]].env \in Envs
      BY <2>1, <3>1 DEF RightPlace
    <3>3. QED  BY <3>1, <3>2 DEF LeaveActive
  <2>6. CASE FinishShutdown
    BY <2>6 DEF FinishShutdown
  <2>7. CASE \/ Initialize \/ BeginShutdown \/ LockForActive \/ Quiesced
             \/ UNCHANGED vars
             \/ \E r \in Replenishers : ReplenisherStep(r)
             \/ \E a \in Clients : TakeQueued(a) \/ GiveUp(a) \/ CreateOnDemand(a)
             \/ \E c \in cleaning : CleanupContainer(c) \/ CleanupCancelled(c)
             \/ \E e \in Envs : StrayEnds(e) \/ DrainPop(e)
             \/ \E c \in doomed : ShutdownTerminate(c)
    BY <2>7
    DEF Initialize, BeginShutdown, LockForActive, Quiesced, vars,
        ReplenisherStep, Replenish, BatchCreate, BatchPut, TakeQueued, GiveUp,
        CreateOnDemand, CleanupContainer, CleanupCancelled, StrayEnds, DrainPop,
        ShutdownTerminate
  <2>8. QED
    BY <1>1, <2>3, <2>4, <2>5, <2>6, <2>7 DEF Next, ClientStep, ShutdownStep
<1>2. Quietly \/ Enters \/ Leaves \/ Clears =>
        /\ stage' = stage => /\ \A c \in Joined : Reported(fleet'[c].env)
                            /\ \A c \in Left : Reported(fleet[c].env)
        /\ activeGauge' # activeGauge => \E e \in Envs : Reported(e)
  OBVIOUS
<1>3. PlacesInv /\ [Next]_vars =>
        [/\ stage' = stage => /\ \A c \in Joined : Reported(fleet'[c].env)
                             /\ \A c \in Left : Reported(fleet[c].env)
         /\ activeGauge' # activeGauge => \E e \in Envs : Reported(e)]_vars
  BY <1>1, <1>2
<1>4. QED  BY <1>3, PlacesInvariant, PTL DEF Spec, ActiveGaugeReported

\* A server that finishes its requests first runs shutdown without any client
\* inside acquire or between acquire and release.
ServedFirst ==
  DrainFirst /\ stage \in {"draining", "locked", "stopped"} =>
    \A a \in Clients : pc[a] \in {"start", "done"}

\* So nothing that shutdown terminates is in use, for any number of clients.
THEOREM ShutdownAfterClients == Spec => []ServedFirst
<1> USE DEF clientVars, batchVars, dockerVars, lifeVars, gaugeVars
<1>1. Init => ServedFirst
  BY DEF Init, ServedFirst
<1>2. ASSUME TypeOK, ServedFirst, [Next]_vars PROVE ServedFirst'
  <2>1. CASE BeginShutdown
    BY <1>2, <2>1 DEF BeginShutdown, ServedFirst
  <2>2. ASSUME NEW a \in Clients, Acquire(a) PROVE ServedFirst'
    BY <1>2, <2>2 DEF Acquire, Serving, ServedFirst
  <2>3. ASSUME NEW a \in Clients, ClientStep(a) PROVE ServedFirst'
    <3>1. UNCHANGED stage /\ pc[a] \notin {"start", "done"}
      BY <2>3 DEF ClientStep, TakeQueued, GiveUp, CreateOnDemand, Activate,
                  Release
    <3>2. QED  BY <1>2, <3>1 DEF ServedFirst
  <2>4. CASE Initialize \/ ShutdownStep
    <3>1. /\ UNCHANGED pc
          /\ \/ stage' = "up" \/ UNCHANGED stage
             \/ stage \in {"draining", "locked"}
      BY <2>4 DEF Initialize, ShutdownStep, DrainPop, ShutdownTerminate,
                  LockForActive, FinishShutdown
    <3>2. QED  BY <1>2, <3>1 DEF ServedFirst
  <2>5. CASE UNCHANGED <<pc, stage>>
    BY <1>2, <2>5 DEF ServedFirst
  <2>6. CASE \/ \E r \in Replenishers : ReplenisherStep(r)
             \/ \E e \in Envs : StrayEnds(e)
             \/ \E c \in cleaning : CleanupContainer(c) \/ CleanupCancelled(c)
             \/ Quiesced \/ UNCHANGED vars
    BY <2>5, <2>6
    DEF ReplenisherStep, Replenish, BatchCreate, BatchPut, StrayEnds,
        CleanupContainer, CleanupCancelled, Quiesced, vars
  <2>7. QED  BY <1>2, <2>1, <2>2, <2>3, <2>4, <2>6 DEF Next
<1>3. QED  BY <1>1, <1>2, TypeCorrect, PTL DEF Spec
=================================================================================
