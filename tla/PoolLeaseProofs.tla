----------------------------- MODULE PoolLeaseProofs -----------------------------
(***************************************************************************)
(* Proof that WarmPool implements SandboxLease: every step of the pool is a  *)
(* step of the leases, or changes none of them.                             *)
(***************************************************************************)
EXTENDS PoolPlacesProofs

LeaseState == {"ready", "leased", "spent"}

(***************************************************************************)
(* The leases as a sequence.                                                *)
(***************************************************************************)
\* The refinement mapping gives every container a state.
LEMMA ViewIsSeq ==
  ASSUME fleet \in Seq(Instance)
  PROVE  /\ leaseView \in Seq(LeaseState) /\ Len(leaseView) = Len(fleet)
         /\ DOMAIN leaseView = Containers /\ Containers = 1 .. Len(fleet)
         /\ Len(fleet) \in Nat
<1>1. Len(fleet) \in Nat /\ Containers = 1 .. Len(fleet)
  BY FleetIndexes DEF Containers
<1>2. leaseView \in [1 .. Len(fleet) -> LeaseState]
  BY <1>1 DEF leaseView, LeaseState
<1>3. leaseView \in Seq(LeaseState)
  BY <1>1, <1>2, SeqDef
<1>4. QED  BY <1>1, <1>2, <1>3, LenProperties

\* What it gives, before and after a step.
LEMMA ViewOf ==
  /\ \A c \in Containers :
       leaseView[c] = IF c \in Queued \cup InBatch THEN "ready"
                      ELSE IF c \in Held THEN "leased" ELSE "spent"
  /\ \A c \in Containers' :
       leaseView'[c] = IF c \in Queued' \cup InBatch' THEN "ready"
                       ELSE IF c \in Held' THEN "leased" ELSE "spent"
  /\ DOMAIN leaseView' = Containers'
BY DEF leaseView

\* No container of a place changes what it is: nothing happens to the leases.
LEMMA ViewKept ==
  ASSUME Containers' = Containers, Queued' \cup InBatch' = Queued \cup InBatch,
         Held' = Held
  PROVE  leaseView' = leaseView
BY DEF leaseView

\* The fleet grows at its end, by what nobody used.
LEMMA ViewGrows ==
  ASSUME PlacesInv, fleet' \in Seq(Instance), NEW u \in Seq(LeaseState),
         Len(fleet') = Len(fleet) + Len(u),
         \A c \in Containers :
           /\ c \in Queued' \cup InBatch' <=> c \in Queued \cup InBatch
           /\ c \in Held' <=> c \in Held,
         \A i \in 1 .. Len(u) : leaseView'[Len(fleet) + i] = u[i]
  PROVE  leaseView' = leaseView \o u
<1>1. /\ leaseView \in Seq(LeaseState) /\ Len(leaseView) = Len(fleet)
      /\ Containers = 1 .. Len(fleet) /\ Len(fleet) \in Nat
  BY ViewIsSeq DEF PlacesInv, TypeOK
<1>2. PICK v, n : v = leaseView' /\ n = Len(fleet')
  OBVIOUS
<1>3. v \in Seq(LeaseState) /\ Len(v) = n /\ n \in Nat /\ Containers' = 1 .. n
  <2>1. n \in Nat /\ Containers' = 1 .. n
    BY <1>2, FleetIndexes DEF Containers
  <2>2. v \in [1 .. n -> LeaseState]
    BY <1>2, <2>1 DEF leaseView, LeaseState
  <2>3. v \in Seq(LeaseState)
    BY <2>1, <2>2, SeqDef
  <2>4. QED  BY <2>1, <2>2, <2>3, LenProperties
<1>4. Len(u) \in Nat
  BY LenProperties
<1>5. ASSUME NEW i \in 1 .. Len(leaseView) PROVE v[i] = leaseView[i]
  <2>1. i \in Containers /\ i \in Containers'
    BY <1>1, <1>2, <1>3, <1>4, <1>5
  <2>2. QED  BY <1>2, <2>1, ViewOf
<1>6. \A i \in 1 .. Len(u) : v[Len(leaseView) + i] = u[i]
  BY <1>1, <1>2
<1>7. Len(v) = Len(leaseView) + Len(u)
  BY <1>1, <1>2, <1>3
<1>8. v = leaseView \o u
  BY <1>1, <1>3, <1>5, <1>6, <1>7, ContinuedBy
<1>9. QED  BY <1>2, <1>8

(***************************************************************************)
(* The steps.                                                               *)
(***************************************************************************)
\* _create_container builds one container, or two.
LEMMA BuildsOneOrTwo ==
  ASSUME TypeOK, NEW e \in Envs, CreateContainer(e)
  PROVE  /\ fleet' \in Seq(Instance)
         /\ Len(fleet') = Len(fleet) + 1 \/ Len(fleet') = Len(fleet) + 2
<1>1. fleet \in Seq(Instance) /\ Real(e) \in Instance /\ Mock(e) \in Instance
  BY DEF TypeOK, Real, Mock, Instance
<1>2. fleet' \in Seq(Instance)
  BY CreateContainerType
<1>3. CASE \E i \in {Real(e), Mock(e)} : fleet' = Append(fleet, i)
  BY <1>1, <1>2, <1>3, FleetIndexes
<1>4. CASE fleet' = fleet \o <<Real(e), Mock(e)>>
  <2>1. <<Real(e), Mock(e)>> \in Seq(Instance) /\ Len(<<Real(e), Mock(e)>>) = 2
    BY <1>1
  <2>2. QED  BY <1>1, <1>2, <1>4, <2>1, ConcatProperties
<1>5. QED  BY <1>2, <1>3, <1>4 DEF CreateContainer

\* The last container built is ready or leased, and one built before it spent.
LEMMA ViewOfBuilt ==
  ASSUME PlacesInv, NEW e \in Envs, CreateContainer(e), NEW x \in LeaseState,
         \A c \in Containers :
           /\ c \in Queued' \cup InBatch' <=> c \in Queued \cup InBatch
           /\ c \in Held' <=> c \in Held,
         Queued' \cup InBatch' \cup Held'
           \subseteq Queued \cup InBatch \cup Held \cup {Len(fleet')},
         leaseView'[Len(fleet')] = x
  PROVE  /\ \/ leaseView' = leaseView \o <<x>>
            \/ leaseView' = leaseView \o <<"spent", x>>
         /\ Len(fleet') = Len(leaseView')
<1>1. TypeOK /\ fleet \in Seq(Instance)
  BY DEF PlacesInv, TypeOK
<1>2. PICK n, v : n = Len(fleet') /\ v = leaseView'
  OBVIOUS
<1>3. /\ fleet' \in Seq(Instance) /\ Len(fleet) \in Nat
      /\ Containers = 1 .. Len(fleet) /\ Containers' = 1 .. n
      /\ n = Len(fleet) + 1 \/ n = Len(fleet) + 2
  BY <1>1, <1>2, BuildsOneOrTwo, FleetIndexes DEF Containers
<1>4. leaseView \in Seq(LeaseState) /\ Len(leaseView) = Len(fleet)
  BY <1>1, ViewIsSeq
<1>5. v[n] = x
  BY <1>2
<1>6. CASE n = Len(fleet) + 1
  <2>1. <<x>> \in Seq(LeaseState) /\ Len(<<x>>) = 1 /\ <<x>>[1] = x
    OBVIOUS
  <2>2. \A i \in 1 .. Len(<<x>>) : v[Len(fleet) + i] = <<x>>[i]
    BY <1>5, <1>6, <2>1
  <2>3. leaseView' = leaseView \o <<x>>
    BY <1>2, <1>3, <1>6, <2>1, <2>2, ViewGrows
  <2>4. Len(leaseView \o <<x>>) = Len(fleet) + 1
    BY <1>4, <2>1, ConcatProperties
  <2>5. QED  BY <1>2, <1>6, <2>3, <2>4
<1>7. CASE n = Len(fleet) + 2
  <2>1. /\ <<"spent", x>> \in Seq(LeaseState) /\ Len(<<"spent", x>>) = 2
        /\ <<"spent", x>>[1] = "spent" /\ <<"spent", x>>[2] = x
    BY DEF LeaseState
  <2>2. v[Len(fleet) + 1] = "spent"
    <3>1. /\ Len(fleet) + 1 \notin Containers /\ Len(fleet) + 1 \in Containers'
          /\ Len(fleet) + 1 # n
      BY <1>3, <1>7
    <3>2. Len(fleet) + 1 \notin Queued' \cup InBatch' \cup Held'
      BY <1>1, <1>2, <3>1, RefsExist
    <3>3. QED  BY <1>2, <3>1, <3>2, ViewOf
  <2>3. \A i \in 1 .. Len(<<"spent", x>>) : v[Len(fleet) + i] = <<"spent", x>>[i]
    BY <1>3, <1>5, <1>7, <2>1, <2>2
  <2>4. leaseView' = leaseView \o <<"spent", x>>
    BY <1>2, <1>3, <1>7, <2>1, <2>3, ViewGrows
  <2>5. Len(leaseView \o <<"spent", x>>) = Len(fleet) + 2
    BY <1>4, <2>1, ConcatProperties
  <2>6. QED  BY <1>2, <1>7, <2>4, <2>5
<1>8. QED  BY <1>3, <1>6, <1>7

\* Building for a client grants a new container, and for a batch provides one.
LEMMA BuildingLeases ==
  ASSUME PlacesInv
  PROVE  /\ \A a \in Clients : BuildsForClient(a) => Lease!GrantNew(a)
         /\ BuildsForBatch => Lease!Provision
         /\ BuildsStray => Lease!Provision
<1>1. TypeOK /\ fleet \in Seq(Instance)
  BY DEF PlacesInv, TypeOK
<1>2. Held \cup Queued \cup InBatch \subseteq Containers
  BY <1>1, RefsExist
<1>3. ASSUME NEW e \in Envs, CreateContainer(e)
      PROVE  Len(fleet') \in Containers' \ Containers
  BY <1>1, <1>3, CreateContainerBuilds, CreateContainerType
<1>4. ASSUME NEW a \in Clients, BuildsForClient(a) PROVE Lease!GrantNew(a)
  <2>1. PICK e \in Envs : CreateContainer(e)
    BY <1>4 DEF BuildsForClient
  <2>2. /\ hand[a] = 0 /\ hand' = [hand EXCEPT ![a] = Len(fleet')]
        /\ Held' = Held \cup {Len(fleet')} /\ Queued' = Queued /\ InBatch' = InBatch
    BY <1>4 DEF BuildsForClient
  <2>3. leaseView'[Len(fleet')] = "leased"
    BY <1>2, <1>3, <2>1, <2>2, ViewOf
  <2>4. "leased" \in LeaseState
    BY DEF LeaseState
  <2>5. /\ \/ leaseView' = leaseView \o <<"leased">>
           \/ leaseView' = leaseView \o <<"spent", "leased">>
        /\ Len(fleet') = Len(leaseView')
    <3>1. \A c \in Containers :
            /\ c \in Queued' \cup InBatch' <=> c \in Queued \cup InBatch
            /\ c \in Held' <=> c \in Held
      BY <1>3, <2>1, <2>2
    <3>2. QED  BY <2>1, <2>2, <2>3, <2>4, <3>1, ViewOfBuilt
  <2>6. QED  BY <2>2, <2>5 DEF Lease!GrantNew
<1>5. ASSUME BuildsForBatch PROVE Lease!Provision
  <2>1. PICK e \in Envs : CreateContainer(e)
    BY <1>5 DEF BuildsForBatch
  <2>2. /\ InBatch' = InBatch \cup {Len(fleet')} /\ Queued' = Queued
        /\ Held' = Held /\ hand' = hand
    BY <1>5 DEF BuildsForBatch
  <2>3. leaseView'[Len(fleet')] = "ready"
    BY <1>3, <2>1, <2>2, ViewOf
  <2>4. "ready" \in LeaseState
    BY DEF LeaseState
  <2>5. \/ leaseView' = leaseView \o <<"ready">>
        \/ leaseView' = leaseView \o <<"spent", "ready">>
    <3>1. \A c \in Containers :
            /\ c \in Queued' \cup InBatch' <=> c \in Queued \cup InBatch
            /\ c \in Held' <=> c \in Held
      BY <1>3, <2>1, <2>2
    <3>2. QED  BY <2>1, <2>2, <2>3, <2>4, <3>1, ViewOfBuilt
  <2>6. QED  BY <2>2, <2>5 DEF Lease!Provision
<1>6. ASSUME BuildsStray PROVE Lease!Provision
  <2>1. PICK e \in Envs : fleet' = Append(fleet, Real(e))
    BY <1>6 DEF BuildsStray
  <2>2. UNCHANGED <<hand, Held, Queued, InBatch>>
    BY <1>6 DEF BuildsStray, InPlace
  <2>3. Real(e) \in Instance
    BY DEF Real, Instance
  <2>4. /\ fleet' \in Seq(Instance) /\ Len(fleet') = Len(fleet) + 1
        /\ Containers = 1 .. Len(fleet) /\ Containers' = 1 .. Len(fleet) + 1
        /\ Len(fleet) \in Nat
    BY <1>1, <2>1, <2>3, FleetIndexes DEF Containers
  <2>5. /\ <<"spent">> \in Seq(LeaseState) /\ Len(<<"spent">>) = 1
        /\ <<"spent">>[1] = "spent"
    BY DEF LeaseState
  <2>6. leaseView'[Len(fleet) + 1] = "spent"
    <3>1. Len(fleet) + 1 \in Containers' /\ Len(fleet) + 1 \notin Containers
      BY <2>4
    <3>2. QED  BY <1>2, <2>2, <3>1, ViewOf
  <2>7. \A i \in 1 .. Len(<<"spent">>) : leaseView'[Len(fleet) + i] = <<"spent">>[i]
    BY <2>5, <2>6
  <2>8. leaseView' = leaseView \o <<"spent">>
    BY <2>2, <2>4, <2>5, <2>7, ViewGrows
  <2>9. QED  BY <2>2, <2>8 DEF Lease!Provision
<1>7. QED  BY <1>4, <1>5, <1>6

\* What a client takes from a queue was ready, and what it gives back is spent.
LEMMA HandingLeases ==
  ASSUME PlacesInv, NEW a \in Clients
  PROVE  /\ \A c \in Queued : HandsOver(a, c) => Lease!Grant(a, c)
         /\ GivesBack(a) => Lease!EndLease(a)
<1>1. TypeOK
  BY DEF PlacesInv
<1>2. Held \cup Queued \cup InBatch \subseteq Containers
  BY <1>1, RefsExist
<1>3. ASSUME NEW c \in Queued, HandsOver(a, c) PROVE Lease!Grant(a, c)
  <2>1. /\ hand[a] = 0 /\ hand' = [hand EXCEPT ![a] = c] /\ Containers' = Containers
        /\ Held' = Held \cup {c} /\ Queued' = Queued \ {c} /\ InBatch' = InBatch
    BY <1>3 DEF HandsOver, Containers
  <2>2. c \in Containers /\ c \notin InBatch /\ leaseView[c] = "ready"
    BY <1>2, UsableIsSafe, ViewOf
  <2>3. leaseView' = [leaseView EXCEPT ![c] = "leased"]
    BY <2>1, <2>2 DEF leaseView
  <2>4. QED  BY <2>1, <2>2, <2>3 DEF Lease!Grant
<1>4. ASSUME GivesBack(a) PROVE Lease!EndLease(a)
  <2>1. /\ hand[a] # 0 /\ hand' = [hand EXCEPT ![a] = 0] /\ Containers' = Containers
        /\ hand[a] \in Held /\ Held' = Held \ {hand[a]}
        /\ Queued' = Queued /\ InBatch' = InBatch
    BY <1>4 DEF GivesBack, Containers
  <2>2. hand[a] \in Containers /\ hand[a] \notin Queued \cup InBatch
    BY <1>2, <2>1, UsableIsSafe
  <2>3. leaseView' = [leaseView EXCEPT ![hand[a]] = "spent"]
    BY <2>1, <2>2 DEF leaseView
  <2>4. QED  BY <2>1, <2>3 DEF Lease!EndLease
<1>5. QED  BY <1>3, <1>4

\* What shutdown takes from the queues and the batches was ready and is spent.
LEMMA DroppingLeases ==
  ASSUME PlacesInv, DropsBatches \/ \E c \in Queued : Drains(c)
  PROVE  Lease!Discard
<1>1. TypeOK
  BY DEF PlacesInv
<1>2. Held \cup Queued \cup InBatch \subseteq Containers
  BY <1>1, RefsExist
<1>3. ASSUME NEW S \in SUBSET (Queued \cup InBatch), UNCHANGED <<hand, Held, fleet>>,
             Queued' \cup InBatch' = (Queued \cup InBatch) \ S
      PROVE  Lease!Discard
  <2>1. Containers' = Containers
    BY <1>3 DEF Containers
  <2>2. S \in SUBSET {c \in DOMAIN leaseView : leaseView[c] = "ready"}
    BY <1>2, ViewOf DEF leaseView
  <2>3. S \cap Held = {}
    BY UsableIsSafe
  <2>4. leaseView' = [c \in DOMAIN leaseView |->
                        IF c \in S THEN "spent" ELSE leaseView[c]]
    BY <1>3, <2>1, <2>3 DEF leaseView
  <2>5. QED  BY <1>3, <2>2, <2>4 DEF Lease!Discard
<1>4. CASE DropsBatches
  <2>1. Queued' \cup InBatch' = (Queued \cup InBatch) \ InBatch
    BY <1>4, UsableIsSafe DEF DropsBatches
  <2>2. QED  BY <1>3, <1>4, <2>1 DEF DropsBatches
<1>5. ASSUME NEW c \in Queued, Drains(c) PROVE Lease!Discard
  <2>1. Queued' \cup InBatch' = (Queued \cup InBatch) \ {c}
    BY <1>5, UsableIsSafe DEF Drains
  <2>2. QED  BY <1>3, <1>5, <2>1 DEF Drains
<1>6. QED  BY <1>4, <1>5

\* The other moves concern containers that are spent, or none.
LEMMA QuietLeases ==
  ASSUME PlacesInv,
         \/ MovesNothing \/ TurnsStage
         \/ \E S \in SUBSET InBatch : QueuesBatch(S)
         \/ \E c \in cleaning : CleansUp(c) \/ DropsCleanup(c)
         \/ \E c \in doomed : Terminates(c)
  PROVE  UNCHANGED <<leaseView, hand>>
<1>1. TypeOK
  BY DEF PlacesInv
<1>2. Containers' = Containers
  <2>1. ASSUME NEW c \in Containers, Terminate(c) PROVE Containers' = Containers
    BY <1>1, <2>1, TerminateType
  <2>2. cleaning \cup doomed \subseteq Containers
    BY <1>1 DEF TypeOK
  <2>3. QED
    BY <2>1, <2>2
    DEF MovesNothing, TurnsStage, QueuesBatch, CleansUp, DropsCleanup, Terminates,
        Containers
<1>3. UNCHANGED <<hand, Held>> /\ Queued' \cup InBatch' = Queued \cup InBatch
  BY DEF MovesNothing, TurnsStage, QueuesBatch, CleansUp, DropsCleanup, Terminates,
         InPlace
<1>4. QED  BY <1>2, <1>3, ViewKept

(***************************************************************************)
(* The theorem.                                                             *)
(***************************************************************************)
\* Nothing is leased when the program starts.
LEMMA InitLeases == Init => Lease!LeaseInit
<1> SUFFICES ASSUME Init PROVE Lease!LeaseInit
  OBVIOUS
<1>1. fleet \in Seq(Instance) /\ Len(fleet) = 0
  BY DEF Init
<1>2. leaseView \in Seq(LeaseState) /\ Len(leaseView) = 0
  BY <1>1, ViewIsSeq
<1>3. leaseView = <<>>
  BY <1>2, EmptySeq
<1>4. QED  BY <1>3 DEF Init, Lease!LeaseInit

\* Every step of the pool is a step of the leases or a stutter.
LEMMA StepLeases ==
  ASSUME PlacesInv, [Next]_vars
  PROVE  [Lease!LeaseNext]_<<leaseView, hand>>
<1>1. Queued \subseteq DOMAIN leaseView
  BY RefsExist DEF PlacesInv, leaseView
<1>2. CASE DropsBatches \/ \E c \in Queued : Drains(c)
  BY <1>2, DroppingLeases DEF Lease!LeaseNext
<1>3. CASE BuildsForBatch \/ BuildsStray \/ \E a \in Clients : BuildsForClient(a)
  BY <1>3, BuildingLeases DEF Lease!LeaseNext
<1>4. CASE \E a \in Clients : GivesBack(a) \/ \E c \in Queued : HandsOver(a, c)
  BY <1>1, <1>4, HandingLeases DEF Lease!LeaseNext
<1>5. CASE \/ MovesNothing \/ TurnsStage
           \/ \E S \in SUBSET InBatch : QueuesBatch(S)
           \/ \E c \in cleaning : CleansUp(c) \/ DropsCleanup(c)
           \/ \E c \in doomed : Terminates(c)
  BY <1>5, QuietLeases
<1>6. QED  BY <1>2, <1>3, <1>4, <1>5, StepMoves DEF Moves

\* The pool implements SandboxLease: a container is leased at most once, to one
\* client, and is never handed out again.
THEOREM LeaseImplemented == Spec => LeasedOnce
<1>1. Init => Lease!LeaseInit
  BY InitLeases
<1>2. PlacesInv /\ [Next]_vars => [Lease!LeaseNext]_<<leaseView, hand>>
  BY StepLeases
<1>3. QED
  BY <1>1, <1>2, PlacesInvariant, PTL DEF Spec, LeasedOnce, Lease!LeaseSpec
================================================================================
