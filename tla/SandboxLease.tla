---------------------------- MODULE SandboxLease ----------------------------
(***************************************************************************)
(* What the pool promises to its clients: a container is leased at most     *)
(* once in its life, to one client, and is spent when the lease ends.       *)
(***************************************************************************)
EXTENDS Naturals, Sequences

CONSTANT Clients

VARIABLES
  lease,  \* the containers in the order they were built: ready, leased, spent
  holds   \* the container each client has leased, 0 if none

LeaseInit ==
  /\ lease = <<>>
  /\ holds = [a \in Clients |-> 0]

\* A container that was never leased becomes available; building it may leave
\* another behind that no one will ever use.
Provision ==
  /\ \E built \in {<<"ready">>, <<"spent">>, <<"spent", "ready">>} :
       lease' = lease \o built
  /\ UNCHANGED holds

Grant(a, c) ==
  /\ holds[a] = 0
  /\ lease[c] = "ready"
  /\ lease' = [lease EXCEPT ![c] = "leased"]
  /\ holds' = [holds EXCEPT ![a] = c]

\* A container built for the client that waits for it.
GrantNew(a) ==
  /\ holds[a] = 0
  /\ \E built \in {<<"leased">>, <<"spent", "leased">>} :
       lease' = lease \o built
  /\ holds' = [holds EXCEPT ![a] = Len(lease')]

EndLease(a) ==
  /\ holds[a] # 0
  /\ lease' = [lease EXCEPT ![holds[a]] = "spent"]
  /\ holds' = [holds EXCEPT ![a] = 0]

\* Containers leave the pool without having been leased.
Discard ==
  /\ \E S \in SUBSET {c \in DOMAIN lease : lease[c] = "ready"} :
       lease' = [c \in DOMAIN lease |->
                   IF c \in S THEN "spent" ELSE lease[c]]
  /\ UNCHANGED holds

LeaseNext ==
  \/ Provision
  \/ \E a \in Clients : GrantNew(a) \/ EndLease(a)
  \/ \E a \in Clients, c \in DOMAIN lease : Grant(a, c)
  \/ Discard

LeaseSpec == LeaseInit /\ [][LeaseNext]_<<lease, holds>>
=============================================================================
