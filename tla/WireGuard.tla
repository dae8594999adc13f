------------------------------ MODULE WireGuard ------------------------------
(***************************************************************************)
(* The manager of 4to6 tunnels (src/wg/manager.go, src/wg/ip-pool.go,      *)
(* src/4to6.go) over the wireguard interface of the kernel.  The interface *)
(* and its peers are kept by the kernel: they outlive the process.         *)
(* Lifecycle runs these actions within the start and the work of the       *)
(* gateway.                                                                *)
(***************************************************************************)
EXTENDS Naturals

CONSTANTS
  Ids,      \* identities a gateway may have: its key pairs
  Users,
  HostOf,   \* the hash of identity and user that ends an address,
  Hosts,    \* any of these
  Keys,     \* what users give as public key,
  BadKeys,  \* some of which ParseKey refuses
  None

ASSUME HostsAssumption == HostOf \in [Ids \X Users -> Hosts]
ASSUME NobodyAssumption == None \notin Ids \cup Users \cup Keys

VARIABLES
  identity, \* of the running process
  link,     \* how far the interface is set up
  peers,    \* the allowed addresses of each peer
  given     \* the peer each address was last given to, by an answer

wireguard == <<link, peers, given>>

Stages == {"created", "addressed", "configured", "raised"}

(* The pool is a /64 prefix hashed from the identity, and an address of it *)
(* per user.                                                               *)
Subnet == identity
GetWithoutSubnet(user) == <<None, HostOf[<<identity, user>>]>>
Get(user) == <<Subnet, HostOf[<<identity, user>>]>>
Addresses == Ids \X Hosts

InitWireGuard ==
  /\ link = {}
  /\ peers = [k \in Keys |-> {}]
  /\ given = [a \in Addresses |-> None]

(* One step of setupWGNamespace.  An interface that is there is taken as   *)
(* it is, and ConfigureDevice replaces no peers.                           *)
SetUp(stage) ==
  /\ link' = link \cup {stage}
  /\ UNCHANGED <<peers, given>>

(* The kernel gives an address to one peer at a time, and adds it to those *)
(* the peer has.                                                           *)
OnlyPeer(key, a) == [k \in Keys |-> IF k = key THEN {a} ELSE {}]
Allow(key, a) == [k \in Keys |-> IF k = key THEN peers[k] \cup {a} ELSE peers[k] \ {a}]

AddPeer(user, key) ==
  /\ key \notin BadKeys /\ "configured" \in link
  /\ peers' = Allow(key, Get(user))
  /\ given' = [given EXCEPT ![Get(user)] = key]
  /\ UNCHANGED link

(* The peer of a key is removed whoever it was added for.                  *)
RemovePeer(key) ==
  /\ key \notin BadKeys /\ "configured" \in link
  /\ peers' = [peers EXCEPT ![key] = {}]
  /\ given' = [a \in Addresses |-> IF given[a] = key THEN None ELSE given[a]]
  /\ UNCHANGED link

(* Close deletes the interface.                                            *)
Close ==
  /\ link' = {}
  /\ peers' = [k \in Keys |-> {}]
  /\ given' = [a \in Addresses |-> None]

-----------------------------------------------------------------------------
(* The stores of the kernel are of their types (wg.Mgr).                   *)
WireGuardTypes ==
  /\ link \subseteq Stages
  /\ peers \in [Keys -> SUBSET Addresses]
  /\ given \in [Addresses -> Keys \cup {None}]

(* The configuration a user was given works until a later call about its   *)
(* address or its key, or until the interface is closed: other users'      *)
(* calls, crashes and restarts do not take it away (AddPeer, New).         *)
GivenWorks == \A a \in Addresses : given[a] # None => a \in peers[given[a]]

=============================================================================
