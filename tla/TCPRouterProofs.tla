--------------------------- MODULE TCPRouterProofs ---------------------------
(***************************************************************************)
(* Proofs about TCPRouter, for any sets of users, domains, addresses,      *)
(* secrets and outcomes of writes.                                         *)
(***************************************************************************)
EXTENDS TCPRouter, TLAPS

USE UsersAssumption, NoneAssumption

(* What users ask for are calls.                                           *)
LEMMA RequestsAreCalls == Requests \subseteq Calls
BY DEF Requests, Calls, Call

(* A call in progress names a domain, a user, an address and a secret.     *)
LEMMA CallParts ==
  ASSUME TypeOK, call # None
  PROVE  /\ call.domain \in Domains /\ call.user \in Users
         /\ NewService \in Services
BY DEF TypeOK, Calls, NewService, Services

(* The key of a domain changes only in a call about it that was allowed,   *)
(* to the new service or to nothing.                                       *)
LEMMA ServiceStep ==
  ASSUME TypeOK, [Next]_vars, NEW d \in Domains
  PROVE  \/ service'[d] = service[d]
         \/ /\ SetService /\ d = call.domain
            /\ service'[d] = NewService
         \/ /\ DeleteService /\ d = call.domain
            /\ service'[d] = None
<1>1. CASE SetService BY <1>1 DEF SetService, TypeOK
<1>2. CASE DeleteService BY <1>2 DEF DeleteService, TypeOK
<1>3. CASE ~SetService /\ ~DeleteService
  <2>1. UNCHANGED service
    BY <1>3 DEF Next, vars, Start, Crash, Return, Request, Reject, CheckDomain, ReadFails
  <2> QED BY <2>1
<1> QED BY <1>1, <1>2, <1>3

(* The invariant holds before the first start.                             *)
LEMMA InitIInv == Init => IInv
BY DEF Init, IInv, TypeOK, CallInv, Routes, ReplyMeansDone

(* Every step keeps the types.                                             *)
LEMMA TypeNext == IInv /\ [Next]_vars => TypeOK'
<1> SUFFICES ASSUME IInv, [Next]_vars PROVE TypeOK'
  OBVIOUS
<1>1. TypeOK /\ CallInv
  BY DEF IInv
<1>2. CASE SetService
  <2>1. call # None
    BY <1>1, <1>2 DEF SetService, CallInv
  <2> QED BY <1>1, <1>2, <2>1, CallParts DEF SetService, TypeOK, Reply
<1>3. CASE DeleteService
  BY <1>1, <1>3 DEF DeleteService, TypeOK, Reply
<1>4. ASSUME NEW c \in Requests, Request(c) PROVE TypeOK'
  BY <1>1, <1>4, RequestsAreCalls DEF Request, TypeOK
<1>5. CASE Start \/ Crash \/ Return \/ Reject \/ CheckDomain \/ ReadFails \/ UNCHANGED vars
  BY <1>1, <1>5 DEF TypeOK, Start, Crash, Return, Reject, CheckDomain, ReadFails, vars
<1> QED BY <1>2, <1>3, <1>4, <1>5 DEF Next

(* A call past its check stays entitled to the domain it writes.           *)
LEMMA CallNext == IInv /\ [Next]_vars => CallInv'
<1> SUFFICES ASSUME IInv, [Next]_vars PROVE CallInv'
  OBVIOUS
<1>1. TypeOK /\ CallInv
  BY DEF IInv
<1>2. CASE SetService \/ DeleteService
  BY <1>1, <1>2 DEF CallInv, SetService, DeleteService, Reply, Valid, CanUseDomain
<1>3. CASE CheckDomain
  BY <1>1, <1>3 DEF CallInv, CheckDomain, Valid, CanUseDomain
<1>4. ASSUME NEW c \in Requests, Request(c) PROVE CallInv'
  BY <1>1, <1>4, RequestsAreCalls DEF Request, CallInv
<1>5. CASE Start \/ Crash \/ Return \/ Reject \/ ReadFails \/ UNCHANGED vars
  BY <1>1, <1>5 DEF CallInv, Start, Crash, Return, Reject, ReadFails, vars, Valid, CanUseDomain
<1> QED BY <1>2, <1>3, <1>4, <1>5 DEF Next

(* The secret was checked against the user before the domain was, and      *)
(* neither has changed since.                                              *)
LEMMA RoutesNext == IInv /\ [Next]_vars => Routes'
<1> SUFFICES ASSUME IInv, [Next]_vars, NEW d \in Domains,
                    service'[d] # None, service'[d].secret # None
             PROVE  /\ service'[d].addr = None
                    /\ SecretUser[service'[d].secret] = service'[d].user
  BY DEF Routes
<1>1. TypeOK /\ CallInv /\ Routes
  BY DEF IInv
<1>2. CASE service'[d] = service[d]
  BY <1>1, <1>2 DEF Routes
<1>3. CASE SetService /\ service'[d] = NewService
  <2>1. call \in Requests /\ Valid /\ Adding
    BY <1>1, <1>3 DEF SetService, CallInv
  <2>2. call.secret # None
    BY <1>3 DEF NewService
  <2>3. call.op = "AddReverseProxy" /\ call.addr = None
    BY <2>1, <2>2 DEF Requests, Call
  <2> QED BY <1>3, <2>1, <2>3 DEF NewService, Valid
<1> QED BY <1>1, <1>2, <1>3, ServiceStep

(* A call that succeeds has written what it was asked to.                  *)
LEMMA ReplyNext == IInv /\ [Next]_vars => ReplyMeansDone'
<1> SUFFICES ASSUME IInv, [Next]_vars, pc' = "ok" PROVE ReplyMeansDone'
  BY DEF ReplyMeansDone
<1>1. TypeOK /\ CallInv /\ ReplyMeansDone
  BY DEF IInv
<1>2. CASE SetService
  <2>1. call # None /\ service' = [service EXCEPT ![call.domain] = NewService] /\ call' = call
    BY <1>1, <1>2 DEF SetService, CallInv, Reply
  <2> QED BY <1>1, <1>2, <2>1, CallParts
          DEF SetService, ReplyMeansDone, Adding, NewService, TypeOK
<1>3. CASE DeleteService
  <2>1. call # None /\ service' = [service EXCEPT ![call.domain] = None] /\ call' = call
    BY <1>1, <1>3 DEF DeleteService, CallInv, Reply
  <2> QED BY <1>1, <1>3, <2>1, CallParts
          DEF DeleteService, ReplyMeansDone, Adding, NewService, TypeOK
<1>4. CASE UNCHANGED vars
  BY <1>1, <1>4 DEF ReplyMeansDone, Adding, NewService, vars
<1>5. CASE Start
  BY <1>1, <1>5 DEF Start, CallInv
<1> QED BY <1>2, <1>3, <1>4, <1>5
        DEF Next, Crash, Return, Request, Reject, CheckDomain, ReadFails

(* IInv holds in every reachable state.                                    *)
THEOREM Invariance == Spec => []IInv
<1>1. IInv /\ [Next]_vars => IInv'
  BY TypeNext, CallNext, RoutesNext, ReplyNext DEF IInv
<1> QED BY <1>1, InitIInv, PTL DEF Spec

(* The types of the services and of the calls on them (service, AddProxy,  *)
(* AddReverseProxy).                                                       *)
THEOREM TypeCorrect == Spec => []TypeOK
<1>1. IInv => TypeOK
  BY DEF IInv
<1> QED BY <1>1, Invariance, PTL

(* A call that returns success has done what it was asked, and nothing has *)
(* undone it yet (AddProxy, RemoveProxy).                                  *)
THEOREM RepliesAreTrue == Spec => []ReplyMeansDone
<1>1. IInv => ReplyMeansDone
  BY DEF IInv
<1> QED BY <1>1, Invariance, PTL

(* A domain is never routed to two places, nor to a client whose secret is *)
(* another user's, whatever reservations succeeded each other on it.       *)
THEOREM RoutesAreSafe == Spec => []Routes
<1>1. IInv => Routes
  BY DEF IInv
<1> QED BY <1>1, Invariance, PTL

-----------------------------------------------------------------------------
(* A domain has one holder, that alone gives it up (canUseDomain).         *)
THEOREM DomainsAreRegistered == Spec => DomainRegistry
<1> DEFINE held == [d \in Domains |-> HolderOf(service[d])]
<1>1. Init => Domain!Init
  BY DEF Init, Domain!Init, HolderOf, Actor
<1>2. IInv /\ IInv' /\ [Next]_vars => [Domain!Next]_(Domain!vars)
  <2> SUFFICES ASSUME IInv, IInv', [Next]_vars PROVE [Domain!Next]_(Domain!vars)
    OBVIOUS
  <2>1. TypeOK /\ CallInv /\ Actor' \in Users \cup {None}
    BY DEF IInv, TypeOK, Actor, Calls
  <2>2. CASE held' = held
    BY <2>1, <2>2 DEF Domain!Next, Domain!Serve, Domain!vars
  <2>3. CASE UNCHANGED service
    <3>1. held' = held
      BY <2>3
    <3> QED BY <2>2, <3>1
  <2>4. ASSUME SetService \/ DeleteService
        PROVE  /\ call # None /\ Actor = call.user /\ Actor' = Actor
               /\ Actor \in Users /\ call.domain \in Domains /\ CanUseDomain
    BY <2>1, <2>4, CallParts DEF SetService, DeleteService, Actor, CallInv
  <2>5. CASE SetService /\ ~UNCHANGED service
    <3>1. service' = [service EXCEPT ![call.domain] = NewService]
      BY <2>5 DEF SetService
    <3>2. held' = [held EXCEPT ![call.domain] = call.user]
      <4>1. HolderOf(NewService) = call.user
        BY <2>1, <2>4, <2>5, CallParts DEF HolderOf, NewService
      <4> QED BY <2>1, <2>4, <2>5, <3>1, <4>1 DEF TypeOK
    <3>3. CASE service[call.domain] = None
      <4>1. Domain!Claim(call.domain)
        BY <2>4, <2>5, <3>2, <3>3 DEF Domain!Claim, HolderOf
      <4> QED BY <2>4, <2>5, <4>1 DEF Domain!Next
    <3>4. CASE service[call.domain] # None
      <4>1. held' = held
        BY <2>1, <2>4, <2>5, <3>2, <3>4 DEF CanUseDomain, HolderOf
      <4> QED BY <2>2, <4>1
    <3> QED BY <3>3, <3>4
  <2>6. CASE DeleteService /\ ~UNCHANGED service
    <3>1. service' = [service EXCEPT ![call.domain] = None]
      BY <2>6 DEF DeleteService
    <3>2. held' = [held EXCEPT ![call.domain] = None]
      BY <2>1, <2>4, <2>6, <3>1 DEF TypeOK, HolderOf
    <3>3. held[call.domain] = call.user
      BY <2>1, <2>4, <2>6, <3>1 DEF TypeOK, HolderOf, CanUseDomain
    <3>4. Domain!Release(call.domain)
      BY <2>4, <2>6, <3>2, <3>3 DEF Domain!Release
    <3> QED BY <2>4, <2>6, <3>4 DEF Domain!Next
  <2> QED BY <2>3, <2>5, <2>6
          DEF Next, vars, Start, Crash, Return, Request, Reject, CheckDomain, ReadFails
<1> QED BY <1>1, <1>2, Invariance, PTL DEF Spec, DomainRegistry, Domain!Spec

=============================================================================
