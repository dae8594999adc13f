---------------------------- MODULE CoreDNSProofs ----------------------------
(***************************************************************************)
(* Proofs about CoreDNS, for any sets of users, zones, names, addresses    *)
(* and outcomes of writes that satisfy the assumptions of the module.      *)
(***************************************************************************)
EXTENDS CoreDNS, TLAPS

USE ZonesAssumption, PartiesAssumption

(* A request names a user, one of the operations, and well-formed data.    *)
LEMMA RequestsAreCalls ==
  \A c \in Requests : c \in Calls /\ c.user \in Users
<1> SUFFICES ASSUME NEW c \in Requests
             PROVE  c \in Calls /\ c.user \in Users
  OBVIOUS
<1>1. CASE \E op \in SubdomainOps, u \in Users, d \in Subdomains, ips \in IPLists :
             c = SubdomainCall(op, u, d, ips)
  <2> PICK op \in SubdomainOps, u \in Users, d \in Subdomains, ips \in IPLists :
        c = SubdomainCall(op, u, d, ips)
    BY <1>1
  <2>1. d[1] \in Labels /\ d[2] \in Zones /\ ips \in SUBSET IPs
    BY RecordsAssumption
  <2> QED BY <2>1 DEF SubdomainCall, Calls, Parties
<1>2. CASE \E op \in DelegationOps, u \in Users, z \in Zones :
             c = DelegationCall(op, u, z)
  BY <1>2 DEF DelegationCall, Calls, Parties
<1> QED BY <1>1, <1>2 DEF Requests

(* The gateway's claim of a managed domain is a call too.                  *)
LEMMA ClaimIsCall ==
  \A z \in Zones : DelegationCall("AddDomainDelagate", Gateway, z) \in Calls
BY DEF DelegationCall, Calls, Parties, DelegationOps

(* None is neither a call nor a value that a write leaves behind.          *)
LEMMA NoneIsNoCall == None \notin Calls
BY CallAssumption DEF Calls, SubdomainOps, DelegationOps

(* What a write can make of the hash of records.                           *)
LEMMA WrittenHash ==
  ASSUME hash \in [HashKeys -> [Labels -> Entries]],
         NEW k \in HashKeys, NEW l \in Labels, NEW e \in Entries, NEW o
  PROVE  Written(o, HSetRecords(k, l, e), hash) \in [HashKeys -> [Labels -> Entries]]
BY DEF Written, HSetRecords

(* What is read of a hash of records are records.                          *)
LEMMA PublishedType ==
  ASSUME TypeOK, NEW d \in Labels \X Zones
  PROVE  Published(d) \in SUBSET Records
<1>1. Dotted(d[2]) \in HashKeys /\ d[1] \in Labels
  BY DEF Dotted, HashKeys
<1>2. hash[Dotted(d[2])][d[1]] \in Entries
  BY <1>1 DEF TypeOK
<1> QED BY <1>2 DEF Published, RecordsIn, Entries

(* A call in progress names a zone, a name in it, and a party.             *)
LEMMA CallParts ==
  ASSUME TypeOK, call # None
  PROVE  /\ call \in Calls
         /\ Subdomain \in Labels \X Zones
         /\ Subdomain[1] = call.name /\ Subdomain[2] = call.zone
         /\ call.name \in Labels /\ call.zone \in Zones
         /\ call.user \in Parties /\ call.ips \in SUBSET IPs
         /\ Dotted(call.zone) \in HashKeys /\ Bare(call.zone) \in HashKeys
BY DEF TypeOK, Calls, Subdomain, Dotted, Bare, HashKeys

-----------------------------------------------------------------------------
(* Every reachable state is well typed; in particular "managed_domains"    *)
(* names only users and the start claims only managed zones.               *)

(* Empty stores and a process that does not run have the right types.      *)
LEMMA TypeInit == Init => TypeOK
<1> SUFFICES ASSUME Init PROVE TypeOK
  OBVIOUS
<1>1. hash \in [HashKeys -> [Labels -> Entries]]
  BY DEF Init, Entries
<1> QED BY <1>1 DEF Init, TypeOK

(* A start deletes fields and queues the claims of the managed domains.    *)
LEMMA StartType == TypeOK /\ Start => TypeOK'
<1> SUFFICES ASSUME TypeOK, Start PROVE TypeOK'
  OBVIOUS
<1>1. hash' \in [HashKeys -> [Labels -> Entries]]
  BY DEF TypeOK, Start, Entries
<1> QED BY <1>1 DEF TypeOK, Start

(* Steps of the process leave the stores alone.                            *)
LEMMA ProcessType ==
  ASSUME TypeOK, CallInv,
         \/ RunEngine \/ Return \/ Crash \/ ReadFails
         \/ \E z \in Zones : ClaimManagedDomain(z)
         \/ \E c \in Requests : Request(c)
  PROVE  TypeOK'
<1>1. CASE RunEngine BY <1>1 DEF TypeOK, RunEngine
<1>2. CASE Return BY <1>2 DEF TypeOK, Return
<1>3. CASE Crash BY <1>3 DEF TypeOK, Crash
<1>4. CASE ReadFails BY <1>4 DEF TypeOK, ReadFails
<1>5. ASSUME NEW z \in Zones, ClaimManagedDomain(z) PROVE TypeOK'
  BY <1>5, ClaimIsCall DEF TypeOK, ClaimManagedDomain
<1>6. ASSUME NEW c \in Requests, Request(c) PROVE TypeOK'
  BY <1>6, RequestsAreCalls DEF TypeOK, Request
<1> QED BY <1>1, <1>2, <1>3, <1>4, <1>5, <1>6

(* The writes of AddSubdomain and RemoveSubdomain keep the types.          *)
LEMMA SubdomainType ==
  ASSUME TypeOK, CallInv,
         \/ RefuseSubdomain \/ ReserveSubdomain \/ PublishRecords
         \/ CleanupReservation \/ ForgetSubdomain \/ RefuseRemoval
         \/ NothingToRemove \/ RemoveRecords \/ ReleaseSubdomain
  PROVE  TypeOK'
<1>1. CASE RefuseSubdomain BY <1>1 DEF TypeOK, RefuseSubdomain
<1>2. CASE ReserveSubdomain
  <2>1. call.user \in Users
    BY <1>2 DEF ReserveSubdomain, At, CallInv, TypeOK
  <2>2. HSetManaged(Subdomain, call.user) \in [Labels \X Zones -> Users \cup {None}]
    BY <2>1, <1>2, CallParts DEF HSetManaged, TypeOK
  <2> QED BY <1>2, <2>2 DEF TypeOK, ReserveSubdomain, Written, Then
<1>3. CASE PublishRecords
  <2>1. RecordsAfterAdd \in Entries
    BY <1>3, CallParts, PublishedType DEF RecordsAfterAdd, Entries, Records, PublishRecords, At
  <2> QED BY <1>3, <2>1, WrittenHash, CallParts DEF TypeOK, PublishRecords, Then, At
<1>4. CASE CleanupReservation
  BY <1>4 DEF TypeOK, CleanupReservation, Written, HSetManaged
<1>5. CASE ForgetSubdomain
  BY <1>5 DEF TypeOK, ForgetSubdomain, Written, HSetManaged, Then
<1>6. CASE RefuseRemoval BY <1>6 DEF TypeOK, RefuseRemoval
<1>7. CASE NothingToRemove BY <1>7 DEF TypeOK, NothingToRemove
<1>8. CASE RemoveRecords
  <2>1. Field(RecordsLeft) \in Entries
    BY <1>8, CallParts, PublishedType DEF Field, RecordsLeft, Entries, RemoveRecords, At
  <2>2. AfterRemoval \in {"cleared", "ok"}
    BY DEF AfterRemoval
  <2> QED BY <1>8, <2>1, <2>2, WrittenHash, CallParts DEF TypeOK, RemoveRecords, Then, At
<1>9. CASE ReleaseSubdomain
  BY <1>9 DEF TypeOK, ReleaseSubdomain, Written, HSetManaged, Then
<1> QED BY <1>1, <1>2, <1>3, <1>4, <1>5, <1>6, <1>7, <1>8, <1>9

(* The writes of AddDomainDelagate and RemoveDomainDelagate keep the       *)
(* types.                                                                  *)
LEMMA DelegationType ==
  ASSUME TypeOK,
         \/ RefuseDelegation \/ TakeZone \/ SetOwnerTXT
         \/ DeleteZoneRecords \/ ReleaseZone
  PROVE  TypeOK'
<1>1. CASE RefuseDelegation BY <1>1 DEF TypeOK, RefuseDelegation
<1>2. CASE TakeZone
  BY <1>2, CallParts DEF TypeOK, TakeZone, At, Written, HSetZone, Then
<1>3. CASE SetOwnerTXT
  <2>1. {call.user} \in Entries
    BY <1>3, CallParts DEF Entries, Records, SetOwnerTXT, At
  <2>2. \A o : Written(o, HSetRecords(Dotted(call.zone), OwnerLabel, {call.user}), hash)
                \in [HashKeys -> [Labels -> Entries]]
    BY <1>3, <2>1, WrittenHash, CallParts DEF TypeOK, SetOwnerTXT, At
  <2> QED BY <1>3, <2>2 DEF TypeOK, SetOwnerTXT, Then
<1>4. CASE DeleteZoneRecords
  BY <1>4, CallParts DEF TypeOK, DeleteZoneRecords, At, Written, DelHash, Then, Entries
<1>5. CASE ReleaseZone
  BY <1>5, CallParts DEF TypeOK, ReleaseZone, At, Written, HSetZone, Then
<1> QED BY <1>1, <1>2, <1>3, <1>4, <1>5

(* Every step keeps the types.                                             *)
LEMMA TypeNext == TypeOK /\ CallInv /\ [Next]_vars => TypeOK'
<1> SUFFICES ASSUME TypeOK, CallInv, [Next]_vars PROVE TypeOK'
  OBVIOUS
<1>1. CASE UNCHANGED vars BY <1>1 DEF TypeOK, vars
<1>2. CASE Next BY <1>2, StartType, ProcessType, SubdomainType, DelegationType
                DEF Next, Operation
<1> QED BY <1>1, <1>2

-----------------------------------------------------------------------------
(* What a step does to each of the stores                                  *)

(* The owner of a zone changes only by TakeZone and ReleaseZone.           *)
LEMMA ZoneStep ==
  ASSUME TypeOK, [Next]_vars, NEW z \in Zones
  PROVE  \/ zone'[z] = zone[z]
         \/ TakeZone /\ z = call.zone /\ zone'[z] = call.user
         \/ ReleaseZone /\ z = call.zone /\ zone'[z] = None
<1>1. CASE TakeZone
  BY <1>1 DEF TypeOK, TakeZone, Written, HSetZone
<1>2. CASE ReleaseZone
  BY <1>2 DEF TypeOK, ReleaseZone, Written, HSetZone
<1>3. CASE ~TakeZone /\ ~ReleaseZone
  <2>1. UNCHANGED zone
    BY <1>3 DEF Next, Operation, vars, Start, RunEngine, Return, Crash,
       ClaimManagedDomain, Request, ReadFails, RefuseSubdomain, ReserveSubdomain,
       PublishRecords, CleanupReservation, ForgetSubdomain, RefuseRemoval,
       NothingToRemove, RemoveRecords, ReleaseSubdomain, RefuseDelegation,
       SetOwnerTXT, DeleteZoneRecords
  <2> QED BY <2>1
<1> QED BY <1>1, <1>2, <1>3

(* The reservation of a name changes only in a call about that name.       *)
LEMMA ManagedStep ==
  ASSUME TypeOK, [Next]_vars, NEW d \in Labels \X Zones
  PROVE  \/ managed'[d] = managed[d]
         \/ ReserveSubdomain /\ d = Subdomain /\ managed'[d] = call.user
         \/ /\ CleanupReservation \/ ForgetSubdomain \/ ReleaseSubdomain
            /\ d = Subdomain /\ managed'[d] = None
<1>1. CASE ReserveSubdomain
  BY <1>1 DEF TypeOK, ReserveSubdomain, Written, HSetManaged
<1>2. CASE CleanupReservation
  BY <1>2 DEF TypeOK, CleanupReservation, Written, HSetManaged
<1>3. CASE ForgetSubdomain
  BY <1>3 DEF TypeOK, ForgetSubdomain, Written, HSetManaged
<1>4. CASE ReleaseSubdomain
  BY <1>4 DEF TypeOK, ReleaseSubdomain, Written, HSetManaged
<1>5. CASE ~(ReserveSubdomain \/ CleanupReservation \/ ForgetSubdomain \/ ReleaseSubdomain)
  <2>1. UNCHANGED managed
    BY <1>5 DEF Next, Operation, vars, Start, RunEngine, Return, Crash,
       ClaimManagedDomain, Request, ReadFails, RefuseSubdomain, PublishRecords,
       RefuseRemoval, NothingToRemove, RemoveRecords, RefuseDelegation, TakeZone,
       SetOwnerTXT, DeleteZoneRecords, ReleaseZone
  <2> QED BY <2>1
<1> QED BY <1>1, <1>2, <1>3, <1>4, <1>5

(* A write of one field changes the records of one name.                   *)
LEMMA FieldWritten ==
  ASSUME TypeOK, NEW c \in Labels \X Zones, NEW e \in Entries,
         hash' = HSetRecords(Dotted(c[2]), c[1], e),
         NEW d \in Labels \X Zones
  PROVE  Published(d)' = IF d = c THEN RecordsIn(e) ELSE Published(d)
<1>1. Dotted(c[2]) \in HashKeys /\ Dotted(d[2]) \in HashKeys
  BY DEF Dotted, HashKeys
<1>2. d = c <=> d[1] = c[1] /\ Dotted(d[2]) = Dotted(c[2])
  BY DEF Dotted
<1>3. hash'[Dotted(d[2])][d[1]] = IF d = c THEN e ELSE hash[Dotted(d[2])][d[1]]
  BY <1>1, <1>2 DEF HSetRecords, TypeOK
<1> QED BY <1>3 DEF Published

(* Cleanup and DEL change no record: the one deletes fields that hold      *)
(* none, the other a key that is no hash of records.                       *)
LEMMA StartKeepsRecords ==
  ASSUME TypeOK, Start, NEW d \in Labels \X Zones
  PROVE  Published(d)' = Published(d)
<1>1. Dotted(d[2]) \in HashKeys /\ d[1] \in Labels
  BY DEF Dotted, HashKeys
<1> DEFINE useless == {f \in Zones \X Labels : Useless(hash[Dotted(f[1])][f[2]])}
<1>2. PICK failed \in SUBSET useless :
        hash' = [k \in HashKeys |-> [l \in Labels |->
                   IF k = Dotted(k[1]) /\ <<k[1], l>> \in useless \ failed
                   THEN None ELSE hash[k][l]]]
  BY DEF Start
<1> DEFINE deleted == <<Dotted(d[2])[1], d[1]>> \in useless \ failed
<1>3. hash'[Dotted(d[2])][d[1]] =
        IF deleted THEN None ELSE hash[Dotted(d[2])][d[1]]
  BY <1>1, <1>2 DEF Dotted
<1>4. deleted => hash[Dotted(d[2])][d[1]] = {}
  BY DEF Dotted, Useless
<1> HIDE DEF deleted
<1> QED BY <1>3, <1>4 DEF Published, RecordsIn

(* RemoveDomainDelagate deletes a key under which no record is kept.       *)
LEMMA DelKeepsRecords ==
  ASSUME TypeOK, DeleteZoneRecords, NEW d \in Labels \X Zones
  PROVE  Published(d)' = Published(d)
<1>1. Dotted(d[2]) \in HashKeys /\ Dotted(d[2]) # Bare(call.zone)
  BY DEF Dotted, Bare, HashKeys
<1>2. hash'[Dotted(d[2])] = hash[Dotted(d[2])]
  BY <1>1 DEF DeleteZoneRecords, DelHash, Written, TypeOK
<1> QED BY <1>2 DEF Published

(* The records of a name change only in a call that publishes or removes   *)
(* records of that name, and in a delegation, that of the owner's label.   *)
LEMMA RecordsStep ==
  ASSUME TypeOK, [Next]_vars, NEW d \in Labels \X Zones
  PROVE  \/ Published(d)' = Published(d)
         \/ /\ PublishRecords /\ d = Subdomain
            /\ Published(d)' = Published(d) \cup call.ips
         \/ /\ RemoveRecords /\ d = Subdomain
            /\ Published(d)' = Published(d) \ call.ips
         \/ /\ SetOwnerTXT /\ d = <<OwnerLabel, call.zone>>
            /\ Published(d)' = {call.user}
<1>1. CASE Start BY <1>1, StartKeepsRecords
<1>2. CASE DeleteZoneRecords BY <1>2, DelKeepsRecords
<1>3. CASE PublishRecords
  <2>1. RecordsAfterAdd \in SUBSET Records
    BY <1>3, CallParts, PublishedType DEF RecordsAfterAdd, Records, PublishRecords, At
  <2>2. RecordsAfterAdd \in Entries /\ RecordsIn(RecordsAfterAdd) = RecordsAfterAdd
    BY <2>1, RecordsAssumption DEF Entries, RecordsIn
  <2>3. CASE hash' = hash BY <1>3, <2>3 DEF Published
  <2>4. CASE hash' = HSetRecords(Dotted(call.zone), call.name, RecordsAfterAdd)
    <3>1. Published(d)' = IF d = Subdomain THEN RecordsAfterAdd ELSE Published(d)
      BY <1>3, <2>2, <2>4, FieldWritten, CallParts DEF PublishRecords, At
    <3> QED BY <1>3, <3>1 DEF RecordsAfterAdd
  <2> QED BY <1>3, <2>3, <2>4 DEF PublishRecords, Written
<1>4. CASE RemoveRecords
  <2>1. RecordsLeft \in SUBSET Records
    BY <1>4, CallParts, PublishedType DEF RecordsLeft, RemoveRecords, At
  <2>2. Field(RecordsLeft) \in Entries /\ RecordsIn(Field(RecordsLeft)) = RecordsLeft
    BY <2>1, RecordsAssumption DEF Entries, RecordsIn, Field
  <2>3. CASE hash' = hash BY <1>4, <2>3 DEF Published
  <2>4. CASE hash' = HSetRecords(Dotted(call.zone), call.name, Field(RecordsLeft))
    <3>1. Published(d)' = IF d = Subdomain THEN RecordsLeft ELSE Published(d)
      BY <1>4, <2>2, <2>4, FieldWritten, CallParts DEF RemoveRecords, At
    <3> QED BY <1>4, <3>1 DEF RecordsLeft
  <2> QED BY <1>4, <2>3, <2>4 DEF RemoveRecords, Written
<1>5. CASE SetOwnerTXT
  <2> DEFINE c == <<OwnerLabel, call.zone>>
  <2>1. c \in Labels \X Zones /\ c[1] = OwnerLabel /\ c[2] = call.zone
    BY <1>5, CallParts DEF SetOwnerTXT, At
  <2>2. {call.user} \in Entries /\ RecordsIn({call.user}) = {call.user}
    BY <1>5, CallParts, RecordsAssumption DEF Entries, RecordsIn, Records, SetOwnerTXT, At
  <2>3. CASE hash' = hash BY <1>5, <2>3 DEF Published
  <2>4. CASE hash' = HSetRecords(Dotted(call.zone), OwnerLabel, {call.user})
    <3> HIDE DEF c
    <3>1. hash' = HSetRecords(Dotted(c[2]), c[1], {call.user})
      BY <2>1, <2>4
    <3>2. Published(d)' = IF d = c THEN {call.user} ELSE Published(d)
      BY <2>1, <2>2, <3>1, FieldWritten
    <3> QED BY <1>5, <3>2 DEF c
  <2> QED BY <1>5, <2>3, <2>4 DEF SetOwnerTXT, Written
<1>6. CASE ~(Start \/ DeleteZoneRecords \/ PublishRecords \/ RemoveRecords \/ SetOwnerTXT)
  <2>1. UNCHANGED hash
    BY <1>6 DEF Next, Operation, vars, RunEngine, Return, Crash,
       ClaimManagedDomain, Request, ReadFails, RefuseSubdomain, ReserveSubdomain,
       CleanupReservation, ForgetSubdomain, RefuseRemoval, NothingToRemove,
       ReleaseSubdomain, RefuseDelegation, TakeZone, ReleaseZone
  <2> QED BY <2>1 DEF Published
<1> QED BY <1>1, <1>2, <1>3, <1>4, <1>5, <1>6

-----------------------------------------------------------------------------
(* Calls keep their place: between calls nothing is written, and a write   *)
(* is made by the operation it belongs to, for the caller.                 *)
LEMMA CallNext == TypeOK /\ CallInv /\ [Next]_vars => CallInv'
<1> SUFFICES ASSUME TypeOK, CallInv, [Next]_vars PROVE CallInv'
  OBVIOUS
<1>1. CASE UNCHANGED vars BY <1>1 DEF CallInv, vars
<1>2. CASE Start BY <1>2 DEF CallInv, Start
<1>3. CASE RunEngine BY <1>3 DEF CallInv, RunEngine
<1>4. CASE Return BY <1>4 DEF CallInv, Return, TypeOK
<1>5. CASE Crash BY <1>5 DEF CallInv, Crash
<1>6. ASSUME NEW z \in Zones, ClaimManagedDomain(z) PROVE CallInv'
  BY <1>6, ClaimIsCall, NoneIsNoCall DEF CallInv, ClaimManagedDomain, DelegationCall
<1>7. ASSUME NEW c \in Requests, Request(c) PROVE CallInv'
  BY <1>7, RequestsAreCalls, NoneIsNoCall DEF CallInv, Request
<1>8. ASSUME Operation PROVE CallInv'
  <2>1. UNCHANGED <<mode, todo, call>>
    BY <1>8 DEF Operation, ReadFails, RefuseSubdomain, ReserveSubdomain,
       PublishRecords, CleanupReservation, ForgetSubdomain, RefuseRemoval,
       NothingToRemove, RemoveRecords, ReleaseSubdomain, RefuseDelegation,
       TakeZone, SetOwnerTXT, DeleteZoneRecords, ReleaseZone
  <2>2. /\ call # None /\ pc' # "idle"
        /\ pc' \in {"reserved", "cleanup"} => call.op = "AddSubdomain"
        /\ pc' = "cleared" => call.op = "RemoveSubdomain"
        /\ pc' = "owned" => call.op = "AddDomainDelagate"
        /\ pc' = "deleted" => call.op = "RemoveDomainDelagate"
    BY <1>8 DEF Operation, At, Then, AfterRemoval, CallInv, ReadFails,
       RefuseSubdomain, ReserveSubdomain, PublishRecords, CleanupReservation,
       ForgetSubdomain, RefuseRemoval, NothingToRemove, RemoveRecords,
       ReleaseSubdomain, RefuseDelegation, TakeZone, SetOwnerTXT,
       DeleteZoneRecords, ReleaseZone
  <2> QED BY <2>1, <2>2 DEF CallInv
<1> QED BY <1>1, <1>2, <1>3, <1>4, <1>5, <1>6, <1>7, <1>8 DEF Next

(* What an acknowledged write of records leaves to be read.                *)
LEMMA FieldAcknowledged ==
  ASSUME TypeOK, NEW c \in Labels \X Zones, NEW recs \in SUBSET Records, NEW e,
         e = recs \/ e = Field(recs),
         hash' = HSetRecords(Dotted(c[2]), c[1], e)
  PROVE  Published(c)' = recs
<1>1. e \in Entries /\ RecordsIn(e) = recs
  BY RecordsAssumption DEF Entries, RecordsIn, Field
<1> QED BY <1>1, FieldWritten

(* RemoveSubdomain, when not in error, has removed the addresses it was    *)
(* asked to.                                                               *)
LEMMA RemovedAcknowledged ==
  ASSUME TypeOK, RemoveRecords, pc' # "err"
  PROVE  /\ Published(Subdomain)' = RecordsLeft
         /\ pc' = AfterRemoval
<1>1. call # None /\ pc' = AfterRemoval
  BY DEF RemoveRecords, At, Then
<1>2. hash' = HSetRecords(Dotted(call.zone), call.name, Field(RecordsLeft))
  BY DEF RemoveRecords, Then, Written
<1>3. RecordsLeft \in SUBSET Records
  BY <1>1, CallParts, PublishedType DEF RecordsLeft
<1>4. UNCHANGED Subdomain
  BY DEF RemoveRecords, Subdomain
<1>5. \A d \in Labels \X Zones : d = Subdomain => Published(d)' = RecordsLeft
  BY <1>1, <1>2, <1>3, CallParts, FieldAcknowledged
<1> QED BY <1>1, <1>4, <1>5, CallParts DEF Published

(* Between the writes of a call, what the first one relied on still holds. *)
LEMMA ProgressNext ==
  TypeOK /\ CallInv /\ ProgressInv /\ [Next]_vars => ProgressInv'
<1> SUFFICES ASSUME TypeOK, CallInv, ProgressInv, [Next]_vars PROVE ProgressInv'
  OBVIOUS
<1>1. CASE ReserveSubdomain
  <2>1. MayAddSubdomain /\ UNCHANGED <<zone, call>> /\ call # None
    BY <1>1 DEF ReserveSubdomain, At
  <2>2. zone[call.zone] \in {Gateway, call.user}
    BY <2>1 DEF MayAddSubdomain
  <2>3. pc' = "reserved" => managed'[Subdomain] = call.user
    BY <1>1, <2>1, CallParts DEF ReserveSubdomain, Then, Written, HSetManaged, TypeOK
  <2>4. pc' \in {"reserved", "err"}
    BY <1>1 DEF ReserveSubdomain, Then
  <2> QED BY <2>1, <2>2, <2>3, <2>4 DEF ProgressInv, Subdomain
<1>2. CASE RemoveRecords
  <2>1. MayRemoveSubdomain /\ UNCHANGED <<zone, managed, call>>
    BY <1>2 DEF RemoveRecords
  <2>2. pc' \in {"cleared", "ok", "err"}
    BY <1>2 DEF RemoveRecords, Then, AfterRemoval
  <2>3. pc' = "cleared" => Published(Subdomain)' = {}
    BY <1>2, RemovedAcknowledged DEF AfterRemoval
  <2> QED BY <2>1, <2>2, <2>3 DEF ProgressInv, MayRemoveSubdomain, Subdomain
<1>3. CASE TakeZone
  BY <1>3, CallParts DEF ProgressInv, TakeZone, Then, Written, HSetZone, TypeOK, At
<1>4. CASE DeleteZoneRecords
  BY <1>4 DEF ProgressInv, DeleteZoneRecords, MayDelegate, Then
<1>5. CASE PublishRecords
  BY <1>5 DEF ProgressInv, PublishRecords, Then, At, Subdomain
<1>6. CASE ~(\/ ReserveSubdomain \/ RemoveRecords \/ TakeZone
             \/ DeleteZoneRecords \/ PublishRecords)
  <2>1. \/ pc' \in {"idle", "called", "ok", "err"}
        \/ UNCHANGED <<zone, managed, hash, call, pc>>
    BY <1>6 DEF Next, Operation, vars, Start, RunEngine, Return, Crash,
       ClaimManagedDomain, Request, ReadFails, RefuseSubdomain, CleanupReservation,
       ForgetSubdomain, RefuseRemoval, NothingToRemove, ReleaseSubdomain,
       RefuseDelegation, SetOwnerTXT, ReleaseZone, Then, CallInv
  <2> QED BY <2>1 DEF ProgressInv, Subdomain, Published
<1> QED BY <1>1, <1>2, <1>3, <1>4, <1>5, <1>6

(* A reply of success follows an acknowledged write, or none was needed.   *)
LEMMA ReplyNext ==
  TypeOK /\ CallInv /\ ProgressInv /\ SuccessAssures /\ [Next]_vars => SuccessAssures'
<1> SUFFICES ASSUME TypeOK, CallInv, ProgressInv, SuccessAssures, [Next]_vars,
                    pc' = "ok"
             PROVE  SuccessAssures'
  BY DEF SuccessAssures, At
<1>1. CASE PublishRecords
  <2>1. /\ UNCHANGED <<zone, managed, call>> /\ call # None
        /\ managed[Subdomain] = call.user /\ call.op = "AddSubdomain"
    BY <1>1 DEF PublishRecords, At, ProgressInv
  <2>2. hash' = HSetRecords(Dotted(call.zone), call.name, RecordsAfterAdd)
    BY <1>1 DEF PublishRecords, Then, Written
  <2>3. RecordsAfterAdd \in SUBSET Records
    BY <2>1, CallParts, PublishedType DEF RecordsAfterAdd, Records
  <2>4. \A d \in Labels \X Zones : d = Subdomain => Published(d)' = RecordsAfterAdd
    BY <2>1, <2>2, <2>3, CallParts, FieldAcknowledged
  <2>5. Published(Subdomain)' = RecordsAfterAdd
    BY <2>1, <2>4, CallParts DEF Published, Subdomain
  <2> QED BY <2>1, <2>5 DEF SuccessAssures, RecordsAfterAdd, At, Subdomain
<1>2. CASE ForgetSubdomain
  BY <1>2, CallParts DEF SuccessAssures, At, ForgetSubdomain, Then, Written,
     HSetManaged, TypeOK, Subdomain
<1>3. CASE NothingToRemove
  <2>1. /\ UNCHANGED <<zone, managed, hash, call>> /\ call.op = "RemoveSubdomain"
        /\ MayRemoveSubdomain /\ Published(Subdomain) = {}
    BY <1>3 DEF NothingToRemove, At
  <2> QED BY <2>1 DEF SuccessAssures, At, MayRemoveSubdomain, Published, Subdomain
<1>4. CASE RemoveRecords
  <2>1. MayRemoveSubdomain /\ UNCHANGED <<zone, managed, call>> /\ call.op = "RemoveSubdomain"
    BY <1>4 DEF RemoveRecords, At
  <2>2. Published(Subdomain)' = RecordsLeft
    BY <1>4, RemovedAcknowledged
  <2> QED BY <2>1, <2>2 DEF SuccessAssures, At, MayRemoveSubdomain, RecordsLeft, Subdomain
<1>5. CASE ReleaseSubdomain
  <2>1. /\ UNCHANGED <<zone, hash, call>> /\ call.op = "RemoveSubdomain"
        /\ zone[call.zone] # None /\ Published(Subdomain) = {}
    BY <1>5 DEF ReleaseSubdomain, At, ProgressInv
  <2>2. managed'[Subdomain] = None
    BY <1>5, CallParts DEF ReleaseSubdomain, Then, Written, HSetManaged, TypeOK, At, Subdomain
  <2> QED BY <2>1, <2>2 DEF SuccessAssures, At, Subdomain, Published
<1>6. CASE SetOwnerTXT
  <2>1. /\ UNCHANGED <<zone, call>> /\ call # None
        /\ call.op = "AddDomainDelagate" /\ zone[call.zone] = call.user
    BY <1>6 DEF SetOwnerTXT, At, ProgressInv
  <2> DEFINE c == <<OwnerLabel, call.zone>>
  <2>2. /\ c \in Labels \X Zones /\ c[1] = OwnerLabel /\ c[2] = call.zone
        /\ {call.user} \in SUBSET Records
    BY <2>1, CallParts DEF Records
  <2>3. hash' = HSetRecords(Dotted(call.zone), OwnerLabel, {call.user})
    BY <1>6 DEF SetOwnerTXT, Then, Written
  <2>4. \A d \in Labels \X Zones : d = c => Published(d)' = {call.user}
    BY <2>2, <2>3, FieldAcknowledged
  <2>5. Published(<<OwnerLabel, call.zone>>)' = {call.user}
    BY <2>1, <2>2, <2>4 DEF Published
  <2> QED BY <2>1, <2>5 DEF SuccessAssures, At
<1>7. CASE ReleaseZone
  BY <1>7, CallParts DEF SuccessAssures, ReleaseZone, Then, Written, HSetZone, TypeOK, At
<1>8. CASE UNCHANGED vars
  BY <1>8 DEF SuccessAssures, vars, At, Subdomain, Published
<1> QED BY <1>1, <1>2, <1>3, <1>4, <1>5, <1>6, <1>7, <1>8
        DEF Next, Operation, Start, RunEngine, Return, Crash, ClaimManagedDomain,
        Request, ReadFails, RefuseSubdomain, ReserveSubdomain, CleanupReservation,
        RefuseRemoval, RefuseDelegation, TakeZone, DeleteZoneRecords, Then, CallInv

(* No request takes or gives back a managed zone, or hides its owner       *)
(* record: users are not the gateway, and addresses are not owners.        *)
LEMMA ManagedNext == IInv /\ [Next]_vars => ManagedInv'
<1> SUFFICES ASSUME IInv, [Next]_vars PROVE ManagedInv'
  OBVIOUS
<1> USE DEF IInv
<1>1. ASSUME NEW z \in Managed PROVE zone'[z] \in {None, Gateway}
  <2>1. CASE zone'[z] = zone[z] \/ zone'[z] = None
    BY <2>1 DEF ManagedInv
  <2>2. CASE TakeZone /\ z = call.zone /\ zone'[z] = call.user
    <3>1. zone[z] \in {None, call.user} /\ call # None
      BY <2>2 DEF TakeZone, MayDelegate, At
    <3>2. CASE mode = "run"
      BY <2>2, <3>1, <3>2 DEF CallInv, ManagedInv, Parties
    <3>3. CASE mode = "boot"
      BY <2>2, <3>1, <3>3 DEF CallInv
    <3> QED BY <3>1, <3>2, <3>3 DEF CallInv, TypeOK
  <2> QED BY <2>1, <2>2, ZoneStep
<1>2. ASSUME mode' # "down", NEW z \in Managed \ todo'
      PROVE  zone'[z] = Gateway /\ Gateway \in Published(<<OwnerLabel, z>>)'
  <2> DEFINE d == <<OwnerLabel, z>>
  <2>1. d \in Labels \X Zones /\ Gateway \in Parties /\ Gateway \notin IPs
    BY RecordsAssumption DEF Parties
  <2>2. CASE Return
    <3>1. mode # "down" /\ UNCHANGED <<zone, hash>>
      BY <1>2, <2>2 DEF Return
    <3>2. CASE z \in todo
      <4>1. At("AddDomainDelagate", "ok") /\ z = call.zone /\ call.user = Gateway
        BY <1>2, <2>2, <3>1, <3>2 DEF Return, CallInv, TypeOK, At
      <4> QED BY <3>1, <4>1 DEF SuccessAssures, Published
    <3>3. CASE z \notin todo
      BY <3>1, <3>3 DEF ManagedInv, Published
    <3> QED BY <3>2, <3>3
  <2>3. CASE Start
    BY <2>3 DEF Start
  <2>4. CASE ~Return /\ ~Start
    <3>1. mode # "down" /\ z \notin todo
      BY <1>2, <2>4 DEF Next, Operation, vars, CallInv, RunEngine, Crash,
         ClaimManagedDomain, Request, ReadFails, RefuseSubdomain,
         ReserveSubdomain, PublishRecords, CleanupReservation, ForgetSubdomain,
         RefuseRemoval, NothingToRemove, RemoveRecords, ReleaseSubdomain,
         RefuseDelegation, TakeZone, SetOwnerTXT, DeleteZoneRecords, ReleaseZone
    <3>2. zone[z] = Gateway /\ Gateway \in Published(d)
      BY <3>1 DEF ManagedInv
    <3>3. zone'[z] = Gateway
      <4>1. CASE TakeZone /\ z = call.zone /\ zone'[z] = call.user
        BY <3>2, <4>1 DEF TakeZone, MayDelegate, Parties
      <4>2. CASE ReleaseZone /\ z = call.zone
        BY <3>1, <3>2, <4>2 DEF ReleaseZone, At, ProgressInv, CallInv, TypeOK, Parties
      <4> QED BY <3>2, <4>1, <4>2, ZoneStep
    <3>4. Gateway \in Published(d)'
      <4>1. CASE SetOwnerTXT /\ d = <<OwnerLabel, call.zone>> /\ Published(d)' = {call.user}
        BY <3>2, <4>1 DEF SetOwnerTXT, At, ProgressInv
      <4>2. CASE RemoveRecords /\ Published(d)' = Published(d) \ call.ips
        BY <2>1, <3>2, <4>2, CallParts DEF RemoveRecords, At
      <4> QED BY <2>1, <3>2, <4>1, <4>2, RecordsStep
    <3> QED BY <3>3, <3>4
  <2> QED BY <2>2, <2>3, <2>4
<1> QED BY <1>1, <1>2 DEF ManagedInv

-----------------------------------------------------------------------------
(* The invariants                                                          *)

(* The invariant holds before the first start.                             *)
LEMMA InitIInv == Init => IInv
<1> SUFFICES ASSUME Init PROVE IInv
  OBVIOUS
<1> QED BY TypeInit DEF Init, IInv, CallInv, ProgressInv, ManagedInv, SuccessAssures, At

(* Every step keeps the invariant.                                         *)
LEMMA NextIInv == IInv /\ [Next]_vars => IInv'
BY TypeNext, CallNext, ProgressNext, ManagedNext, ReplyNext DEF IInv

(* IInv holds in every reachable state.                                    *)
THEOREM Invariance == Spec => []IInv
BY InitIInv, NextIInv, PTL DEF Spec

(* Every reachable state is well typed: in particular, whatever is lost or *)
(* interrupted, "managed_domains" names users and never the gateway, and a *)
(* field of records is never left half written.                            *)
THEOREM TypeCorrect == Spec => []TypeOK
<1>1. IInv => TypeOK
  BY DEF IInv
<1> QED BY <1>1, Invariance, PTL

(* The gateway never serves without owning all the zones it announces      *)
(* (run's loop over --domains, and the owner checks of AddDomainDelagate   *)
(* and RemoveDomainDelagate).                                              *)
THEOREM ManagedZonesAreHeld == Spec => []ManagedZonesHeld
<1>1. IInv => ManagedZonesHeld
  BY DEF IInv, CallInv, ManagedInv, ManagedZonesHeld
<1> QED BY <1>1, Invariance, PTL

(* ... nor without publishing it in their "__owner__" records.             *)
THEOREM OwnerTxtIsPublished == Spec => []OwnerTxtPublished
<1>1. IInv => OwnerTxtPublished
  BY DEF IInv, CallInv, ManagedInv, OwnerTxtPublished
<1> QED BY <1>1, Invariance, PTL

(* What a reply of success of dns.Mgr assures: both stores hold what was   *)
(* added, a zone given back is free, and addresses taken back are gone     *)
(* from a name that is the caller's or nobody's.  It is less than a caller *)
(* of the two removals would expect, see SuccessAssures.                   *)
THEOREM SuccessIsAssured == Spec => []SuccessAssures
<1>1. IInv => SuccessAssures
  BY DEF IInv
<1> QED BY <1>1, Invariance, PTL

-----------------------------------------------------------------------------
(* Steps                                                                   *)

(* The addresses of a name change only in a call about it, made by whoever *)
(* may (AddSubdomain, RemoveSubdomain); neither a start nor a delegation   *)
(* touches them.                                                           *)
THEOREM RecordsAreGuarded == Spec => RecordsGuarded
<1>1. IInv /\ [Next]_vars => GuardedRecords
  <2> SUFFICES ASSUME IInv, [Next]_vars, NEW d \in Labels \X Zones, d[1] # OwnerLabel,
                      Published(d) \cap IPs # Published(d)' \cap IPs
               PROVE  /\ call # None /\ Subdomain = d
                      /\ IF Published(d) \cap IPs \subseteq Published(d)' \cap IPs
                         THEN managed[d] = call.user /\ zone[d[2]] \in {Gateway, call.user}
                         ELSE managed[d] \in {None, call.user} /\ zone[d[2]] # None
    BY DEF GuardedRecords
  <2>1. TypeOK /\ ProgressInv
    BY DEF IInv
  <2>2. CASE PublishRecords /\ d = Subdomain /\ Published(d)' = Published(d) \cup call.ips
    BY <2>1, <2>2, CallParts DEF PublishRecords, At, ProgressInv
  <2>3. CASE RemoveRecords /\ d = Subdomain /\ Published(d)' = Published(d) \ call.ips
    BY <2>1, <2>3, CallParts DEF RemoveRecords, At, MayRemoveSubdomain
  <2>4. CASE d = <<OwnerLabel, call.zone>>
    BY <2>4
  <2> QED BY <2>1, <2>2, <2>3, <2>4, RecordsStep
<1>2. IInv /\ [Next]_vars => [GuardedRecords]_vars
  BY <1>1
<1> QED BY <1>2, Invariance, PTL DEF Spec, RecordsGuarded

(* Who acts is a party, or nobody does.                                    *)
LEMMA ActorType == TypeOK => Actor \in Parties \cup {None}
BY CallParts DEF Actor

(* A zone has one owner, which alone gives it up.                          *)
THEOREM ZonesAreRegistered == Spec => ZoneRegistry
<1>1. Init => Zone!Init
  BY DEF Init, Zone!Init, Actor
<1>2. IInv /\ IInv' /\ [Next]_vars => [Zone!Next]_(Zone!vars)
  <2> SUFFICES ASSUME IInv, IInv', [Next]_vars PROVE [Zone!Next]_(Zone!vars)
    OBVIOUS
  <2>1. TypeOK /\ Actor' \in Parties \cup {None}
    BY ActorType DEF IInv, TypeOK, Actor, Calls
  <2>2. CASE UNCHANGED zone
    BY <2>1, <2>2 DEF Zone!Next, Zone!Serve, Zone!vars
  <2>3. CASE TakeZone /\ ~UNCHANGED zone
    <3>1. /\ call # None /\ Actor = call.user /\ Actor' = Actor
          /\ Actor \in Parties /\ call.zone \in Zones
      BY <2>1, <2>3, CallParts DEF TakeZone, At, Actor
    <3>2. /\ zone' = HSetZone(call.zone, call.user)
          /\ zone[call.zone] \in {None, call.user}
      BY <2>3 DEF TakeZone, Written, MayDelegate
    <3>3. zone[call.zone] = None
      BY <2>1, <2>3, <3>2 DEF HSetZone, TypeOK
    <3>4. Zone!Claim(call.zone)
      BY <3>1, <3>2, <3>3 DEF Zone!Claim, HSetZone
    <3> QED BY <3>1, <3>4 DEF Zone!Next
  <2>4. CASE ReleaseZone /\ ~UNCHANGED zone
    <3>1. /\ call # None /\ Actor = call.user /\ Actor' = Actor
          /\ Actor \in Parties /\ call.zone \in Zones
      BY <2>1, <2>4, CallParts DEF ReleaseZone, At, Actor
    <3>2. /\ zone' = HSetZone(call.zone, None)
          /\ zone[call.zone] \in {None, call.user}
      BY <2>4 DEF ReleaseZone, Written, At, IInv, ProgressInv
    <3>3. zone[call.zone] = call.user
      BY <2>1, <2>4, <3>2 DEF HSetZone, TypeOK
    <3>4. Zone!Release(call.zone)
      BY <3>1, <3>2, <3>3 DEF Zone!Release, HSetZone
    <3> QED BY <3>1, <3>4 DEF Zone!Next
  <2>5. CASE ~TakeZone /\ ~ReleaseZone
    <3>1. zone' = zone
      BY <2>5 DEF Next, Operation, vars, Start, RunEngine, Return, Crash,
         ClaimManagedDomain, Request, ReadFails, RefuseSubdomain, ReserveSubdomain,
         PublishRecords, CleanupReservation, ForgetSubdomain, RefuseRemoval,
         NothingToRemove, RemoveRecords, ReleaseSubdomain, RefuseDelegation,
         SetOwnerTXT, DeleteZoneRecords
    <3> QED BY <2>2, <3>1
  <2> QED BY <2>2, <2>3, <2>4, <2>5
<1> QED BY <1>1, <1>2, Invariance, PTL DEF Spec, ZoneRegistry, Zone!Spec

(* The gateway serves requests about names of managed zones only while it  *)
(* owns these zones.                                                       *)
LEMMA ManagedWhileServing ==
  ASSUME IInv, call # None, call.op # "AddDomainDelagate", call.zone \in Managed
  PROVE  zone[call.zone] = Gateway /\ call.user \in Users
BY DEF IInv, CallInv, ManagedInv, TypeOK

(* Restricted to the names of managed zones, a write to "managed_domains"  *)
(* of a name outside them is invisible.                                    *)
LEMMA NameWritten ==
  ASSUME TypeOK, NEW d \in Labels \X Zones, NEW v, managed' = HSetManaged(d, v)
  PROVE  [k \in FreeNames |-> managed[k]]' =
           IF d \in FreeNames
           THEN [[k \in FreeNames |-> managed[k]] EXCEPT ![d] = v]
           ELSE [k \in FreeNames |-> managed[k]]
BY DEF HSetManaged, TypeOK, FreeNames

(* Seen from the names of managed zones, a step is one of the registry.    *)
LEMMA NameStep ==
  ASSUME IInv, IInv', [Next]_vars
  PROVE  [Name!Next]_(Name!vars)
<1> DEFINE held == [k \in FreeNames |-> managed[k]]
<1>1. TypeOK /\ Actor' \in Parties \cup {None}
  BY ActorType DEF IInv, TypeOK, Actor, Calls
<1>2. CASE held' = held
  BY <1>1, <1>2 DEF Name!Next, Name!Serve, Name!vars
<1>3. ASSUME ReserveSubdomain, ~UNCHANGED managed, Subdomain \in FreeNames
      PROVE  Name!Claim(Subdomain) /\ Subdomain \in FreeNames
  <2>1. /\ call # None /\ Actor = call.user /\ Actor' = Actor
        /\ Actor \in Parties /\ call.zone \in Managed /\ call.op # "AddDomainDelagate"
    BY <1>1, <1>3, CallParts DEF ReserveSubdomain, At, Actor, FreeNames
  <2>2. managed[Subdomain] = None
    BY <1>3, <2>1, ManagedWhileServing DEF ReserveSubdomain, MayAddSubdomain
  <2>3. managed' = HSetManaged(Subdomain, call.user)
    BY <1>3 DEF ReserveSubdomain, Written
  <2>4. held' = [held EXCEPT ![Subdomain] = call.user]
    BY <1>1, <1>3, <2>1, <2>3, NameWritten, CallParts
  <2> QED BY <1>3, <2>1, <2>2, <2>4 DEF Name!Claim
<1>4. ASSUME CleanupReservation \/ ForgetSubdomain \/ ReleaseSubdomain,
             ~UNCHANGED managed, Subdomain \in FreeNames
      PROVE  Name!Release(Subdomain) /\ Subdomain \in FreeNames
  <2>1. /\ call # None /\ Actor = call.user /\ Actor' = Actor
        /\ Actor \in Parties /\ call.zone \in Managed /\ call.op # "AddDomainDelagate"
    BY <1>1, <1>4, CallParts
       DEF CleanupReservation, ForgetSubdomain, ReleaseSubdomain, At, Actor, FreeNames
  <2>2. managed' = HSetManaged(Subdomain, None)
    BY <1>4 DEF CleanupReservation, ForgetSubdomain, ReleaseSubdomain, Written
  <2>3. managed[Subdomain] # None
    BY <1>1, <1>4, <2>2 DEF HSetManaged, TypeOK
  <2>4. managed[Subdomain] = call.user
    BY <1>4, <2>1, <2>3, ManagedWhileServing
       DEF CleanupReservation, ForgetSubdomain, ReleaseSubdomain, At, IInv, ProgressInv, Parties
  <2>5. held' = [held EXCEPT ![Subdomain] = None]
    BY <1>1, <1>4, <2>1, <2>2, NameWritten, CallParts
  <2> QED BY <1>4, <2>1, <2>4, <2>5 DEF Name!Release
<1>5. CASE Subdomain \notin FreeNames \/ UNCHANGED managed
          \/ ~(ReserveSubdomain \/ CleanupReservation \/ ForgetSubdomain \/ ReleaseSubdomain)
  <2>1. \A d \in FreeNames : managed'[d] = managed[d]
    BY <1>1, <1>5, ManagedStep, ZonesAssumption DEF FreeNames
  <2>2. held' = held
    BY <2>1
  <2> QED BY <1>2, <2>2
<1>6. CASE /\ Subdomain \in FreeNames /\ ~UNCHANGED managed
           /\ ReserveSubdomain \/ CleanupReservation \/ ForgetSubdomain \/ ReleaseSubdomain
  <2>1. Name!Claim(Subdomain) \/ Name!Release(Subdomain)
    <3>1. CASE ReserveSubdomain BY <1>3, <1>6, <3>1
    <3>2. CASE ~ReserveSubdomain BY <1>4, <1>6, <3>2
    <3> QED BY <3>1, <3>2
  <2>2. Name!Next
    BY <1>6, <2>1 DEF Name!Next, Name!Claim, Name!Release
  <2> QED BY <2>2
<1> QED BY <1>5, <1>6

(* A name of a managed zone is reserved by one user, which alone gives it  *)
(* up, and must be free to be reserved, however calls and restarts mix.    *)
THEOREM NamesAreRegistered == Spec => NameRegistry
<1>1. Init => Name!Init
  BY ZonesAssumption DEF Init, Name!Init, Actor, FreeNames
<1>2. IInv /\ IInv' /\ [Next]_vars => [Name!Next]_(Name!vars)
  BY NameStep
<1> QED BY <1>1, <1>2, Invariance, PTL DEF Spec, NameRegistry, Name!Spec

-----------------------------------------------------------------------------
(* Records and reservations                                                *)

(* A step leaves no address under a free name, if no answer is lost.       *)
LEMMA OrphanNext ==
  ASSUME "lost" \notin Outcomes, IInv, OrphanInv, [Next]_vars
  PROVE  OrphanInv'
<1> USE DEF IInv
<1>1. ASSUME NEW d \in Labels \X Managed, managed'[d] = None
      PROVE  Published(d)' \cap IPs = {}
  <2>1. d \in Labels \X Zones /\ d[2] \in Managed /\ IPs \cap Parties = {}
    BY RecordsAssumption
  <2>2. CASE managed[d] = None
    <3>1. Published(d) \cap IPs = {}
      BY <2>2 DEF OrphanInv
    <3>2. CASE PublishRecords /\ d = Subdomain
      BY <2>1, <2>2, <3>2, CallParts, ManagedWhileServing DEF PublishRecords, At, ProgressInv
    <3>3. CASE SetOwnerTXT /\ Published(d)' = {call.user}
      BY <2>1, <3>3, CallParts DEF SetOwnerTXT, At
    <3> QED BY <2>1, <3>1, <3>2, <3>3, RecordsStep
  <2>3. CASE /\ CleanupReservation \/ ForgetSubdomain \/ ReleaseSubdomain
             /\ d = Subdomain
    <3>1. call # None /\ call.op # "AddDomainDelagate" /\ call.zone \in Managed
      BY <2>1, <2>3, CallParts DEF CleanupReservation, ForgetSubdomain, ReleaseSubdomain, At
    <3>2. pc \in {"cleanup", "cleared"}
      BY <2>3, <3>1, ManagedWhileServing
         DEF CleanupReservation, ForgetSubdomain, ReleaseSubdomain, At, Parties
    <3>3. Published(d) \cap IPs = {}
      BY <2>3, <3>1, <3>2 DEF OrphanInv
    <3>4. hash' = hash
      BY <2>3 DEF CleanupReservation, ForgetSubdomain, ReleaseSubdomain
    <3> QED BY <3>3, <3>4 DEF Published
  <2>4. CASE ReserveSubdomain /\ d = Subdomain /\ managed'[d] = call.user
    BY <1>1, <2>4, CallParts DEF ReserveSubdomain, At
  <2> QED BY <1>1, <2>1, <2>2, <2>3, <2>4, ManagedStep
<1>2. ASSUME pc' \in {"reserved", "cleanup", "cleared"}, call'.zone \in Managed
      PROVE  Published(Subdomain)' \cap IPs = {}
  <2>1. CASE ReserveSubdomain
    <3>1. /\ call # None /\ call.op # "AddDomainDelagate" /\ call' = call /\ hash' = hash
          /\ call.zone \in Managed /\ MayAddSubdomain
      BY <1>2, <2>1 DEF ReserveSubdomain, At
    <3>2. managed[Subdomain] = None /\ Subdomain \in Labels \X Managed
      BY <3>1, ManagedWhileServing, CallParts DEF MayAddSubdomain, Subdomain
    <3> QED BY <3>1, <3>2 DEF OrphanInv, Published, Subdomain
  <2>2. CASE PublishRecords
    <3>1. hash' = hash /\ call' = call /\ pc = "reserved"
      BY <1>2, <2>2, OutcomesAssumption DEF PublishRecords, Then, Written, At
    <3> QED BY <1>2, <3>1 DEF OrphanInv, Published, Subdomain
  <2>3. CASE RemoveRecords
    BY <1>2, <2>3, RemovedAcknowledged DEF AfterRemoval
  <2>4. CASE ~(ReserveSubdomain \/ PublishRecords \/ RemoveRecords)
    <3>1. UNCHANGED <<hash, call, pc>>
      BY <1>2, <2>4 DEF Next, Operation, vars, Start, RunEngine, Return, Crash,
         ClaimManagedDomain, Request, ReadFails, RefuseSubdomain, CleanupReservation,
         ForgetSubdomain, RefuseRemoval, NothingToRemove, ReleaseSubdomain,
         RefuseDelegation, TakeZone, SetOwnerTXT, DeleteZoneRecords, ReleaseZone,
         Then, CallInv
    <3> QED BY <1>2, <3>1 DEF OrphanInv, Published, Subdomain
  <2> QED BY <2>1, <2>2, <2>3, <2>4
<1> QED BY <1>1, <1>2 DEF OrphanInv

(* If a write that fails has no effect, no address stays behind when its   *)
(* name is free again, even over crashes: AddSubdomain reserves before it  *)
(* publishes and RemoveSubdomain releases after it has removed.            *)
THEOREM NoOrphans ==
  ASSUME "lost" \notin Outcomes
  PROVE  Spec => []NoOrphanRecords
<1>1. Init => OrphanInv
  <2> SUFFICES ASSUME Init PROVE OrphanInv
    OBVIOUS
  <2>1. \A d \in Labels \X Managed : Published(d) = {}
    BY DEF Init, Published, RecordsIn, HashKeys, Dotted
  <2> QED BY <2>1 DEF Init, OrphanInv
<1>2. OrphanInv /\ IInv /\ [Next]_vars => OrphanInv'
  BY OrphanNext
<1>3. OrphanInv => NoOrphanRecords
  BY ZonesAssumption DEF OrphanInv, NoOrphanRecords
<1> QED BY <1>1, <1>2, <1>3, Invariance, PTL DEF Spec

=============================================================================
