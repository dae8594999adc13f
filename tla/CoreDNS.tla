------------------------------- MODULE CoreDNS -------------------------------
(***************************************************************************)
(* dns.Mgr (src/dns): the gateway keeps the configuration of CoreDNS in    *)
(* redis.  Three kinds of redis hashes are involved:                       *)
(*                                                                         *)
(*   "zone"             zone -> who may add names to it: the gateway for   *)
(*                      the --domains it was started with, a user for a    *)
(*                      zone delegated to the gateway                      *)
(*   "managed_domains"  name -> the user that reserved it                  *)
(*   "<zone>."          label -> the records CoreDNS answers with          *)
(*                                                                         *)
(* One engine goroutine calls the four operations, one call at a time.  An *)
(* operation reads a few fields and then writes one or two, and every      *)
(* write can fail, with or without effect, or be the last thing the        *)
(* process does before it dies.  So a step below is one redis write with   *)
(* the reads that decide it, and Crash can come between any two steps.     *)
(* redis itself, and what was written to it, survives the gateway.         *)
(***************************************************************************)
EXTENDS FiniteSets

CONSTANTS
  Users,        \* who sends reservations
  Gateway,      \* the identity of this gateway, the owner of its own zones
  Zones,        \* the domains that can be delegated, with the managed ones
  Managed,      \* the zones of the --domains flag, the same at every start
  Labels,       \* the first labels of subdomains
  OwnerLabel,   \* the label "__owner__", which holds a zone's owner record
  Subdomains,   \* the names users ask for, as <<label, zone>>
  IPs,          \* the addresses users publish
  IPLists,      \* the address lists of their reservations, as sets
  Outcomes,     \* what can become of a redis write
  None          \* a missing redis field; no call under way

Parties == Users \cup {Gateway}

(* A record is known by what it holds: an address (A, AAAA), or the owner  *)
(* named in the text of an "__owner__" record.                             *)
Records == IPs \cup Parties

ASSUME ZonesAssumption ==
  /\ Managed \subseteq Zones
  /\ OwnerLabel \in Labels
  /\ Subdomains \subseteq Labels \X Zones
ASSUME PartiesAssumption ==
  /\ Gateway \notin Users
  /\ None \notin Parties
ASSUME RecordsAssumption ==
  /\ IPLists \subseteq SUBSET IPs
  /\ IPs \cap Parties = {}
  /\ \A recs \in SUBSET Records : recs # None
(* done: applied and acknowledged; refused: an error and no effect (no     *)
(* connection); lost: applied, but the answer did not arrive.              *)
ASSUME OutcomesAssumption == Outcomes \subseteq {"done", "refused", "lost"}
ASSUME CallAssumption ==
  None \notin [op : {"AddSubdomain", "RemoveSubdomain",
                     "AddDomainDelagate", "RemoveDomainDelagate"},
               user : Parties, name : Labels, zone : Zones, ips : SUBSET IPs]

VARIABLES
  zone,      \* the hash "zone": zone -> owner
  managed,   \* the hash "managed_domains": name -> user
  hash,      \* the hashes of records: key -> label -> records
  mode,      \* the process is "down", starting ("boot"), or serving ("run")
  todo,      \* while starting: the managed zones still to be claimed
  call,      \* the call being carried out
  pc         \* how far it got

vars == <<zone, managed, hash, mode, todo, call, pc>>

-----------------------------------------------------------------------------
(* Keys and records                                                        *)

(* setZoneRecords, getZoneRecords and deleteZoneRecords append the final   *)
(* dot that CoreDNS expects; a key made without them has none.             *)
Dotted(z) == <<z, ".">>
Bare(z)   == <<z, "">>
HashKeys  == Zones \X {".", ""}

(* The value of a field: no such field, or a set of records, {} being the  *)
(* JSON "{}".  Lists become sets: Zone.Remove drops every equal record.    *)
Entries == {None} \cup SUBSET Records

(* What getZoneRecords returns for a field.                                *)
RecordsIn(entry) == IF entry = None THEN {} ELSE entry

Published(d) == RecordsIn(hash[Dotted(d[2])][d[1]])

(* The redis writes, as the next value of the hash they write.             *)
HSetZone(z, owner)        == [zone EXCEPT ![z] = owner]
HSetManaged(d, user)      == [managed EXCEPT ![d] = user]
HSetRecords(key, l, recs) == [hash EXCEPT ![key] = [@ EXCEPT ![l] = recs]]
DelHashToNone(key)        == [hash EXCEPT ![key] = None]
DelHash(key)              == [hash EXCEPT ![key] = [l \in Labels |-> None]]

(* A write with outcome o sets a hash to new, unless it was refused ...    *)
Written(o, new, old) == IF o = "refused" THEN old ELSE new

(* ... and the call goes on to next only if the write was acknowledged.    *)
ThenUnchecked(o, next, failed) == pc' = next
Then(o, next, failed) == pc' = IF o = "done" THEN next ELSE failed

-----------------------------------------------------------------------------
(* Calls                                                                   *)

(* A delegation has no name of its own: it writes the label "__owner__".   *)
SubdomainCall(op, user, d, ips) ==
  [op |-> op, user |-> user, name |-> d[1], zone |-> d[2], ips |-> ips]
DelegationCall(op, user, z) ==
  [op |-> op, user |-> user, name |-> OwnerLabel, zone |-> z, ips |-> {}]

SubdomainOps  == {"AddSubdomain", "RemoveSubdomain"}
DelegationOps == {"AddDomainDelagate", "RemoveDomainDelagate"}

Calls == [op : SubdomainOps \cup DelegationOps, user : Parties,
          name : Labels, zone : Zones, ips : SUBSET IPs]

Requests ==
  {SubdomainCall(op, u, d, ips) :
     op \in SubdomainOps, u \in Users, d \in Subdomains, ips \in IPLists}
  \cup
  {DelegationCall(op, u, z) : op \in DelegationOps, u \in Users, z \in Zones}

Subdomain == <<call.name, call.zone>>

At(op, where) == call # None /\ call.op = op /\ pc = where

Init ==
  /\ zone = [z \in Zones |-> None]
  /\ managed = [d \in Labels \X Zones |-> None]
  /\ hash = [k \in HashKeys |-> [l \in Labels |-> None]]
  /\ mode = "down"
  /\ todo = {}
  /\ call = None
  /\ pc = "idle"

-----------------------------------------------------------------------------
(* The process                                                             *)

(* Cleanup looks for the value "{}".                                       *)
UselessSingle(entry) == entry # None /\ \A r, s \in entry : r = s
Useless(entry) == entry = {}

(* run() starts.  Cleanup deletes the fields that hold no record, in the   *)
(* hashes with a dotted key; a field it fails on stays.                    *)
Start ==
  /\ mode = "down"
  /\ mode' = "boot"
  /\ todo' = Managed
  /\ LET useless == {f \in Zones \X Labels : Useless(hash[Dotted(f[1])][f[2]])}
     IN \E failed \in IF Outcomes = {"done"} THEN {{}} ELSE SUBSET useless :
          hash' = [k \in HashKeys |-> [l \in Labels |->
                     IF k = Dotted(k[1]) /\ <<k[1], l>> \in useless \ failed
                     THEN None ELSE hash[k][l]]]
  /\ UNCHANGED <<zone, managed, call, pc>>

(* The start claims each of its --domains, as a delegation to itself.      *)
ClaimManagedDomain(z) ==
  /\ mode = "boot" /\ call = None
  /\ z \in todo
  /\ call' = DelegationCall("AddDomainDelagate", Gateway, z)
  /\ pc' = "called"
  /\ UNCHANGED <<zone, managed, hash, mode, todo>>

(* The engine runs only once every managed domain is claimed.              *)
RunEngine ==
  /\ mode = "boot" /\ call = None
  /\ todo = {}
  /\ mode' = "run"
  /\ UNCHANGED <<zone, managed, hash, todo, call, pc>>

(* The engine hands a reservation to its provisioner or decommissioner.    *)
Request(c) ==
  /\ mode = "run" /\ call = None
  /\ call' = c
  /\ pc' = "called"
  /\ UNCHANGED <<zone, managed, hash, mode, todo>>

(* The call returns; while starting, an error ends the process.            *)
Return ==
  /\ pc \in {"ok", "err"}
  /\ call' = None
  /\ pc' = "idle"
  /\ mode' = IF mode = "boot" /\ pc = "err" THEN "down" ELSE mode
  /\ todo' = IF mode = "run" \/ pc = "err" THEN {} ELSE todo \ {call.zone}
  /\ UNCHANGED <<zone, managed, hash>>

(* The process dies, and its supervisor will start it again.               *)
Crash ==
  /\ mode # "down"
  /\ mode' = "down"
  /\ todo' = {}
  /\ call' = None
  /\ pc' = "idle"
  /\ UNCHANGED <<zone, managed, hash>>

(* The domain is malformed or a first read fails: nothing was written yet. *)
ReadFails ==
  /\ pc = "called"
  /\ "refused" \in Outcomes
  /\ pc' = "err"
  /\ UNCHANGED <<zone, managed, hash, mode, todo, call>>

-----------------------------------------------------------------------------
(* AddSubdomain                                                            *)

(* A name in a zone of the gateway must be free, even for the user that    *)
(* holds it; a name in a delegated zone is for the owner of the zone,      *)
(* whatever its reservation says.                                          *)
MayAddUsedSubdomain ==
  zone[call.zone] \in {Gateway, call.user}
MayAddSubdomain ==
  \/ zone[call.zone] = Gateway /\ managed[Subdomain] = None
  \/ zone[call.zone] = call.user

RefuseSubdomain ==
  /\ At("AddSubdomain", "called")
  /\ ~MayAddSubdomain
  /\ pc' = "err"
  /\ UNCHANGED <<zone, managed, hash, mode, todo, call>>

(* setSubdomainOwner; an error here comes before the deferred clean up.    *)
ReserveSubdomain ==
  /\ At("AddSubdomain", "called")
  /\ MayAddSubdomain
  /\ \E o \in Outcomes :
       /\ managed' = Written(o, HSetManaged(Subdomain, call.user), managed)
       /\ Then(o, "reserved", "err")
  /\ UNCHANGED <<zone, hash, mode, todo, call>>

(* The records already there are read and kept.                            *)
OnlyNewRecords  == call.ips
RecordsAfterAdd == Published(Subdomain) \cup call.ips

(* setZoneRecords; getZoneRecords failing is like a refused write.         *)
PublishRecords ==
  /\ At("AddSubdomain", "reserved")
  /\ \E o \in Outcomes :
       /\ hash' = Written(o, HSetRecords(Dotted(call.zone), call.name,
                                         RecordsAfterAdd),
                          hash)
       /\ Then(o, "ok", "cleanup")
  /\ UNCHANGED <<zone, managed, mode, todo, call>>

(* The deferred deleteSubdomainOwner, whose own failure is only logged.    *)
CleanupReservation ==
  /\ At("AddSubdomain", "cleanup")
  /\ \E o \in Outcomes :
       managed' = Written(o, HSetManaged(Subdomain, None), managed)
  /\ pc' = "err"
  /\ UNCHANGED <<zone, hash, mode, todo, call>>

-----------------------------------------------------------------------------
(* RemoveSubdomain                                                         *)

(* The zone is no longer here: whoever asks, the reservation is deleted.   *)
ForgetSubdomain ==
  /\ At("RemoveSubdomain", "called")
  /\ zone[call.zone] = None
  /\ \E o \in Outcomes :
       /\ managed' = Written(o, HSetManaged(Subdomain, None), managed)
       /\ Then(o, "ok", "err")
  /\ UNCHANGED <<zone, hash, mode, todo, call>>

(* A name without a reservation can be removed by anyone.                  *)
MayRemoveAnySubdomain ==
  zone[call.zone] # None
MayRemoveSubdomain ==
  /\ zone[call.zone] # None
  /\ managed[Subdomain] \in {None, call.user}

RefuseRemoval ==
  /\ At("RemoveSubdomain", "called")
  /\ zone[call.zone] # None
  /\ ~MayRemoveSubdomain
  /\ pc' = "err"
  /\ UNCHANGED <<zone, managed, hash, mode, todo, call>>

(* Nothing is published: the early return, which keeps the reservation.    *)
NothingToRemove ==
  /\ At("RemoveSubdomain", "called")
  /\ MayRemoveSubdomain
  /\ Published(Subdomain) = {}
  /\ pc' = "ok"
  /\ UNCHANGED <<zone, managed, hash, mode, todo, call>>

RecordsLeft == Published(Subdomain) \ call.ips

(* The field is deleted with its last record, and written back otherwise.  *)
Field(recs) == IF recs = {} THEN None ELSE recs

(* With the last record goes the reservation.                              *)
ReleaseAlways == "cleared"
AfterRemoval  == IF RecordsLeft = {} THEN "cleared" ELSE "ok"

(* deleteZoneRecords, or setZoneRecords with what is left.                 *)
RemoveRecords ==
  /\ At("RemoveSubdomain", "called")
  /\ MayRemoveSubdomain
  /\ Published(Subdomain) # {}
  /\ \E o \in Outcomes :
       /\ hash' = Written(o, HSetRecords(Dotted(call.zone), call.name,
                                         Field(RecordsLeft)),
                          hash)
       /\ Then(o, AfterRemoval, "err")
  /\ UNCHANGED <<zone, managed, mode, todo, call>>

(* deleteSubdomainOwner, once the last record is gone.                     *)
ReleaseSubdomain ==
  /\ At("RemoveSubdomain", "cleared")
  /\ \E o \in Outcomes :
       /\ managed' = Written(o, HSetManaged(Subdomain, None), managed)
       /\ Then(o, "ok", "err")
  /\ UNCHANGED <<zone, hash, mode, todo, call>>

-----------------------------------------------------------------------------
(* AddDomainDelagate and RemoveDomainDelagate                              *)

MayDelegateAnyZone  == TRUE
MayDelegateUserZone == zone[call.zone] # Gateway \/ call.user = Gateway
MayDelegate == zone[call.zone] \in {None, call.user}

RefuseDelegation ==
  /\ call # None /\ call.op \in DelegationOps
  /\ pc = "called"
  /\ ~MayDelegate
  /\ pc' = "err"
  /\ UNCHANGED <<zone, managed, hash, mode, todo, call>>

(* setZoneOwner                                                            *)
TakeZone ==
  /\ At("AddDomainDelagate", "called")
  /\ MayDelegate
  /\ \E o \in Outcomes :
       /\ zone' = Written(o, HSetZone(call.zone, call.user), zone)
       /\ Then(o, "owned", "err")
  /\ UNCHANGED <<managed, hash, mode, todo, call>>

(* setZoneOwnerTXTRecord: a fresh set of records replaces the old one.     *)
SetOwnerTXT ==
  /\ At("AddDomainDelagate", "owned")
  /\ \E o \in Outcomes :
       /\ hash' = Written(o, HSetRecords(Dotted(call.zone), OwnerLabel,
                                         {call.user}),
                          hash)
       /\ Then(o, "ok", "err")
  /\ UNCHANGED <<zone, managed, mode, todo, call>>

(* DEL is given the domain itself, not the key of its hash of records.     *)
DeleteZoneRecords ==
  /\ At("RemoveDomainDelagate", "called")
  /\ MayDelegate
  /\ \E o \in Outcomes :
       /\ hash' = Written(o, DelHash(Bare(call.zone)), hash)
       /\ Then(o, "deleted", "err")
  /\ UNCHANGED <<zone, managed, mode, todo, call>>

ReleaseZone ==
  /\ At("RemoveDomainDelagate", "deleted")
  /\ \E o \in Outcomes :
       /\ zone' = Written(o, HSetZone(call.zone, None), zone)
       /\ Then(o, "ok", "err")
  /\ UNCHANGED <<managed, hash, mode, todo, call>>

-----------------------------------------------------------------------------
Operation ==
  \/ ReadFails
  \/ RefuseSubdomain \/ ReserveSubdomain \/ PublishRecords \/ CleanupReservation
  \/ ForgetSubdomain \/ RefuseRemoval \/ NothingToRemove \/ RemoveRecords
  \/ ReleaseSubdomain
  \/ RefuseDelegation \/ TakeZone \/ SetOwnerTXT
  \/ DeleteZoneRecords \/ ReleaseZone

Next ==
  \/ Start \/ RunEngine \/ Return \/ Crash
  \/ \E z \in Zones : ClaimManagedDomain(z)
  \/ \E c \in Requests : Request(c)
  \/ Operation

Spec == Init /\ [][Next]_vars

-----------------------------------------------------------------------------
(* Properties                                                              *)

(* The types; "managed_domains" only ever names users, and todo is only    *)
(* used while the gateway starts.                                          *)
TypeOK ==
  /\ zone \in [Zones -> Parties \cup {None}]
  /\ managed \in [Labels \X Zones -> Users \cup {None}]
  /\ hash \in [HashKeys -> [Labels -> Entries]]
  /\ mode \in {"down", "boot", "run"}
  /\ todo \in SUBSET Managed
  /\ call \in Calls \cup {None}
  /\ pc \in {"idle", "called", "reserved", "cleanup", "cleared", "owned",
             "deleted", "ok", "err"}

(* While the gateway serves, every zone it announces as managed is its     *)
(* own: no delegation request took one over or gave one back, whatever     *)
(* failures and restarts came before (run claims the --domains before the  *)
(* engine starts, and the delegation calls check the owner).               *)
ManagedZonesHeld ==
  mode = "run" => \A z \in Managed : zone[z] = Gateway

(* ... and CoreDNS publishes that ownership: no subdomain request on the   *)
(* label "__owner__" can displace the owner record of such a zone.         *)
OwnerTxtPublished ==
  mode = "run" => \A z \in Managed : Gateway \in Published(<<OwnerLabel, z>>)

(* What the caller may rely on when a call reports success, although each  *)
(* of its writes could fail on its own.  An addition has done its work in  *)
(* both stores it writes: the reservation and the records, the owner and   *)
(* its TXT record.  A removal has not always: RemoveDomainDelagate assures *)
(* only that the zone is free, whatever is still published in it           *)
(* (DelegationLeavesNothing is violated), and RemoveSubdomain only that    *)
(* the addresses are gone and nobody else has the name reserved, while the *)
(* caller's own reservation may stay (ClearedNameIsFree is violated); in a *)
(* zone that is gone, only that the name is free.                          *)
SuccessAssures ==
  /\ At("AddSubdomain", "ok") =>
       /\ managed[Subdomain] = call.user
       /\ call.ips \subseteq Published(Subdomain)
  /\ At("RemoveSubdomain", "ok") =>
       IF zone[call.zone] = None
       THEN managed[Subdomain] = None
       ELSE /\ call.ips \cap Published(Subdomain) = {}
            /\ managed[Subdomain] \in {None, call.user}
  /\ At("AddDomainDelagate", "ok") =>
       /\ zone[call.zone] = call.user
       /\ Published(<<OwnerLabel, call.zone>>) = {call.user}
  /\ At("RemoveDomainDelagate", "ok") => zone[call.zone] = None

(* The addresses of a name change only in a call about that name; they are *)
(* added only to a name the caller has reserved, in a zone of the gateway  *)
(* or of the caller, and removed only from a name that is the caller's or  *)
(* nobody's.  A start, its Cleanup included, changes none.  (The label     *)
(* "__owner__" is rewritten by delegations and is left aside.)             *)
GuardedRecords ==
  \A d \in Labels \X Zones :
    LET before == Published(d) \cap IPs
        after  == Published(d)' \cap IPs
    IN d[1] # OwnerLabel /\ before # after =>
         /\ call # None /\ Subdomain = d
         /\ IF before \subseteq after
            THEN managed[d] = call.user /\ zone[d[2]] \in {Gateway, call.user}
            ELSE managed[d] \in {None, call.user} /\ zone[d[2]] # None
RecordsGuarded == [][GuardedRecords]_vars

(* No address is published under a free name of a managed zone, so that    *)
(* whoever claims the name next starts from nothing: the reservation is    *)
(* made before the records and deleted after them, so that a crash or a    *)
(* refused write between the two leaves a reservation, never records.      *)
(* (It does not survive a write that takes effect without an answer.)      *)
NoOrphanRecords ==
  \A d \in Subdomains :
    d[2] \in Managed /\ managed[d] = None => Published(d) \cap IPs = {}

(* The zones, and the names in the managed zones, each are a registry: a   *)
(* name or zone has one holder, that alone gives it up, and it is never    *)
(* taken over.                                                             *)
Actor == IF call = None THEN None ELSE call.user

Zone == INSTANCE Registry WITH
  Keys <- Zones, holder <- zone, actor <- Actor
ZoneRegistry == Zone!Spec

FreeNames == {d \in Subdomains : d[2] \in Managed}
Name == INSTANCE Registry WITH
  Keys <- FreeNames, holder <- [d \in FreeNames |-> managed[d]], actor <- Actor
NameRegistry == Name!Spec

(* RemoveDomainDelagate, "remove all eventual subdomain configuration for  *)
(* this delegated domain" (coredns.go:430): when it succeeded, CoreDNS no  *)
(* longer answers for the zone.                                            *)
DelegationLeavesNothing ==
  At("RemoveDomainDelagate", "ok") =>
    \A l \in Labels : hash[Dotted(call.zone)][l] = None

(* RemoveSubdomain, "if the subdomain has been cleared out, we remove the  *)
(* owner so anyone can claim it again" (coredns.go:352).                   *)
ClearedNameIsFree ==
  At("RemoveSubdomain", "ok") /\ Published(Subdomain) = {}
    => managed[Subdomain] = None

-----------------------------------------------------------------------------
(* The inductive invariant behind the properties                           *)

(* Where a call can be, and on whose behalf the gateway works.             *)
CallInv ==
  /\ (call = None) <=> (pc = "idle")
  /\ mode = "down" => call = None
  /\ mode # "boot" => todo = {}
  /\ call # None /\ mode = "run" => call.user \in Users
  /\ call # None /\ mode = "boot" =>
       call.op = "AddDomainDelagate" /\ call.user = Gateway /\ call.zone \in todo
  /\ pc \in {"reserved", "cleanup"} => call.op = "AddSubdomain"
  /\ pc = "cleared" => call.op = "RemoveSubdomain"
  /\ pc = "owned" => call.op = "AddDomainDelagate"
  /\ pc = "deleted" => call.op = "RemoveDomainDelagate"

(* What a call has made sure of before its next write still holds then.    *)
ProgressInv ==
  /\ pc \in {"reserved", "cleanup"} =>
       managed[Subdomain] = call.user /\ zone[call.zone] \in {Gateway, call.user}
  /\ pc = "cleared" =>
       /\ managed[Subdomain] \in {None, call.user}
       /\ zone[call.zone] # None /\ Published(Subdomain) = {}
  /\ pc = "owned" => zone[call.zone] = call.user
  /\ pc = "deleted" => zone[call.zone] \in {None, call.user}

(* Managed zones are nobody's or the gateway's at any time, and once       *)
(* claimed they and their owner record stay as they are.                   *)
ManagedInv ==
  /\ \A z \in Managed : zone[z] \in {None, Gateway}
  /\ mode # "down" => \A z \in Managed \ todo :
       zone[z] = Gateway /\ Gateway \in Published(<<OwnerLabel, z>>)

(* With acknowledged or ineffective writes only, records need a            *)
(* reservation in managed zones, and one just made, or about to be deleted,*)
(* has none.                                                               *)
OrphanInv ==
  /\ \A d \in Labels \X Managed : managed[d] = None => Published(d) \cap IPs = {}
  /\ pc \in {"reserved", "cleanup", "cleared"} /\ call.zone \in Managed =>
       Published(Subdomain) \cap IPs = {}

IInv == TypeOK /\ CallInv /\ ProgressInv /\ ManagedInv /\ SuccessAssures

=============================================================================
