------------------------------ MODULE TCPRouter ------------------------------
(***************************************************************************)
(* proxy.Mgr (src/proxy) and the two reservation types on top of it: the   *)
(* configuration of the TCP router is one redis key per domain,            *)
(* "/tcprouter/service/<domain>", that holds the user that reserved the    *)
(* domain and where its connections go, an address (Proxy) or the client   *)
(* that knows a secret (ReverseProxy).                                     *)
(*                                                                         *)
(* Every operation reads the key, decides whether the user may write it,   *)
(* and writes it on another connection.  The engine makes one call at a    *)
(* time; each access can fail, a write with or without effect, and the     *)
(* gateway can die at any point.                                           *)
(***************************************************************************)
CONSTANTS
  Users,        \* who sends reservations
  Domains,      \* the domains that connections ask for
  EmptyDomain,  \* "", which a reservation may carry like any other
  Addrs,        \* where a proxy forwards to: address and ports
  Secrets,      \* secrets of clients, decrypted
  SecretUser,   \* the user before the ":" of a secret, None if there is none
  Outcomes,     \* what can become of a redis write
  None          \* a missing key; an empty address or secret; no call

ASSUME UsersAssumption == None \notin Users
ASSUME RoutesAssumption ==
  /\ None \notin Addrs /\ None \notin Secrets
  /\ SecretUser \in [Secrets -> Users \cup {None}]
ASSUME OutcomesAssumption == Outcomes \subseteq {"done", "refused", "lost"}

(* The JSON value of a key.  (The base64 wrapping of valkyrieEncode is     *)
(* undone by valkyrieDecode, and the router reads the same value.)         *)
Services == [user : Users, addr : Addrs \cup {None}, secret : Secrets \cup {None}]

Calls == [op : {"AddProxy", "RemoveProxy", "AddReverseProxy", "RemoveReverseProxy"},
          user : Users, domain : Domains,
          addr : Addrs \cup {None}, secret : Secrets \cup {None}]

ASSUME NoneAssumption == None \notin Services /\ None \notin Calls

VARIABLES
  service,   \* domain -> service
  up,        \* whether the gateway runs
  call,      \* the call being carried out
  pc         \* how far it got

vars == <<service, up, call, pc>>

-----------------------------------------------------------------------------
Call(op, user, domain, addr, secret) ==
  [op |-> op, user |-> user, domain |-> domain, addr |-> addr, secret |-> secret]

Requests ==
  {Call("AddProxy", u, d, a, None) :
     u \in Users, d \in Domains, a \in Addrs \cup {None}}
  \cup
  {Call("AddReverseProxy", u, d, None, s) :
     u \in Users, d \in Domains, s \in Secrets \cup {None}}
  \cup
  {Call(op, u, d, None, None) :
     op \in {"RemoveProxy", "RemoveReverseProxy"}, u \in Users, d \in Domains}

Adding == call.op \in {"AddProxy", "AddReverseProxy"}

Init ==
  /\ service = [d \in Domains |-> None]
  /\ up = FALSE
  /\ call = None
  /\ pc = "idle"

(* The gateway starts; it does not look at these keys.                     *)
Start ==
  /\ ~up
  /\ up' = TRUE
  /\ UNCHANGED <<service, call, pc>>

Crash ==
  /\ up
  /\ up' = FALSE
  /\ call' = None
  /\ pc' = "idle"
  /\ UNCHANGED service

Request(c) ==
  /\ up /\ call = None
  /\ call' = c
  /\ pc' = "called"
  /\ UNCHANGED <<service, up>>

Return ==
  /\ pc \in {"ok", "err"}
  /\ call' = None
  /\ pc' = "idle"
  /\ UNCHANGED <<service, up>>

(* ReverseProxy.validate: the secret names the user of the reservation.  A *)
(* Proxy is not validated.                                                 *)
Valid == call.op = "AddReverseProxy" =>
  /\ call.domain # EmptyDomain /\ call.secret # None
  /\ SecretUser[call.secret] = call.user

Reject ==
  /\ pc = "called"
  /\ ~Valid
  /\ pc' = "err"
  /\ UNCHANGED <<service, up, call>>

(* canUseDomain: the domain is free, or the user's, whichever of the two   *)
(* types of reservation it was taken for.                                  *)
CanUseAnyDomain == TRUE
CanUseDomain ==
  \/ service[call.domain] = None
  \/ service[call.domain].user = call.user

CheckDomain ==
  /\ pc = "called"
  /\ Valid
  /\ pc' = IF CanUseDomain THEN "allowed" ELSE "err"
  /\ UNCHANGED <<service, up, call>>

(* The secret cannot be decrypted, or the key cannot be read.              *)
ReadFails ==
  /\ pc = "called"
  /\ "refused" \in Outcomes
  /\ pc' = "err"
  /\ UNCHANGED <<service, up, call>>

WithoutReply(o) == "ok"
Reply(o) == IF o = "done" THEN "ok" ELSE "err"

(* SET: the new value replaces all of the old one.                         *)
AnonymousService == [user |-> None, addr |-> call.addr, secret |-> call.secret]
MergedService ==
  [user   |-> call.user,
   addr   |-> IF call.addr = None /\ service[call.domain] # None
              THEN service[call.domain].addr ELSE call.addr,
   secret |-> call.secret]
NewService == [user |-> call.user, addr |-> call.addr, secret |-> call.secret]

SetService ==
  /\ pc = "allowed" /\ Adding
  /\ \E o \in Outcomes :
       /\ service' = IF o = "refused" THEN service
                     ELSE [service EXCEPT ![call.domain] = NewService]
       /\ pc' = Reply(o)
  /\ UNCHANGED <<up, call>>

(* DEL, the same for both types of reservation.                            *)
DeleteService ==
  /\ pc = "allowed" /\ ~Adding
  /\ \E o \in Outcomes :
       /\ service' = IF o = "refused" THEN service
                     ELSE [service EXCEPT ![call.domain] = None]
       /\ pc' = Reply(o)
  /\ UNCHANGED <<up, call>>

Next ==
  \/ Start \/ Crash \/ Return
  \/ \E c \in Requests : Request(c)
  \/ Reject \/ CheckDomain \/ ReadFails \/ SetService \/ DeleteService

Spec == Init /\ [][Next]_vars

-----------------------------------------------------------------------------
(* Properties                                                              *)

TypeOK ==
  /\ service \in [Domains -> Services \cup {None}]
  /\ up \in BOOLEAN
  /\ call \in Calls \cup {None}
  /\ pc \in {"idle", "called", "allowed", "ok", "err"}

(* The connections of a domain go to one place, an address or a client,    *)
(* and to a client only if it proved to belong to the user that holds the  *)
(* domain: taking a domain over for the other type of reservation, or for  *)
(* another target, leaves nothing of the previous one.                     *)
Routes ==
  \A d \in Domains : service[d] # None /\ service[d].secret # None =>
    service[d].addr = None /\ SecretUser[service[d].secret] = service[d].user

(* A call that reports success did its work.                               *)
ReplyMeansDone ==
  pc = "ok" => service[call.domain] = IF Adding THEN NewService ELSE None

(* The domains are a registry: one holder each, that alone gives it up.    *)
HolderOf(s) == IF s = None THEN None ELSE s.user
Actor == IF call = None THEN None ELSE call.user
Domain == INSTANCE Registry WITH
  Keys <- Domains, Parties <- Users,
  holder <- [d \in Domains |-> HolderOf(service[d])], actor <- Actor
DomainRegistry == Domain!Spec

(* The inductive invariant: between the check and the write the domain is  *)
(* still free or the caller's.                                             *)
CallInv ==
  /\ (call = None) <=> (pc = "idle")
  /\ ~up => call = None
  /\ call # None => call \in Requests
  /\ pc \in {"allowed", "ok"} => Valid
  /\ pc = "allowed" => CanUseDomain

IInv == TypeOK /\ CallInv /\ Routes /\ ReplyMeansDone

=============================================================================
