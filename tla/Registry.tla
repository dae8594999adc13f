------------------------------ MODULE Registry ------------------------------
(***************************************************************************)
(* What the gateway promises about anything a user can hold by name: a     *)
(* delegated zone, a free subdomain of a zone the gateway manages, a TCP   *)
(* router service.  A name has at most one holder.  Only the party on      *)
(* whose behalf the gateway is working can take a free name, for itself,   *)
(* or give up a name, its own; so a name never passes from one holder to   *)
(* another without being free in between.                                  *)
(*                                                                         *)
(* The packages dns and proxy keep this promise with reads and writes of   *)
(* redis; CoreDNS and TCPRouter are shown to implement this module.        *)
(***************************************************************************)
CONSTANTS
  Keys,      \* the names that can be held
  Parties,   \* users, and the gateway itself
  None       \* "no holder" and "no request under way"

VARIABLES
  holder,    \* who holds each name
  actor      \* the party whose request is being carried out

vars == <<holder, actor>>

Init ==
  /\ holder = [k \in Keys |-> None]
  /\ actor = None

(* A request arrives, is answered, or is dropped by a crash. *)
Serve(a) ==
  /\ actor' = a
  /\ UNCHANGED holder

(* Taking a name: it must be free, and goes to the party being served. *)
Claim(k) ==
  /\ actor \in Parties
  /\ holder[k] = None
  /\ holder' = [holder EXCEPT ![k] = actor]
  /\ UNCHANGED actor

(* Giving a name up: only its holder does. *)
Release(k) ==
  /\ actor \in Parties
  /\ holder[k] = actor
  /\ holder' = [holder EXCEPT ![k] = None]
  /\ UNCHANGED actor

Next ==
  \/ \E a \in Parties \cup {None} : Serve(a)
  \/ \E k \in Keys : Claim(k) \/ Release(k)

Spec == Init /\ [][Next]_vars

=============================================================================
