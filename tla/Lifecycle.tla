------------------------------ MODULE Lifecycle ------------------------------
(***************************************************************************)
(* The life of the gateway process (src/cmd/tfgateway/main.go): the start  *)
(* with the flags its operator chose, the identity in the seed file, the   *)
(* claims of --domains, the registration in the explorer, the set-up of    *)
(* the wireguard interface, the heartbeats, and the ways it ends.  What    *)
(* the start does to the cache and to the records in DNS is in             *)
(* ReservationCache and CoreDNS, what the engine does in Gateway.          *)
(***************************************************************************)
EXTENDS WireGuard

CONSTANTS
  Zones,       \* DNS zones,
  ValidZones,  \* those govalidator takes for DNS names,
  Flags,       \* and the command lines: --domains, and whether 4to6 is enabled
  Cut,         \* a seed file cut short
  MaxUpsets    \* bound: stops, crashes, failures and outages in a behaviour

ASSUME FlagsAssumption == Flags \subseteq [domains : SUBSET Zones, tunnels : BOOLEAN]
ASSUME LifeAssumption ==
  /\ ValidZones \subseteq Zones /\ MaxUpsets \in Nat
  /\ Users \cap Ids = {} /\ Cut \notin Ids \cup {None}

VARIABLES
  phase,      \* of run
  flags,      \* of the running process, or of the last one
  todo,       \* domains it still has to claim
  ticker,     \* the goroutine of the heartbeats: not there ("off"), "waiting" for
              \* the clock, or "sending", again and again until one gets through
  tick,       \* whether the clock has ticked since: its channel holds one tick
  seed,       \* the seed file
  holder,     \* of each zone, in redis
  registered, \* what the explorer was last told: identity and domains
  adopts,     \* whether wireguard.New takes an interface that is there
  reachable,  \* whether the explorer answers
  heard,      \* whether it heard of the gateway since the last ten minutes began
  upsets

beats == <<ticker, tick>>
process == <<phase, flags, todo, identity, beats>>
explorer == <<registered, reachable, heard>>
vars == <<process, wireguard, adopts, seed, holder, explorer, upsets>>

Upset == upsets < MaxUpsets /\ upsets' = upsets + 1

Init ==
  /\ phase = "down" /\ flags = [domains |-> {}, tunnels |-> FALSE]
  /\ todo = {} /\ identity = None /\ seed = None
  /\ ticker = "off" /\ tick = FALSE
  /\ InitWireGuard
  /\ holder = [z \in Zones |-> None]
  /\ adopts \in BOOLEAN
  /\ registered = None /\ reachable = TRUE /\ heard = FALSE
  /\ upsets = 0

GoTo(next) == phase' = next /\ UNCHANGED <<flags, todo, identity, beats>>

(* The process is gone, with its goroutines and what it had in memory.     *)
End ==
  /\ phase' = "down" /\ identity' = None /\ todo' = {}
  /\ ticker' = "off" /\ tick' = FALSE
  /\ UNCHANGED flags

-----------------------------------------------------------------------------
(* run, step by step                                                       *)

Start ==
  /\ phase = "down"
  /\ flags' \in Flags
  /\ phase' = "identify"
  /\ UNCHANGED <<todo, identity, beats, wireguard, adopts, seed, holder, explorer, upsets>>

(* ensureID: a key pair is generated once and saved before it is used.     *)
SeedUnsaved(id) == None
SeedFor(id) == IF seed = None THEN id ELSE seed
Identify ==
  /\ phase = "identify" /\ seed # Cut
  /\ \E id \in Ids :
       /\ seed # None => id = seed
       /\ identity' = id
       /\ seed' = SeedFor(id)
  /\ phase' = "prepare"
  /\ UNCHANGED <<flags, todo, beats, wireguard, adopts, holder, explorer, upsets>>

(* A seed file that cannot be read ends every start; one that cannot be    *)
(* written leaves nothing or a part of it.                                 *)
SeedUnread ==
  /\ phase = "identify" /\ seed = Cut
  /\ End
  /\ UNCHANGED <<wireguard, adopts, seed, holder, explorer, upsets>>
SaveFails ==
  /\ phase = "identify" /\ seed = None
  /\ Upset
  /\ seed' \in {None, Cut}
  /\ End
  /\ UNCHANGED <<wireguard, adopts, holder, explorer>>

(* Sync, the location, the validation of the flags, Cleanup.               *)
Prepare ==
  /\ phase = "prepare"
  /\ IF flags.domains \subseteq ValidZones
     THEN phase' = "claim" /\ todo' = flags.domains /\ UNCHANGED <<flags, identity, beats>>
     ELSE End
  /\ UNCHANGED <<wireguard, adopts, seed, holder, explorer, upsets>>

(* AddDomainDelagate by the gateway for itself; an error ends the start.   *)
SkipRefused(z) == todo' = todo \ {z} /\ UNCHANGED <<phase, flags, identity, beats>>
Refuse(z) == End
MayClaimFree(z) == holder[z] = None
MayClaim(z) == holder[z] \in {None, identity}
Claim ==
  /\ phase = "claim" /\ todo # {}
  /\ \E z \in todo :
       IF MayClaim(z)
       THEN /\ holder' = [holder EXCEPT ![z] = identity]
            /\ todo' = todo \ {z}
            /\ UNCHANGED <<phase, flags, identity, beats>>
       ELSE Refuse(z) /\ UNCHANGED holder
  /\ UNCHANGED <<wireguard, adopts, seed, explorer, upsets>>
Claimed ==
  /\ phase = "claim" /\ todo = {}
  /\ GoTo("register")
  /\ UNCHANGED <<wireguard, adopts, seed, holder, explorer, upsets>>

(* Registration is tried again for a minute; then the process ends.  The   *)
(* explorer may have registered what it did not confirm.                   *)
Registration == [id |-> identity, domains |-> flags.domains]
Register ==
  /\ phase = "register" /\ reachable
  /\ registered' = Registration
  /\ GoTo(IF flags.tunnels THEN "clear" ELSE "announce")
  /\ UNCHANGED <<wireguard, adopts, seed, holder, reachable, heard, upsets>>
RegisterUnconfirmed ==
  /\ phase = "register" /\ reachable
  /\ Upset
  /\ registered' = Registration
  /\ UNCHANGED <<process, wireguard, adopts, seed, holder, reachable, heard>>
GiveUpRegistration ==
  /\ phase = "register" /\ ~reachable
  /\ End
  /\ UNCHANGED <<wireguard, adopts, seed, holder, explorer, upsets>>

(* ClearByType, then wg.New: the interface is there, has its address, its  *)
(* key and port, and is up, before the engine runs.                        *)
Clear ==
  /\ phase = "clear"
  /\ GoTo("create")
  /\ UNCHANGED <<wireguard, adopts, seed, holder, explorer, upsets>>

SetUpFrom(now, stage, next) ==
  /\ phase = now
  /\ SetUp(stage)
  /\ GoTo(next)
  /\ UNCHANGED <<adopts, seed, holder, explorer, upsets>>
SetUpInterface ==
  \/ (link = {} \/ adopts) /\ SetUpFrom("create", "created", "address")
  \/ SetUpFrom("address", "addressed", "configure")
  \/ SetUpFrom("configure", "configured", "raise")
  \/ SetUpFrom("raise", "raised", "announce")

(* An interface that a crash left is adopted, or ends every start.         *)
Blocked == phase = "create" /\ link # {} /\ ~adopts
CreateFails ==
  /\ Blocked
  /\ End
  /\ UNCHANGED <<wireguard, adopts, seed, holder, explorer, upsets>>

(* A step of the start fails: run returns before Close is deferred.        *)
Ignored == GoTo("announce")
Failed == End
StepFails ==
  /\ phase \in {"prepare", "claim", "clear", "create", "address", "configure", "raise"}
  /\ Upset
  /\ Failed
  /\ UNCHANGED <<wireguard, adopts, seed, holder, explorer>>

-----------------------------------------------------------------------------
(* uptimeTicker.Start                                                      *)

(* The first heartbeat is tried for a quarter of an hour, and the gateway  *)
(* serves with or without it; then the clock and the goroutine begin.      *)
Announce ==
  /\ phase = "announce"
  /\ heard' = (heard \/ reachable)
  /\ phase' = "serve" /\ ticker' = "waiting"
  /\ UNCHANGED <<flags, todo, identity, tick, wireguard, adopts, seed, holder, registered, reachable, upsets>>

(* Ten minutes are over.  The tick is lost if the last one is still there. *)
TenMinutes ==
  /\ heard \/ (phase = "serve" /\ ~tick)
  /\ heard' = FALSE
  /\ tick' = (phase = "serve")
  /\ UNCHANGED <<phase, flags, todo, identity, ticker, wireguard, adopts, seed, holder, registered, reachable, upsets>>

TakeTick ==
  /\ ticker = "waiting" /\ tick
  /\ ticker' = "sending" /\ tick' = FALSE
  /\ UNCHANGED <<phase, flags, todo, identity, wireguard, adopts, seed, holder, explorer, upsets>>

(* A heartbeat, the first one of its turn or one tried again, arrives ...  *)
Beat ==
  /\ ticker = "sending" /\ reachable
  /\ heard' = TRUE
  /\ ticker' = "waiting"
  /\ UNCHANGED <<phase, flags, todo, identity, tick, wireguard, adopts, seed, holder, registered, reachable, upsets>>

(* ... or none has for a quarter of an hour: Retry returns the error,      *)
(* which nobody looks at.                                                  *)
EndsGoroutine == "off"
AfterBackoff == "waiting"
GiveUpBeat ==
  /\ ticker = "sending" /\ ~reachable
  /\ ticker' = AfterBackoff
  /\ UNCHANGED <<phase, flags, todo, identity, tick, wireguard, adopts, seed, holder, explorer, upsets>>

Heartbeat == TakeTick \/ Beat \/ GiveUpBeat

-----------------------------------------------------------------------------
(* While it serves                                                         *)

Serving == phase = "serve"
Tunnels == Serving /\ flags.tunnels

(* Users delegate free zones and give back their own (Gateway, CoreDNS).   *)
Delegate(user, z) ==
  /\ Serving
  /\ holder[z] \in {None, user}
  /\ holder' \in {[holder EXCEPT ![z] = user], [holder EXCEPT ![z] = None]}
  /\ UNCHANGED <<process, wireguard, adopts, seed, explorer, upsets>>

(* gateway4To6Provision and gateway4To6Decomission                         *)
Tunnel(user, key) ==
  /\ Tunnels
  /\ AddPeer(user, key) \/ RemovePeer(key)
  /\ UNCHANGED <<process, adopts, seed, holder, explorer, upsets>>

(* A signal ends the engine, and run with it: Close was deferred, and may  *)
(* fail.                                                                   *)
Stop ==
  /\ Serving
  /\ Upset
  /\ UNCHANGED wireguard \/ (flags.tunnels /\ Close)
  /\ End
  /\ UNCHANGED <<adopts, seed, holder, explorer>>

(* Before that a signal kills the process, as a crash does at any time.    *)
Crash ==
  /\ phase # "down"
  /\ Upset
  /\ End
  /\ UNCHANGED <<wireguard, adopts, seed, holder, explorer>>

-----------------------------------------------------------------------------
(* The explorer                                                            *)

Outage ==
  /\ reachable /\ Upset
  /\ reachable' = FALSE
  /\ UNCHANGED <<process, wireguard, adopts, seed, holder, registered, heard>>
Recover ==
  /\ ~reachable
  /\ reachable' = TRUE
  /\ UNCHANGED <<process, wireguard, adopts, seed, holder, registered, heard, upsets>>

Run ==
  \/ Identify \/ SeedUnread \/ Prepare \/ Claim \/ Claimed
  \/ Register \/ GiveUpRegistration \/ Clear \/ SetUpInterface \/ CreateFails \/ Announce

Next ==
  \/ Start \/ Run \/ TenMinutes \/ Heartbeat
  \/ \E user \in Users, z \in Zones : Delegate(user, z)
  \/ \E user \in Users, key \in Keys : Tunnel(user, key)
  \/ SaveFails \/ RegisterUnconfirmed \/ StepFails \/ Stop \/ Crash
  \/ Outage \/ Recover

(* The process is started again, by its supervisor or its operator; its    *)
(* goroutines go on, time passes, and outages end.                         *)
Fairness ==
  WF_vars(Start) /\ WF_vars(Run) /\ WF_vars(TenMinutes) /\ WF_vars(Heartbeat) /\ WF_vars(Recover)

Safety == Init /\ [][Next]_vars
Spec == Safety /\ Fairness

-----------------------------------------------------------------------------
(* Properties                                                              *)

Phases == {"down", "identify", "prepare", "claim", "register", "clear",
           "create", "address", "configure", "raise", "announce", "serve"}
TickerTypes ==
  /\ ticker \in {"off", "waiting", "sending"} /\ tick \in BOOLEAN
  /\ phase # "serve" => ticker = "off" /\ ~tick

(* The variables are of their types, and the process has an identity,      *)
(* domains to claim and a ticker only where run has them.                  *)
TypeOK ==
  /\ WireGuardTypes /\ TickerTypes
  /\ phase \in Phases
  /\ flags \in [domains : SUBSET Zones, tunnels : BOOLEAN]
  /\ todo \subseteq flags.domains /\ (todo # {} => phase = "claim")
  /\ identity \in Ids \cup {None}
  /\ (identity = None) <=> (phase \in {"down", "identify"})
  /\ seed \in Ids \cup {None, Cut}
  /\ holder \in [Zones -> Ids \cup Users \cup {None}]
  /\ registered \in [id : Ids, domains : SUBSET Zones] \cup {None}
  /\ adopts \in BOOLEAN /\ reachable \in BOOLEAN /\ heard \in BOOLEAN
  /\ upsets \in 0 .. MaxUpsets

(* Everything the gateway left anywhere - zones in redis, its registration *)
(* in the explorer, addresses in the kernel - is of the one identity that  *)
(* the next start will read (ensureID).                                    *)
OneIdentity ==
  /\ \A z \in Zones : holder[z] \in Ids => holder[z] = seed
  /\ registered # None => registered.id = seed
  /\ \A k \in Keys : \A a \in peers[k] : a[1] = seed

(* The zones the explorer offers to users are valid and the gateway's, at  *)
(* all times: after restarts with other --domains, and after starts that   *)
(* ended half-way (run: the claims come before the registration).          *)
AdvertisedHeld ==
  registered # None =>
    \A z \in registered.domains : z \in ValidZones /\ holder[z] = registered.id

(* The gateway serves tunnels only on an interface that is set up, whoever *)
(* created it (setupWGNamespace).                                          *)
ServesWithLink == Tunnels => link = Stages

(* Why: the identity of the process is in the seed file, claimed domains   *)
(* stay claimed, and the interface is set up as far as the start has got   *)
(* (run, setupWGNamespace).                                                *)
Claiming == {"claim", "register", "clear", "create", "address", "configure", "raise", "announce", "serve"}
SetUpBy(point) ==
  IF point = "address" THEN {"created"}
  ELSE IF point = "configure" THEN {"created", "addressed"}
  ELSE IF point = "raise" THEN {"created", "addressed", "configured"}
  ELSE IF point \in {"announce", "serve"} THEN Stages ELSE {}
IInv ==
  /\ TypeOK
  /\ identity # None => identity = seed
  /\ OneIdentity
  /\ phase \in Claiming =>
       /\ flags.domains \subseteq ValidZones
       /\ \A z \in flags.domains \ todo : holder[z] = identity
  /\ AdvertisedHeld
  /\ flags.tunnels => SetUpBy(phase) \subseteq link
  /\ GivenWorks

(* After any crashes, outages and failures the gateway serves again, or    *)
(* its operator asks for a domain it cannot have, or its seed is lost, or  *)
(* the interface a crash left is in its way (run).                         *)
Misconfigured ==
  phase # "down" /\ \E z \in flags.domains : z \notin ValidZones \/ holder[z] \in Users
EventuallyServes == []<>Serving \/ []<>Misconfigured \/ []<>Blocked \/ <>[](seed = Cut)

(* While it serves and the explorer answers, the explorer keeps hearing of *)
(* it: a heartbeat that failed for longer than its backoff, ticks that     *)
(* came meanwhile, and a first heartbeat that was given up, do not end the *)
(* goroutine's loop (uptimeTicker.Start).                                  *)
HeartbeatsGoOn == <>[](Serving /\ reachable) => []<>heard

=============================================================================
