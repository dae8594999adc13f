------------------------------- MODULE Gateway -------------------------------
(***************************************************************************)
(* The gateway as a whole (src/provision.go, src/cmd/tfgateway/main.go):   *)
(* an explorer holds the workloads users reserved and cancelled; the       *)
(* engine polls them, carries them out through the provisioners of this    *)
(* repository, remembers them in the cache, counts them, and answers.      *)
(*                                                                         *)
(* A call of a manager is one step here, with what it leaves when it fails *)
(* or is cut short: the modules CoreDNS, TCPRouter and WireGuard go        *)
(* through the writes.  The engine and the sources of its jobs are a       *)
(* library; where this repository does not fix the order of its calls,     *)
(* any order is possible.                                                  *)
(***************************************************************************)
EXTENDS Integers, FiniteSets

CONSTANTS
  Users, Self,         \* who reserves; the identity of the gateway itself
  Domains, Names,      \* of the TCP router; subdomains in DNS
  Zones, ManagedZones, \* DNS zones, and those the gateway claims at its start
  Keys,                \* public keys of wireguard peers
  Workloads,           \* by the ID the gateway knows them by, and of each
  TypeOf, UserOf,      \*   its type, who reserved it,
  ResourceOf,          \*   the domain, name, zone or key it is about,
  ValueOf,             \*   and the route, the address or the peer address
  ZoneOf,              \* the zone of a name
  Old,                 \* workloads an older gateway may have left, with a duration
  TunnelChoices,       \* the values is4To6Enabled may have at a start
  Faults,              \* of "crash", "redis", "explorer"
  Scenarios,           \* bound: workloads reserved in one behaviour
  MaxUpsets,           \* bound: stops, crashes and failures in a behaviour
  Word, Cut,           \* 2^64 of a counter, 2^16 of a reported one
  None

Types == {"delegate", "subdomain", "proxy", "reverse", "tunnel"}
CountedTypes == Types \ {"tunnel"}
Resources == Domains \cup Names \cup Zones \cup Keys

(* ProvisionOrder sorts what one poll returns.                             *)
ProvisionOrder == [delegate |-> 0, subdomain |-> 1, proxy |-> 2, reverse |-> 3, tunnel |-> 4]

Tunnels == {w \in Workloads : TypeOf[w] = "tunnel"}
ClassOf(type) ==
  IF type = "delegate" THEN Zones ELSE IF type = "subdomain" THEN Names
  ELSE IF type = "tunnel" THEN Keys ELSE Domains

ASSUME WorkloadsAssumption ==
  /\ IsFiniteSet(Workloads)
  /\ TypeOf \in [Workloads -> Types]
  /\ UserOf \in [Workloads -> Users]
  /\ \A w \in Workloads : ResourceOf[w] \in ClassOf(TypeOf[w])
  /\ ZoneOf \in [Names -> Zones]
ASSUME ResourcesAssumption ==
  /\ Domains \cap Names = {} /\ Domains \cap Zones = {} /\ Domains \cap Keys = {}
  /\ Names \cap Zones = {} /\ Names \cap Keys = {} /\ Zones \cap Keys = {}
  /\ ManagedZones \subseteq Zones
ASSUME PartiesAssumption == Self \notin Users /\ None \notin Users \cup {Self} /\ None \notin Workloads
(* Workloads an older gateway left: proxies, one per domain.               *)
ASSUME OldAssumption ==
  /\ Old \subseteq {w \in Workloads : TypeOf[w] \in {"proxy", "reverse"}}
  /\ \A v, w \in Old : ResourceOf[v] = ResourceOf[w] => v = w
(* IPPool.Get: the address of a peer depends on the user (and two users do *)
(* not share one).                                                         *)
ASSUME AddressAssumption ==
  \A v, w \in Tunnels : ValueOf[v] = ValueOf[w] <=> UserOf[v] = UserOf[w]
ASSUME BoundsAssumption ==
  /\ MaxUpsets \in Nat /\ Word \in Nat \ {0} /\ Cut \in Nat \ {0}
  /\ TunnelChoices \subseteq BOOLEAN /\ Scenarios \subseteq SUBSET Workloads

VARIABLES
  wanted,   \* what the explorer wants of each workload,
  answer,   \* and the result it was told
  holder,   \* who holds each domain, name and zone in redis
  content,  \* what is published there: routes, addresses; addresses of a peer
  cached,   \* the cached reservations,
  ending,   \* those of them with a duration,
  late,     \* and the workloads whose duration is over
  count,    \* the counters
  mode,     \* of the process: "down" or "up",
  tunnels,  \* with 4to6 or without
  seen,     \* what the poller has handed over since the start,
  batch,    \* what it handed over and the engine has not taken yet,
  due,      \* and the same of the expired reservations
  job,      \* the workload the engine is at,
  pc,       \* how far it got,
  left,     \* and in which order it still has to answer and to store
  upsets

explorer == <<wanted, answer>>
servers == <<holder, content>>
cache == <<cached, ending>>
sources == <<seen, batch, due>>
engine == <<job, pc, left>>
vars == <<explorer, servers, cache, late, count, mode, tunnels, sources, engine, upsets>>

Upset == upsets < MaxUpsets /\ upsets' = upsets + 1

CachedOf(type, workloads) == Cardinality({w \in workloads : TypeOf[w] = type})

Idle == job' = None /\ pc' = "idle" /\ left' = {}
KeptJobs == UNCHANGED sources
NoJobs == seen' = {} /\ batch' = {} /\ due' = {}

(* What an older gateway left is deployed, cached and answered.            *)
LeftBy(old, r) == {w \in old : ResourceOf[w] = r}
InitWith(old) ==
  /\ wanted = [w \in Workloads |-> IF w \in old THEN "deploy" ELSE "none"]
  /\ answer = [w \in Workloads |-> IF w \in old THEN "ok" ELSE "none"]
  /\ holder = [r \in Resources |->
                 IF r \in ManagedZones THEN Self
                 ELSE IF LeftBy(old, r) # {} THEN UserOf[CHOOSE w \in LeftBy(old, r) : TRUE]
                 ELSE None]
  /\ content = [r \in Resources |-> {ValueOf[w] : w \in LeftBy(old, r)}]
  /\ cached = old
  /\ ending = old
  /\ late = {}
  /\ count = [t \in CountedTypes |-> 0]
  /\ mode = "down"
  /\ tunnels = FALSE
  /\ seen = {} /\ batch = {} /\ due = {}
  /\ job = None /\ pc = "idle" /\ left = {}
  /\ upsets = 0

Init == \E old \in SUBSET Old : InitWith(old)

-----------------------------------------------------------------------------
(* Users and time                                                          *)

Reserved == {w \in Workloads : wanted[w] # "none"}

Reserve(w) ==
  /\ wanted[w] = "none"
  /\ \E scenario \in Scenarios : Reserved \cup {w} \subseteq scenario
  /\ wanted' = [wanted EXCEPT ![w] = "deploy"]
  /\ UNCHANGED <<answer, servers, cache, late, count, mode, tunnels, sources, engine, upsets>>

Cancel(w) ==
  /\ wanted[w] = "deploy"
  /\ wanted' = [wanted EXCEPT ![w] = "delete"]
  /\ UNCHANGED <<answer, servers, cache, late, count, mode, tunnels, sources, engine, upsets>>

Expire(w) ==
  /\ w \in ending \ late
  /\ late' = late \cup {w}
  /\ UNCHANGED <<explorer, servers, cache, count, mode, tunnels, sources, engine, upsets>>

-----------------------------------------------------------------------------
(* The process                                                             *)

(* run: counters from the cache, then ClearByType and wg.New if 4to6 is    *)
(* enabled.  wg.New takes over an interface that a crash left.             *)
ClearedNothing == {}
ClearedEverything == Workloads
Cleared == Tunnels

Start(with) ==
  /\ mode = "down"
  /\ mode' = "up"
  /\ tunnels' = with
  /\ count' = [t \in CountedTypes |-> CachedOf(t, cached) % Word]
  /\ cached' = IF with THEN cached \ Cleared ELSE cached
  /\ ending' = ending \cap cached'
  /\ UNCHANGED <<explorer, servers, late, sources, engine, upsets>>

(* A start that fails, by an access to redis or in wg.New.                 *)
StartFails ==
  /\ mode = "down" /\ TRUE \in TunnelChoices
  /\ "redis" \in Faults /\ Upset
  /\ \E gone \in SUBSET (cached \cap Cleared) :
       /\ cached' = cached \ gone
       /\ ending' = ending \ gone
  /\ UNCHANGED <<explorer, servers, late, count, mode, tunnels, sources, engine>>

(* A signal ends the engine between two jobs; Close deletes the interface, *)
(* and its peers with it.                                                  *)
Disconnected == [r \in Resources |-> IF r \in Keys THEN {} ELSE content[r]]
Stop ==
  /\ mode = "up" /\ job = None
  /\ Upset
  /\ mode' = "down"
  /\ content' = IF tunnels THEN Disconnected ELSE content
  /\ NoJobs
  /\ UNCHANGED <<explorer, holder, cache, late, count, tunnels, engine>>

Dies == mode' = "down" /\ Idle /\ NoJobs
Crash ==
  /\ mode = "up"
  /\ "crash" \in Faults /\ Upset
  /\ Dies
  /\ UNCHANGED <<explorer, servers, cache, late, count, tunnels>>

-----------------------------------------------------------------------------
(* Sources of jobs (main.go, CombinedSource).  The poller hands over what  *)
(* it has not handed over since the start and what is to be deleted,       *)
(* perhaps more; the other source hands over what GetExpired lists.        *)
Open == {w \in Workloads : wanted[w] \in {"deploy", "delete"}}
Owed == {w \in Open : wanted[w] = "delete" \/ w \notin seen}
(* WorkloadToProvisionType: ToDelete.                                      *)
NeverDelete(w) == "deploy"
NextAction(w) == wanted[w]

Poll ==
  /\ mode = "up" /\ batch = {}
  /\ \E listed \in SUBSET Open :
       /\ Owed \subseteq listed
       /\ batch' = {<<w, NextAction(w)>> : w \in listed}
       /\ seen' = seen \cup listed
  /\ UNCHANGED <<explorer, servers, cache, late, count, mode, tunnels, due, engine, upsets>>

ListExpired ==
  /\ mode = "up" /\ due = {}
  /\ ending \cap late # {}
  /\ due' = ending \cap late
  /\ UNCHANGED <<explorer, servers, cache, late, count, mode, tunnels, seen, batch, engine, upsets>>

-----------------------------------------------------------------------------
(* The engine takes a job: nothing is done for a type without provisioner  *)
(* (4to6 when it is disabled), nor is a cached reservation provisioned     *)
(* again.  One that is not cached needs no decommissioning.                *)
Supported(w) == TypeOf[w] # "tunnel" \/ tunnels

Begin(w, todo) ==
  LET point == IF todo = "deploy" THEN "deploy" ELSE IF w \in cached THEN "undeploy" ELSE "tell"
  IN IF ~Supported(w) \/ (todo = "deploy" /\ w \in cached)
     THEN UNCHANGED engine
     ELSE job' = w /\ pc' = point /\ left' = {}

AnyOrder(j) == TRUE
First(j) == \A k \in batch : ProvisionOrder[TypeOf[j[1]]] <= ProvisionOrder[TypeOf[k[1]]]

TakePolled ==
  /\ mode = "up" /\ job = None
  /\ \E j \in batch :
       /\ First(j)
       /\ batch' = batch \ {j}
       /\ Begin(j[1], j[2])
  /\ UNCHANGED <<explorer, servers, cache, late, count, mode, tunnels, seen, due, upsets>>

TakeExpired ==
  /\ mode = "up" /\ job = None
  /\ \E w \in due :
       /\ due' = due \ {w}
       /\ Begin(w, "delete")
  /\ UNCHANGED <<explorer, servers, cache, late, count, mode, tunnels, seen, batch, upsets>>

-----------------------------------------------------------------------------
(* The managers, one call about workload w at a time                       *)

Mine(w) == holder[ResourceOf[w]] = UserOf[w]
Unheld(w) == holder[ResourceOf[w]] = None
ZoneHolder(w) == holder[ZoneOf[ResourceOf[w]]]

(* canUseDomain; AddDomainDelagate and RemoveDomainDelagate.               *)
CanUseAnyDomain(w) == TRUE
CanUseDomain(w) == Unheld(w) \/ Mine(w)

(* AddSubdomain: a name of a managed zone must be free, a name of a        *)
(* delegated zone is for the user that delegated it.                       *)
MayAdd(w) ==
  \/ TypeOf[w] = "tunnel"
  \/ /\ TypeOf[w] = "subdomain"
     /\ ZoneHolder(w) = UserOf[w] \/ (ZoneHolder(w) = Self /\ Unheld(w))
  \/ TypeOf[w] \notin {"tunnel", "subdomain"} /\ CanUseDomain(w)

MayRemove(w) ==
  \/ TypeOf[w] = "tunnel"
  \/ TypeOf[w] = "subdomain" /\ ZoneHolder(w) = None
  \/ CanUseDomain(w)

HoldingAnonymously(w) == holder
HeldBy(w, party) == [holder EXCEPT ![ResourceOf[w]] = party]
HoldingFor(w) == IF TypeOf[w] = "tunnel" THEN holder ELSE HeldBy(w, UserOf[w])

(* AddPeer moves the address of the user to the peer.                      *)
MoveAddress(w) ==
  [r \in Resources |-> IF r = ResourceOf[w] THEN content[r] \cup {ValueOf[w]}
                       ELSE IF r \in Keys THEN content[r] \ {ValueOf[w]} ELSE content[r]]
ContentWith(w) ==
  IF TypeOf[w] = "tunnel" THEN MoveAddress(w)
  ELSE IF TypeOf[w] = "subdomain" THEN [content EXCEPT ![ResourceOf[w]] = @ \cup {ValueOf[w]}]
  ELSE IF TypeOf[w] = "delegate" THEN content
  ELSE [content EXCEPT ![ResourceOf[w]] = {ValueOf[w]}]

(* RemoveSubdomain frees the name with its last record, and keeps it if    *)
(* there is none.                                                          *)
Remaining(w) == content[ResourceOf[w]] \ {ValueOf[w]}
FreesName(w) ==
  ZoneHolder(w) = None \/ (Remaining(w) = {} /\ content[ResourceOf[w]] # {})
HoldingWithout(w) ==
  IF TypeOf[w] = "tunnel" \/ (TypeOf[w] = "subdomain" /\ ~FreesName(w)) THEN holder
  ELSE HeldBy(w, None)
ContentKept(w) == content
ContentWithout(w) ==
  IF TypeOf[w] = "delegate" \/ (TypeOf[w] = "subdomain" /\ ZoneHolder(w) = None)
  THEN content
  ELSE [content EXCEPT ![ResourceOf[w]] = IF TypeOf[w] = "subdomain" THEN Remaining(w) ELSE {}]

(* What a call leaves that does not return: the other calls are one write. *)
AfterAdd(w) == <<HoldingFor(w), ContentWith(w)>>
AfterRemove(w) == <<HoldingWithout(w), ContentWithout(w)>>
CutShortAdd(w) ==
  {servers, AfterAdd(w)}
    \cup (IF TypeOf[w] = "subdomain" THEN {<<HoldingFor(w), content>>} ELSE {})
CutShortRemove(w) ==
  {servers, AfterRemove(w)}
    \cup (IF TypeOf[w] = "subdomain" THEN {<<holder, ContentWithout(w)>>} ELSE {})

(* And one that returns an error: AddSubdomain gives the name back.        *)
FailedAdd(w) ==
  CutShortAdd(w)
    \cup (IF TypeOf[w] = "subdomain"
          THEN {<<HeldBy(w, None), content>>, <<HeldBy(w, None), ContentWith(w)>>} ELSE {})

-----------------------------------------------------------------------------
(* The steps of the engine                                                 *)

CallLeaves(stores) == holder' = stores[1] /\ content' = stores[2]
At(point) == pc = point
GoTo(point) == pc' = point /\ UNCHANGED <<job, left>>
unchangedByCalls == <<explorer, cache, late, count, tunnels>>

Deploy ==
  /\ At("deploy")
  /\ IF MayAdd(job)
     THEN CallLeaves(AfterAdd(job)) /\ pc' = "settle" /\ left' = {"answer", "store"} /\ UNCHANGED job
     ELSE UNCHANGED servers /\ GoTo("refuse")
  /\ UNCHANGED <<unchangedByCalls, mode, sources, upsets>>

DeployFails ==
  /\ At("deploy")
  /\ "redis" \in Faults /\ Upset
  /\ \E stores \in IF MayAdd(job) THEN FailedAdd(job) ELSE {servers} : CallLeaves(stores)
  /\ GoTo("refuse")
  /\ UNCHANGED <<unchangedByCalls, mode, sources>>

(* Feedback of an error.                                                   *)
Refuse ==
  /\ At("refuse")
  /\ answer' = [answer EXCEPT ![job] = "error"]
  /\ Idle
  /\ UNCHANGED <<wanted, servers, cache, late, count, mode, tunnels, sources, upsets>>

Settled(todo) == left' = left \ {todo} /\ pc' = (IF left = {todo} THEN "count" ELSE pc) /\ UNCHANGED job

Answer ==
  /\ At("settle") /\ "answer" \in left
  /\ answer' = [answer EXCEPT ![job] = "ok"]
  /\ Settled("answer")
  /\ UNCHANGED <<wanted, servers, cache, late, count, mode, tunnels, sources, upsets>>

Store ==
  /\ At("settle") /\ "store" \in left
  /\ cached' = cached \cup {job}
  /\ ending' = ending \ {job}
  /\ Settled("store")
  /\ UNCHANGED <<explorer, servers, late, count, mode, tunnels, sources, upsets>>

StoreFails ==
  /\ At("settle") /\ "store" \in left
  /\ "redis" \in Faults /\ Upset
  /\ \/ UNCHANGED cache
     \/ cached' = cached \cup {job} /\ ending' = ending \ {job}
  /\ Idle
  /\ UNCHANGED <<explorer, servers, late, count, mode, tunnels, sources>>

(* Counters.Increment and Decrement, on 64 bits.                           *)
DecrementNoReverse(w) ==
  IF TypeOf[w] \in CountedTypes \ {"reverse"}
  THEN [count EXCEPT ![TypeOf[w]] = (@ - 1) % Word] ELSE count
Increment(w) ==
  IF TypeOf[w] \in CountedTypes THEN [count EXCEPT ![TypeOf[w]] = (@ + 1) % Word] ELSE count
Decrement(w) ==
  IF TypeOf[w] \in CountedTypes THEN [count EXCEPT ![TypeOf[w]] = (@ - 1) % Word] ELSE count

Count ==
  /\ At("count")
  /\ count' = Increment(job)
  /\ Idle
  /\ UNCHANGED <<explorer, servers, cache, late, mode, tunnels, sources, upsets>>

Undeploy ==
  /\ At("undeploy")
  /\ IF MayRemove(job)
     THEN CallLeaves(AfterRemove(job)) /\ GoTo("forget")
     ELSE UNCHANGED servers /\ Idle
  /\ UNCHANGED <<unchangedByCalls, mode, sources, upsets>>

UndeployFails ==
  /\ At("undeploy")
  /\ "redis" \in Faults /\ Upset
  /\ \E stores \in IF MayRemove(job) THEN CutShortRemove(job) ELSE {servers} : CallLeaves(stores)
  /\ Idle
  /\ UNCHANGED <<unchangedByCalls, mode, sources>>

(* The process dies in a call.                                             *)
CrashInCall ==
  /\ "crash" \in Faults /\ Upset
  /\ \/ /\ At("deploy") /\ MayAdd(job)
        /\ \E stores \in CutShortAdd(job) : CallLeaves(stores)
     \/ /\ At("undeploy") /\ MayRemove(job)
        /\ \E stores \in CutShortRemove(job) : CallLeaves(stores)
  /\ Dies
  /\ UNCHANGED unchangedByCalls

Forget ==
  /\ At("forget")
  /\ cached' = cached \ {job}
  /\ ending' = ending \ {job}
  /\ GoTo("uncount")
  /\ UNCHANGED <<explorer, servers, late, count, mode, tunnels, sources, upsets>>

ForgetFails ==
  /\ At("forget")
  /\ "redis" \in Faults /\ Upset
  /\ \/ UNCHANGED cache
     \/ cached' = cached \ {job} /\ ending' = ending \ {job}
  /\ Idle
  /\ UNCHANGED <<explorer, servers, late, count, mode, tunnels, sources>>

Uncount ==
  /\ At("uncount")
  /\ count' = Decrement(job)
  /\ GoTo("tell")
  /\ UNCHANGED <<explorer, servers, cache, late, mode, tunnels, sources, upsets>>

(* Feedback.Deleted                                                        *)
Tell ==
  /\ At("tell")
  /\ wanted' = [wanted EXCEPT ![job] = "deleted"]
  /\ Idle
  /\ UNCHANGED <<answer, servers, cache, late, count, mode, tunnels, sources, upsets>>

(* Feedback does not reach the explorer: the engine gives the job up, or   *)
(* goes on with a deployed one.                                            *)
FeedbackFails ==
  /\ "explorer" \in Faults /\ Upset
  /\ \/ (At("refuse") \/ At("tell") \/ (At("settle") /\ "answer" \in left)) /\ Idle
     \/ At("settle") /\ "answer" \in left /\ Settled("answer")
  /\ UNCHANGED <<explorer, servers, cache, late, count, mode, tunnels, sources>>

Work == Deploy \/ Refuse \/ Answer \/ Store \/ Count \/ Undeploy \/ Forget \/ Uncount \/ Tell
Failures ==
  DeployFails \/ StoreFails \/ UndeployFails \/ ForgetFails \/ FeedbackFails
    \/ StartFails \/ CrashInCall \/ Crash

Next ==
  \/ \E w \in Workloads : Reserve(w) \/ Cancel(w) \/ Expire(w)
  \/ \E with \in TunnelChoices : Start(with)
  \/ Stop
  \/ Poll \/ ListExpired \/ TakePolled \/ TakeExpired
  \/ Work
  \/ Failures

(* The supervisor starts the gateway again; the sources and the engine are *)
(* scheduled, and "select" serves every source that waits.                 *)
Fairness ==
  /\ WF_vars(\E with \in TunnelChoices : Start(with))
  /\ WF_vars(Poll) /\ WF_vars(ListExpired)
  /\ SF_vars(TakePolled) /\ SF_vars(TakeExpired)
  /\ WF_vars(Work)

Safety == Init /\ [][Next]_vars
Spec == Safety /\ Fairness

-----------------------------------------------------------------------------
(* Properties                                                              *)

(* The variables are of their types, and the process has a job only while  *)
(* it is up: src/cmd/tfgateway/main.go run.                                *)
TypeOK ==
  /\ wanted \in [Workloads -> {"none", "deploy", "delete", "deleted"}]
  /\ answer \in [Workloads -> {"none", "ok", "error"}]
  /\ holder \in [Resources -> Users \cup {Self, None}]
  /\ content \in [Resources -> SUBSET {ValueOf[w] : w \in Workloads}]
  /\ mode \in {"down", "up"} /\ tunnels \in BOOLEAN
  /\ ending \subseteq cached /\ cached \subseteq Workloads
  /\ late \subseteq Workloads
  /\ count \in [CountedTypes -> 0 .. Word - 1]
  /\ seen \subseteq Workloads
  /\ batch \subseteq Workloads \X {"deploy", "delete"}
  /\ due \subseteq Workloads
  /\ job \in Workloads \cup {None}
  /\ pc \in {"idle", "deploy", "settle", "refuse", "count", "undeploy", "forget", "uncount", "tell"}
  /\ (pc = "idle") <=> (job = None)
  /\ (mode = "down") => (pc = "idle" /\ batch = {} /\ due = {})
  /\ left \subseteq {"answer", "store"}
  /\ upsets \in 0 .. MaxUpsets

(* Whether a workload is served: its domain or zone is its user's and goes *)
(* where it says, its address is published, its peer has its address.      *)
Deployed(w) ==
  /\ TypeOf[w] # "tunnel" => Mine(w)
  /\ TypeOf[w] \in {"subdomain", "tunnel"} => ValueOf[w] \in content[ResourceOf[w]]
  /\ TypeOf[w] \in {"proxy", "reverse"} => content[ResourceOf[w]] = {ValueOf[w]}

(* Another workload may undo what this one did: one of the same user about *)
(* the same thing, or, as peers are removed by their key whoever added     *)
(* them and an address follows its user, one about the same peer.          *)
Rivals(v, w) ==
  /\ v # w
  /\ \/ ResourceOf[v] = ResourceOf[w] /\ (UserOf[v] = UserOf[w] \/ TypeOf[w] = "tunnel")
     \/ TypeOf[v] = "tunnel" /\ TypeOf[w] = "tunnel" /\ UserOf[v] = UserOf[w]
Contested(w) == \E v \in Workloads : v \in Reserved /\ Rivals(v, w)

(* Names of delegated zones go with their zone.                            *)
Lasting(w) == TypeOf[w] = "subdomain" => ZoneOf[ResourceOf[w]] \in ManagedZones

Claimed(w) ==
  /\ wanted[w] = "deploy" /\ w \notin late
  /\ ~Contested(w) /\ Lasting(w)
  /\ TypeOf[w] = "tunnel" => mode = "up" /\ tunnels

(* A cached reservation is deployed, whatever failed and wherever the      *)
(* gateway died: the engine skips what is cached, so nothing else would    *)
(* ever deploy it (provision.go, the managers, ClearByType).               *)
CachedIsDeployed == \A w \in cached : Claimed(w) => Deployed(w)

(* Why: everything under way was reserved, what is being removed is not    *)
(* wanted or has expired, what is being provisioned is not cached, zones   *)
(* of the gateway stay its own, and what has just been provisioned, and    *)
(* will be cached, is deployed (provision.go and the engine).              *)
UnderWay ==
  /\ cached \cup late \cup due \subseteq Reserved
  /\ \A j \in batch : j[1] \in Reserved /\ (j[2] = "delete" => wanted[j[1]] # "deploy")
  /\ due \subseteq late
Progress ==
  /\ job # None => job \in Reserved
  /\ pc = "deploy" => job \notin cached
  /\ pc \in {"undeploy", "forget", "uncount", "tell"} => wanted[job] # "deploy" \/ job \in late
Kept == IF pc = "settle" THEN cached \cup {job} ELSE cached
IInv ==
  /\ TypeOK
  /\ UnderWay
  /\ Progress
  /\ \A z \in ManagedZones : holder[z] = Self
  /\ \A w \in Kept : Claimed(w) => Deployed(w)

(* What the explorer was told is deleted is gone, unless a reservation had *)
(* expired while the poller offered it (decommissioners of this program).  *)
DeletedLeavesNothing ==
  job = None =>
    \A w \in Workloads :
      wanted[w] = "deleted" /\ w \notin late /\ ~Contested(w) /\ Lasting(w) => ~Deployed(w)

(* Between two jobs, the reported number of workloads of a type is that of *)
(* the cached reservations, on 16 bits (Counters, Sync).                   *)
Reported(type) == count[type] % Cut
CountersMatchCache ==
  mode = "up" /\ job = None =>
    \A t \in CountedTypes : Reported(t) = CachedOf(t, cached) % Cut

(* A workload the explorer was told is deployed, and wants deployed, is    *)
(* never reported as failed, over any number of restarts (the cache and    *)
(* ClearByType decide what is provisioned again).                          *)
AnswerStands ==
  [][\A w \in Workloads :
       answer[w] = "ok" /\ wanted[w] = "deploy" => answer'[w] = "ok"]_vars

(* A subdomain reserved under a delegation that is wanted, and does not     *)
(* fail, is never refused, though one poll may return both and a restart   *)
(* polls both again (ProvisionOrder: delegations are provisioned first).   *)
Delegates(z, n) ==
  /\ TypeOf[z] = "delegate" /\ TypeOf[n] = "subdomain"
  /\ ResourceOf[z] = ZoneOf[ResourceOf[n]] /\ UserOf[z] = UserOf[n]
DelegationFirst ==
  \A n, z \in Workloads :
    Delegates(z, n) =>
      ([](wanted[n] # "none" => wanted[z] = "deploy" /\ answer[z] # "error" /\ ~Contested(z))
         => [](answer[n] # "error"))

(* A cancelled workload is deleted in the end, unless its domain, name or  *)
(* zone has meanwhile gone to another user.                                *)
HeldByOther(w) == TypeOf[w] # "tunnel" /\ ~Unheld(w) /\ ~Mine(w)
CancelledIsDeleted ==
  \A w \in Workloads : wanted[w] = "delete" ~> wanted[w] = "deleted" \/ HeldByOther(w)

(* 4to6 workloads are served again after every restart (main.go: they are  *)
(* cleared from the cache "so they are always re-provisionned").           *)
TunnelsComeBack ==
  \A w \in Tunnels : <>[](wanted[w] = "deploy" /\ ~Contested(w)) => <>[]Deployed(w)

=============================================================================
