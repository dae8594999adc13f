------------------------- MODULE GatewayDeletedProofs -------------------------
(***************************************************************************)
(* Without failures, what the explorer was told is deleted is gone: the    *)
(* proof of DeletedLeavesNothing of Gateway.                               *)
(***************************************************************************)
EXTENDS GatewayProofs

USE WorkloadsAssumption, ResourcesAssumption, PartiesAssumption

(* What another workload's reservation or an expiry does not excuse.       *)
Due(w) == w \notin late /\ ~Contested(w) /\ Lasting(w)

(* What is deployed is cached, but for the workload about to be stored; a  *)
(* workload the engine is about to forget is not deployed.                 *)
DeployedInv ==
  /\ \A w \in Workloads :
       w \in Reserved /\ Due(w) /\ Deployed(w) => w \in cached \/ (job = w /\ pc = "settle")
  /\ pc = "forget" /\ Due(job) => ~Deployed(job)

(* Servers hold nothing but for workloads that were reserved, and nothing  *)
(* of tunnels without an interface.                                        *)
OriginInv ==
  /\ \A r \in Resources : holder[r] \in Users =>
       \E v \in Reserved : ResourceOf[v] = r /\ UserOf[v] = holder[r]
  /\ \A k \in Keys : content[k] # {} => \E v \in Reserved : ResourceOf[v] = k
  /\ mode = "down" \/ ~tunnels => \A k \in Keys : content[k] = {}
  /\ job # None /\ TypeOf[job] = "tunnel" => tunnels

(* What was deleted, unless it had expired, is not handed over to be       *)
(* deployed again, nor cached.                                             *)
Removing == {"undeploy", "forget", "uncount", "tell"}
GoneInv ==
  /\ \A w \in Workloads : <<w, "deploy">> \notin batch \/ <<w, "delete">> \notin batch
  /\ pc \in Removing /\ job \notin late => <<job, "deploy">> \notin batch
  /\ pc \in {"uncount", "tell"} => job \notin cached
  /\ \A w \in Workloads :
       wanted[w] = "deleted" /\ w \notin late =>
         w \notin cached /\ (job = w => pc = "tell") /\ <<w, "deploy">> \notin batch

-----------------------------------------------------------------------------
(* What a call leaves of other workloads                                   *)

(* A provisioner changes the holder of its own resource only, and publishes *)
(* nothing elsewhere; it takes the address of a peer from the other peers. *)
LEMMA AddLeaves ==
  ASSUME TypeOK, NEW v \in Workloads, CallLeaves(AfterAdd(v))
  PROVE  /\ \A r \in Resources \ {ResourceOf[v]} :
              /\ holder'[r] = holder[r] /\ content'[r] \subseteq content[r]
              /\ r \notin Keys => content'[r] = content[r]
         /\ TypeOf[v] # "tunnel" => holder'[ResourceOf[v]] = UserOf[v]
         /\ TypeOf[v] = "tunnel" => UNCHANGED holder
<1>1. holder' = HoldingFor(v) /\ content' = ContentWith(v)
  BY DEF CallLeaves, AfterAdd
<1>2. /\ \A r \in Resources \ {ResourceOf[v]} : holder'[r] = holder[r]
      /\ TypeOf[v] # "tunnel" => holder'[ResourceOf[v]] = UserOf[v]
      /\ TypeOf[v] = "tunnel" => UNCHANGED holder
  BY <1>1, ResourceClass DEF HoldingFor, HeldBy, TypeOK
<1>3. ASSUME NEW r \in Resources \ {ResourceOf[v]}
      PROVE  content'[r] \subseteq content[r] /\ (r \notin Keys => content'[r] = content[r])
  <2>1. CASE TypeOf[v] = "tunnel"
    BY <1>1, <2>1 DEF ContentWith, MoveAddress
  <2>2. CASE TypeOf[v] # "tunnel"
    BY <1>1, <2>2, ResourceClass DEF ContentWith, TypeOK
  <2> QED BY <2>1, <2>2
<1> QED BY <1>2, <1>3

(* A decommissioner touches its own resource only, which it may leave to   *)
(* its holder or to nobody; it publishes nothing.                          *)
LEMMA RemoveLeaves ==
  ASSUME TypeOK, NEW v \in Workloads, CallLeaves(AfterRemove(v))
  PROVE  /\ \A r \in Resources \ {ResourceOf[v]} : holder'[r] = holder[r] /\ content'[r] = content[r]
         /\ holder'[ResourceOf[v]] \in {holder[ResourceOf[v]], None}
         /\ content'[ResourceOf[v]] \subseteq content[ResourceOf[v]]
         /\ TypeOf[v] \notin {"tunnel", "subdomain"} => holder'[ResourceOf[v]] = None
<1>1. holder' = HoldingWithout(v) /\ content' = ContentWithout(v)
  BY DEF CallLeaves, AfterRemove
<1>2. /\ \A r \in Resources \ {ResourceOf[v]} : holder'[r] = holder[r]
      /\ holder'[ResourceOf[v]] \in {holder[ResourceOf[v]], None}
      /\ TypeOf[v] \notin {"tunnel", "subdomain"} => holder'[ResourceOf[v]] = None
  BY <1>1, ResourceClass DEF HoldingWithout, HeldBy, TypeOK
<1>3. /\ \A r \in Resources \ {ResourceOf[v]} : content'[r] = content[r]
      /\ content'[ResourceOf[v]] \subseteq content[ResourceOf[v]]
  BY <1>1, ResourceClass DEF ContentWithout, Remaining, TypeOK
<1> QED BY <1>2, <1>3

(* So no call deploys a workload it is not about, unless they are rivals.  *)
LEMMA NoneElseDeployed ==
  ASSUME TypeOK, NEW v \in Workloads, NEW w \in Workloads, v # w, ~Rivals(v, w),
         CallLeaves(AfterAdd(v)) \/ CallLeaves(AfterRemove(v)), Deployed(w)'
  PROVE  Deployed(w)
<1>1. ResourceOf[w] \in Resources /\ (TypeOf[w] # "tunnel" => ResourceOf[w] \notin Keys)
  BY ResourceClass DEF Types
<1>2. CASE ResourceOf[v] # ResourceOf[w]
  <2>1. /\ holder'[ResourceOf[w]] = holder[ResourceOf[w]]
        /\ content'[ResourceOf[w]] \subseteq content[ResourceOf[w]]
        /\ TypeOf[w] # "tunnel" => content'[ResourceOf[w]] = content[ResourceOf[w]]
    BY <1>1, <1>2, AddLeaves, RemoveLeaves
  <2> QED BY <2>1 DEF Deployed, Mine
<1>3. CASE ResourceOf[v] = ResourceOf[w]
  <2>1. UserOf[v] # UserOf[w] /\ TypeOf[w] # "tunnel" /\ holder'[ResourceOf[w]] = UserOf[w]
    BY <1>3 DEF Rivals, Deployed, Mine
  <2>2. TypeOf[v] # "tunnel" /\ (TypeOf[v] = "subdomain" <=> TypeOf[w] = "subdomain")
    BY <1>3, <2>1, ResourceClass DEF Types
  <2>3. CallLeaves(AfterRemove(v))
    BY <1>3, <2>1, <2>2, AddLeaves
  <2>4. UserOf[w] # None
    BY ResourceClass
  <2>5. TypeOf[v] = "subdomain" /\ TypeOf[w] = "subdomain"
    BY <1>3, <2>1, <2>2, <2>3, <2>4, RemoveLeaves
  <2> QED BY <1>3, <2>1, <2>3, <2>4, <2>5, RemoveLeaves DEF Deployed, Mine
<1> QED BY <1>2, <1>3

(* A decommissioned workload is not deployed, if its zone is the gateway's. *)
LEMMA RemovedIsGone ==
  ASSUME IInv, NEW v \in Workloads, Lasting(v), CallLeaves(AfterRemove(v))
  PROVE  ~Deployed(v)'
<1>1. TypeOK
  BY DEF IInv
<1>2. CASE TypeOf[v] \notin {"tunnel", "subdomain"}
  <2>1. holder'[ResourceOf[v]] = None /\ UserOf[v] # None
    BY <1>1, <1>2, RemoveLeaves, ResourceClass
  <2> QED BY <1>2, <2>1 DEF Deployed, Mine
<1>3. CASE TypeOf[v] = "tunnel"
  <2>1. content'[ResourceOf[v]] = {}
    BY <1>1, <1>3, ResourceClass DEF CallLeaves, AfterRemove, ContentWithout, TypeOK
  <2> QED BY <1>3, <2>1 DEF Deployed
<1>4. CASE TypeOf[v] = "subdomain"
  <2>1. ZoneHolder(v) # None
    BY <1>4 DEF IInv, Lasting, ZoneHolder
  <2>2. content'[ResourceOf[v]] = Remaining(v)
    BY <1>1, <1>4, <2>1, ResourceClass DEF CallLeaves, AfterRemove, ContentWithout, TypeOK
  <2> QED BY <1>4, <2>2 DEF Deployed, Remaining
<1> QED BY <1>2, <1>3, <1>4

-----------------------------------------------------------------------------
(* The steps                                                               *)

(* What a step does to the stores: a call returns, a stop takes the peers, *)
(* and every other step leaves them alone.                                 *)
LEMMA StoresNext ==
  ASSUME Faults = {}, TypeOK, [Next]_vars
  PROVE  \/ UNCHANGED servers
         \/ Stop /\ tunnels /\ holder' = holder /\ content' = Disconnected
         \/ Deploy /\ MayAdd(job) /\ CallLeaves(AfterAdd(job))
         \/ Undeploy /\ MayRemove(job) /\ CallLeaves(AfterRemove(job))
<1> DEFINE Goal == \/ UNCHANGED servers
                   \/ Stop /\ tunnels /\ holder' = holder /\ content' = Disconnected
                   \/ Deploy /\ MayAdd(job) /\ CallLeaves(AfterAdd(job))
                   \/ Undeploy /\ MayRemove(job) /\ CallLeaves(AfterRemove(job))
<1> SUFFICES Goal
  OBVIOUS
<1>1. ASSUME NEW w \in Workloads, Reserve(w) \/ Cancel(w) \/ Expire(w) PROVE Goal
  BY <1>1 DEF Reserve, Cancel, Expire
<1>2. ASSUME NEW with \in TunnelChoices, Start(with) PROVE Goal
  BY <1>2 DEF Start
<1>3. CASE Stop
  BY <1>3 DEF Stop, servers
<1>4. CASE Poll \/ ListExpired \/ TakePolled \/ TakeExpired \/ UNCHANGED vars
  BY <1>4 DEF Poll, ListExpired, TakePolled, TakeExpired, vars
<1>5. CASE Deploy
  BY <1>5 DEF Deploy
<1>6. CASE Undeploy
  BY <1>6 DEF Undeploy
<1>7. CASE Refuse \/ Answer \/ Store \/ Count \/ Forget \/ Uncount \/ Tell
  BY <1>7 DEF Refuse, Answer, Store, Count, Forget, Uncount, Tell
<1> HIDE DEF Goal
<1> QED BY <1>1, <1>2, <1>3, <1>4, <1>5, <1>6, <1>7, NoFailures DEF Next, Work

(* What it does to the process: a stop, a start, or nothing.               *)
LEMMA ProcessNext ==
  ASSUME Faults = {}, TypeOK, [Next]_vars
  PROVE  \/ Stop /\ UNCHANGED engine
         \/ mode = "down" /\ UNCHANGED <<servers, engine>>
         \/ UNCHANGED <<mode, tunnels>>
<1> DEFINE Goal == \/ Stop /\ UNCHANGED engine
                   \/ mode = "down" /\ UNCHANGED <<servers, engine>>
                   \/ UNCHANGED <<mode, tunnels>>
<1> SUFFICES Goal
  OBVIOUS
<1>1. ASSUME NEW w \in Workloads, Reserve(w) \/ Cancel(w) \/ Expire(w) PROVE Goal
  BY <1>1 DEF Reserve, Cancel, Expire
<1>2. ASSUME NEW with \in TunnelChoices, Start(with) PROVE Goal
  BY <1>2 DEF Start
<1>3. CASE Stop
  BY <1>3 DEF Stop
<1>4. CASE Poll \/ ListExpired \/ TakePolled \/ TakeExpired \/ UNCHANGED vars
  BY <1>4 DEF Poll, ListExpired, TakePolled, TakeExpired, vars
<1>5. CASE Deploy \/ Undeploy
  BY <1>5 DEF Deploy, Undeploy, unchangedByCalls
<1>6. CASE Refuse \/ Answer \/ Store \/ Count \/ Forget \/ Uncount \/ Tell
  BY <1>6 DEF Refuse, Answer, Store, Count, Forget, Uncount, Tell
<1> HIDE DEF Goal
<1> QED BY <1>1, <1>2, <1>3, <1>4, <1>5, <1>6, NoFailures DEF Next, Work

(* A step of the engine keeps its job, ends it, or takes a supported one.  *)
LEMMA JobNext ==
  ASSUME Faults = {}, TypeOK, [Next]_vars
  PROVE  job' \in {job, None} \/ (Supported(job') /\ UNCHANGED <<mode, tunnels>>)
<1> DEFINE Goal == job' \in {job, None} \/ (Supported(job') /\ UNCHANGED <<mode, tunnels>>)
<1> SUFFICES Goal
  OBVIOUS
<1>1. ASSUME NEW w \in Workloads, Reserve(w) \/ Cancel(w) \/ Expire(w) PROVE Goal
  BY <1>1 DEF Reserve, Cancel, Expire, engine
<1>2. ASSUME NEW with \in TunnelChoices, Start(with) PROVE Goal
  BY <1>2 DEF Start, engine
<1>3. CASE Stop \/ Poll \/ ListExpired \/ UNCHANGED vars
  BY <1>3 DEF Stop, Poll, ListExpired, vars, engine
<1>4. CASE TakePolled \/ TakeExpired
  BY <1>4 DEF TakePolled, TakeExpired, Begin, engine
<1>5. CASE Deploy \/ Undeploy
  BY <1>5 DEF Deploy, Undeploy, GoTo, Idle
<1>6. CASE Refuse \/ Answer \/ Store \/ Count \/ Forget \/ Uncount \/ Tell
  BY <1>6 DEF Refuse, Answer, Store, Count, Forget, Uncount, Tell, Idle, Settled, GoTo
<1> HIDE DEF Goal
<1> QED BY <1>1, <1>2, <1>3, <1>4, <1>5, <1>6, NoFailures DEF Next, Work

(* Reservations, lateness and contests only grow.                          *)
LEMMA DueBefore ==
  ASSUME IInv, [Next]_vars
  PROVE  /\ Reserved \subseteq Reserved' /\ Reserved \subseteq Workloads
         /\ \A w \in Workloads : Due(w)' => Due(w)
<1>1. TypeOK /\ Progress
  BY DEF IInv
<1>2. Reserved \subseteq Reserved' /\ Reserved \subseteq Workloads
  BY <1>1, NoWayBack DEF Reserved
<1>3. ASSUME NEW w \in Workloads, Due(w)' PROVE Due(w)
  BY <1>1, <1>2, <1>3, NoWayBack DEF Due, Contested, Rivals, Lasting
<1> QED BY <1>2, <1>3

(* Servers keep holding nothing but for reserved workloads.                *)
LEMMA OriginNext ==
  ASSUME Faults = {}, IInv, OriginInv, [Next]_vars
  PROVE  OriginInv'
<1>1. TypeOK /\ Progress
  BY DEF IInv
<1>2. Reserved \subseteq Reserved' /\ Reserved \subseteq Workloads
  BY DueBefore
<1>3. \/ /\ \A r \in Resources : holder'[r] \in {holder[r], None}
         /\ \A k \in Keys : content'[k] \subseteq content[k]
      \/ /\ Deploy /\ job \in Reserved /\ mode = "up" /\ ResourceOf[job] \in Resources
         /\ TypeOf[job] # "tunnel" => ResourceOf[job] \notin Keys
         /\ CallLeaves(AfterAdd(job))
  <2>1. CASE UNCHANGED servers
    BY <2>1 DEF servers
  <2>2. CASE Stop /\ tunnels /\ holder' = holder /\ content' = Disconnected
    BY <2>2 DEF Disconnected, Resources
  <2>3. CASE Deploy /\ MayAdd(job) /\ CallLeaves(AfterAdd(job))
    <3>1. job \in Reserved /\ mode = "up"
      BY <1>1, <2>3 DEF Deploy, At, TypeOK, Progress
    <3> QED BY <1>2, <2>3, <3>1, ResourceClass DEF Types
  <2>4. CASE Undeploy /\ MayRemove(job) /\ CallLeaves(AfterRemove(job))
    <3>1. job \in Workloads
      BY <1>1, <2>4 DEF Undeploy, At, TypeOK
    <3>2. \A r \in Resources : holder'[r] \in {holder[r], None} /\ content'[r] \subseteq content[r]
      BY <1>1, <2>4, <3>1, RemoveLeaves
    <3> QED BY <3>2 DEF Resources
  <2> QED BY <1>1, <2>1, <2>2, <2>3, <2>4, StoresNext
<1>4. ASSUME NEW r \in Resources, holder'[r] \in Users
      PROVE  \E v \in Reserved' : ResourceOf[v] = r /\ UserOf[v] = holder'[r]
  <2>1. holder'[r] = holder[r] \/ (job \in Reserved /\ ResourceOf[job] = r /\ UserOf[job] = holder'[r])
    BY <1>1, <1>2, <1>3, <1>4, AddLeaves
  <2> QED BY <1>2, <1>4, <2>1 DEF OriginInv
<1>5. ASSUME NEW k \in Keys
      PROVE  \/ content'[k] \subseteq content[k]
             \/ Deploy /\ job \in Reserved /\ ResourceOf[job] = k /\ TypeOf[job] = "tunnel" /\ mode = "up"
  BY <1>1, <1>2, <1>3, AddLeaves DEF Resources
<1>6. ASSUME NEW k \in Keys, content'[k] # {} PROVE \E v \in Reserved' : ResourceOf[v] = k
  BY <1>2, <1>5, <1>6 DEF OriginInv
<1>7. ASSUME mode' = "down" \/ ~tunnels', NEW k \in Keys PROVE content'[k] = {}
  <2>1. CASE Stop
    BY <1>7, <2>1 DEF Stop, Disconnected, Resources, OriginInv
  <2>2. CASE mode = "down" /\ UNCHANGED <<servers, engine>>
    BY <2>2 DEF servers, OriginInv
  <2>3. CASE UNCHANGED <<mode, tunnels>>
    <3>1. content[k] = {}
      BY <1>7, <2>3 DEF OriginInv
    <3>2. ~(Deploy /\ TypeOf[job] = "tunnel" /\ mode = "up")
      BY <1>1, <1>7, <2>3 DEF Deploy, At, TypeOK, OriginInv
    <3> QED BY <1>5, <3>1, <3>2
  <2> QED BY <1>1, <2>1, <2>2, <2>3, ProcessNext
<1>8. job' # None /\ TypeOf[job'] = "tunnel" => tunnels'
  <2>1. CASE Supported(job') /\ UNCHANGED <<mode, tunnels>>
    BY <2>1 DEF Supported
  <2>2. CASE job' \in {job, None} /\ UNCHANGED <<mode, tunnels>>
    BY <2>2 DEF OriginInv
  <2>3. CASE Stop /\ UNCHANGED engine
    BY <2>3 DEF Stop, engine
  <2>4. CASE mode = "down" /\ UNCHANGED <<servers, engine>>
    BY <1>1, <2>4 DEF TypeOK, engine
  <2> QED BY <1>1, <2>1, <2>2, <2>3, <2>4, ProcessNext, JobNext
<1> QED BY <1>4, <1>6, <1>7, <1>8 DEF OriginInv

(* Only Reserve makes a reservation.                                       *)
LEMMA ReservedNext ==
  ASSUME Faults = {}, IInv, [Next]_vars, NEW w \in Workloads, w \notin Reserved, w \in Reserved'
  PROVE  Reserve(w)
<1>1. wanted[w] = "none" /\ wanted'[w] # "none" /\ TypeOK /\ Progress
  BY DEF Reserved, IInv
<1>2. ASSUME NEW v \in Workloads, Reserve(v) PROVE Reserve(w)
  BY <1>1, <1>2 DEF Reserve, TypeOK
<1>3. ASSUME NEW v \in Workloads, Cancel(v) \/ Expire(v) PROVE FALSE
  BY <1>1, <1>3 DEF Cancel, Expire, TypeOK, explorer
<1>4. ASSUME NEW with \in TunnelChoices, Start(with) PROVE FALSE
  BY <1>1, <1>4 DEF Start, explorer
<1>5. ASSUME Tell PROVE FALSE
  BY <1>1, <1>5 DEF Tell, TypeOK, At, Progress, Reserved
<1>6. ASSUME Stop \/ Poll \/ ListExpired \/ TakePolled \/ TakeExpired \/ UNCHANGED vars PROVE FALSE
  BY <1>1, <1>6 DEF Stop, Poll, ListExpired, TakePolled, TakeExpired, vars, explorer
<1>7. ASSUME Deploy \/ Undeploy \/ Refuse \/ Answer \/ Store \/ Count \/ Forget \/ Uncount PROVE FALSE
  BY <1>1, <1>7 DEF Deploy, Undeploy, Refuse, Answer, Store, Count, Forget, Uncount,
                    unchangedByCalls, explorer
<1> QED BY <1>2, <1>3, <1>4, <1>5, <1>6, <1>7, NoFailures DEF Next, Work

(* A workload just reserved finds nothing of its own: the servers hold     *)
(* nothing for its user there, and its peer has no address.                *)
LEMMA NothingAtFirst ==
  ASSUME Faults = {}, IInv, OriginInv, [Next]_vars,
         NEW w \in Workloads, w \notin Reserved, w \in Reserved', Due(w)'
  PROVE  ~Deployed(w)'
<1>1. Reserve(w) /\ Due(w) /\ Reserved \subseteq Workloads
  BY ReservedNext, DueBefore
<1>2. ResourceOf[w] \in Resources /\ UserOf[w] \in Users
      /\ (TypeOf[w] = "tunnel" => ResourceOf[w] \in Keys)
  BY ResourceClass
<1>3. SUFFICES ASSUME Deployed(w) PROVE FALSE
  BY <1>1 DEF Reserve, servers, Deployed, Mine
<1>4. PICK v \in Reserved : ResourceOf[v] = ResourceOf[w]
                            /\ (UserOf[v] = UserOf[w] \/ TypeOf[w] = "tunnel")
  BY <1>2, <1>3 DEF OriginInv, Deployed, Mine
<1> QED BY <1>1, <1>4 DEF Due, Contested, Rivals

(* What was reserved before a step and is deployed after it was deployed   *)
(* before, or is what the step deploys.                                    *)
LEMMA DeployedBefore ==
  ASSUME Faults = {}, IInv, [Next]_vars, NEW w \in Workloads, w \in Reserved, Due(w)', Deployed(w)'
  PROVE  Deployed(w) \/ (Deploy /\ job = w /\ MayAdd(w))
<1>1. TypeOK /\ Due(w)
  BY DueBefore DEF IInv
<1>2. ResourceOf[w] \in Resources /\ (TypeOf[w] # "tunnel" => ResourceOf[w] \notin Keys)
  BY ResourceClass DEF Types
<1>3. CASE UNCHANGED servers
  BY <1>3 DEF servers, Deployed, Mine
<1>4. CASE Stop /\ tunnels /\ holder' = holder /\ content' = Disconnected
  BY <1>2, <1>4 DEF Disconnected, Deployed, Mine
<1>5. ASSUME job # w, Deploy \/ Undeploy, CallLeaves(AfterAdd(job)) \/ CallLeaves(AfterRemove(job))
      PROVE  Deployed(w)
  <2>1. job \in Reserved /\ job \in Workloads
    BY <1>1, <1>5 DEF IInv, Progress, Deploy, Undeploy, At, TypeOK
  <2>2. ~Rivals(job, w)
    BY <1>1, <2>1 DEF Due, Contested
  <2> QED BY <1>1, <1>5, <2>1, <2>2, NoneElseDeployed
<1>6. CASE Undeploy /\ job = w /\ CallLeaves(AfterRemove(job))
  BY <1>1, <1>6, RemovedIsGone DEF Due
<1> QED BY <1>1, <1>3, <1>4, <1>5, <1>6, StoresNext

(* Steps other than provisioning keep what is deployed in the cache, or at *)
(* the point where it is stored: a start clears tunnels only, which no     *)
(* longer have an interface, and what is forgotten is not deployed.        *)
Accounted(w) == w \in cached \/ (job = w /\ pc = "settle")
LEMMA AccountedNext ==
  ASSUME Faults = {}, IInv, AnswerInv, OriginInv, DeployedInv, [Next]_vars, ~Deploy,
         NEW w \in Workloads, Accounted(w), Due(w), Deployed(w)
  PROVE  Accounted(w)'
<1>1. TypeOK
  BY DEF IInv
<1>2. CASE UNCHANGED <<job, pc, cached>>
  BY <1>2 DEF Accounted
<1>3. ASSUME NEW v \in Workloads, Reserve(v) \/ Cancel(v) \/ Expire(v)
      PROVE  UNCHANGED <<job, pc, cached>>
  BY <1>3 DEF Reserve, Cancel, Expire, cache, engine
<1>4. ASSUME NEW with \in TunnelChoices, Start(with) PROVE Accounted(w)'
  <2>1. job = None /\ mode = "down" /\ w \in cached
    BY <1>1, <1>4 DEF Start, TypeOK, Accounted
  <2>2. TypeOf[w] # "tunnel"
    BY <2>1, ResourceClass DEF OriginInv, Deployed
  <2> QED BY <1>4, <2>1, <2>2 DEF Start, Cleared, Tunnels, Accounted
<1>5. CASE Stop \/ Poll \/ ListExpired \/ UNCHANGED vars
  BY <1>2, <1>5 DEF Stop, Poll, ListExpired, vars, cache, engine
<1>6. CASE TakePolled \/ TakeExpired
  BY <1>6 DEF TakePolled, TakeExpired, cache, Accounted
<1>7. CASE Undeploy \/ Refuse \/ Count \/ Uncount \/ Tell
  BY <1>7 DEF Undeploy, Refuse, Count, Uncount, Tell, At, unchangedByCalls, cache, Accounted
<1>8. CASE Answer
  BY <1>8 DEF Answer, At, Settled, AnswerInv, cache, Accounted
<1>9. CASE Store
  BY <1>9 DEF Store, At, Accounted
<1>10. CASE Forget
  <2>1. job # w
    BY <1>10 DEF Forget, At, DeployedInv
  <2> QED BY <1>10, <2>1 DEF Forget, At, Accounted
<1> QED BY <1>2, <1>3, <1>4, <1>5, <1>6, <1>7, <1>8, <1>9, <1>10, NoFailures DEF Next, Work

(* Only a decommissioner leads to where the engine forgets its job.        *)
LEMMA ForgetFollows ==
  ASSUME Faults = {}, TypeOK, [Next]_vars, pc' = "forget"
  PROVE  UNCHANGED <<job, pc>> \/ (Undeploy /\ job' = job /\ CallLeaves(AfterRemove(job)))
<1>1. ASSUME NEW w \in Workloads, Reserve(w) \/ Cancel(w) \/ Expire(w) PROVE UNCHANGED <<job, pc>>
  BY <1>1 DEF Reserve, Cancel, Expire, engine
<1>2. ASSUME NEW with \in TunnelChoices, Start(with) PROVE UNCHANGED <<job, pc>>
  BY <1>2 DEF Start, engine
<1>3. CASE Stop \/ Poll \/ ListExpired \/ UNCHANGED vars
  BY <1>3 DEF Stop, Poll, ListExpired, vars, engine
<1>4. CASE TakePolled \/ TakeExpired
  BY <1>4 DEF TakePolled, TakeExpired, Begin, engine
<1>5. CASE Undeploy
  BY <1>5 DEF Undeploy, GoTo, Idle
<1>6. ASSUME Deploy \/ Refuse \/ Answer \/ Store \/ Count \/ Forget \/ Uncount \/ Tell PROVE FALSE
  BY <1>6 DEF Deploy, Refuse, Answer, Store, Count, Forget, Uncount, Tell, GoTo, Idle, Settled, At
<1> QED BY <1>1, <1>2, <1>3, <1>4, <1>5, <1>6, NoFailures DEF Next, Work

(* What is deployed stays cached until the engine has removed it.          *)
LEMMA DeployedNext ==
  ASSUME Faults = {}, IInv, AnswerInv, OriginInv, DeployedInv, [Next]_vars
  PROVE  DeployedInv'
<1>1. TypeOK /\ Progress /\ TypeOK'
  BY TypeNext DEF IInv
<1>2. ASSUME NEW w \in Workloads, w \in Reserved, Due(w)', Deployed(w)' PROVE Accounted(w)'
  <2>1. Due(w) /\ (Deployed(w) \/ (Deploy /\ job = w /\ MayAdd(w)))
    BY <1>2, DueBefore, DeployedBefore
  <2>2. Accounted(w) \/ (Deploy /\ job = w /\ MayAdd(w))
    BY <1>2, <2>1 DEF DeployedInv, Accounted
  <2>3. CASE Deploy
    BY <2>2, <2>3 DEF Deploy, GoTo, At, unchangedByCalls, cache, Accounted
  <2>4. CASE ~Deploy
    BY <2>1, <2>2, <2>4, AccountedNext
  <2> QED BY <2>3, <2>4
<1>3. ASSUME pc' = "forget", Due(job)', Deployed(job)' PROVE FALSE
  <2>1. PICK w \in Workloads : job' = w
    BY <1>1, <1>3 DEF TypeOK
  <2>2. Due(w)' /\ Deployed(w)'
    BY <1>3, <2>1 DEF Due, Contested, Rivals, Lasting, Deployed, Mine
  <2>3. Due(w)
    BY <2>2, DueBefore
  <2>4. CASE Undeploy /\ job' = job /\ CallLeaves(AfterRemove(job))
    <3>1. CallLeaves(AfterRemove(w)) /\ Lasting(w)
      BY <2>1, <2>3, <2>4 DEF Due
    <3> QED BY <2>2, <3>1, RemovedIsGone
  <2>5. CASE UNCHANGED <<job, pc>>
    <3>1. job = w /\ pc = "forget" /\ w \in Reserved /\ ~Deploy
      BY <1>1, <1>3, <2>1, <2>5 DEF Progress, Deploy, At
    <3>2. Deployed(w)
      BY <2>2, <3>1, DeployedBefore
    <3> QED BY <2>3, <3>1, <3>2 DEF DeployedInv
  <2> QED BY <1>1, <1>3, <2>4, <2>5, ForgetFollows
<1>4. ASSUME NEW w \in Workloads, w \in Reserved', Due(w)', Deployed(w)' PROVE Accounted(w)'
  BY <1>2, <1>4, NothingAtFirst
<1> QED BY <1>3, <1>4 DEF DeployedInv, Accounted

(* What was deleted does not come back: nothing hands it over to be        *)
(* deployed, and nothing caches it.                                        *)
LEMMA GoneNext ==
  ASSUME Faults = {}, IInv, GoneInv, [Next]_vars
  PROVE  GoneInv'
<1>1. TypeOK /\ UnderWay /\ Progress
  BY DEF IInv
<1>2. ASSUME UNCHANGED <<job, pc>>, batch' \in {batch, {}}, late \subseteq late',
             cached' \subseteq cached,
             \A w \in Workloads : wanted'[w] = "deleted" => wanted[w] = "deleted"
      PROVE  GoneInv'
  BY <1>2 DEF GoneInv, Removing
<1>3. ASSUME NEW w \in Workloads, Reserve(w) \/ Cancel(w) \/ Expire(w) PROVE GoneInv'
  BY <1>1, <1>2, <1>3 DEF Reserve, Cancel, Expire, TypeOK, explorer, cache, sources, engine
<1>4. ASSUME NEW with \in TunnelChoices, Start(with) PROVE GoneInv'
  BY <1>2, <1>4 DEF Start, explorer, sources, engine
<1>5. CASE Stop \/ ListExpired \/ UNCHANGED vars
  BY <1>2, <1>5 DEF Stop, NoJobs, ListExpired, vars, explorer, cache, sources, engine
<1>6. CASE Poll
  <2>1. UNCHANGED <<wanted, cached, late, job, pc>>
    BY <1>6 DEF Poll, explorer, cache, engine
  <2>2. \A j \in batch' : wanted[j[1]] = j[2] /\ wanted[j[1]] \in {"deploy", "delete"}
    BY <1>6 DEF Poll, Open, NextAction
  <2>3. ASSUME NEW w \in Workloads
        PROVE  /\ <<w, "deploy">> \in batch' => wanted[w] = "deploy"
               /\ <<w, "delete">> \in batch' => wanted[w] = "delete"
    BY <2>2
  <2>4. pc \in Removing /\ job \notin late => <<job, "deploy">> \notin batch'
    BY <1>1, <2>3 DEF Progress, TypeOK, Removing
  <2> QED BY <2>1, <2>3, <2>4 DEF GoneInv
<1>7. ASSUME NEW w \in Workloads, NEW todo \in {"deploy", "delete"}, Begin(w, todo),
             pc = "idle", job = None, UNCHANGED <<wanted, cached, late>>, batch' \subseteq batch,
             todo = "deploy" => <<w, "deploy">> \in batch,
             todo = "delete" => <<w, "delete">> \in batch \/ w \in late
      PROVE  GoneInv'
  <2>1. CASE UNCHANGED engine
    BY <1>7, <2>1 DEF GoneInv, Removing, engine
  <2>2. CASE todo = "deploy" /\ job' = w /\ pc' = "deploy"
    BY <1>7, <2>2 DEF GoneInv, Removing
  <2>3. CASE todo = "delete" /\ job' = w /\ pc' = "undeploy" /\ w \in cached
    BY <1>7, <2>3 DEF GoneInv, Removing
  <2>4. CASE todo = "delete" /\ job' = w /\ pc' = "tell" /\ w \notin cached
    BY <1>7, <2>4 DEF GoneInv, Removing
  <2> QED BY <1>7, <2>1, <2>2, <2>3, <2>4 DEF Begin
<1>8. CASE TakePolled
  <2>1. PICK j \in batch : Begin(j[1], j[2]) /\ batch' = batch \ {j}
    BY <1>8 DEF TakePolled
  <2>2. j = <<j[1], j[2]>> /\ j[1] \in Workloads /\ j[2] \in {"deploy", "delete"}
    BY <1>1, <2>1 DEF TypeOK
  <2>3. pc = "idle" /\ job = None /\ UNCHANGED <<wanted, cached, late>>
    BY <1>1, <1>8 DEF TakePolled, TypeOK, explorer, cache
  <2> QED BY <1>7, <2>1, <2>2, <2>3
<1>9. CASE TakeExpired
  <2>1. PICK w \in due : Begin(w, "delete")
    BY <1>9 DEF TakeExpired
  <2>2. w \in Workloads /\ w \in late
    BY <1>1, <2>1 DEF TypeOK, UnderWay
  <2>3. pc = "idle" /\ job = None /\ UNCHANGED <<wanted, cached, late, batch>>
    BY <1>1, <1>9 DEF TakeExpired, TypeOK, explorer, cache
  <2> QED BY <1>7, <2>1, <2>2, <2>3
<1>10. CASE Deploy \/ Refuse \/ Answer \/ Count
  <2>1. UNCHANGED <<wanted, cached, late, batch>> /\ pc \in {"deploy", "refuse", "settle", "count"}
    BY <1>10 DEF Deploy, Refuse, Answer, Count, At, unchangedByCalls, explorer, cache, sources
  <2>2. pc' \in {"settle", "refuse", "count", "idle"} /\ job' \in {job, None}
    BY <1>10 DEF Deploy, Refuse, Answer, Count, GoTo, Settled, Idle, At
  <2> QED BY <1>1, <2>1, <2>2 DEF GoneInv, Removing, TypeOK
<1>11. CASE Store
  <2>1. /\ UNCHANGED <<wanted, late, batch, job>> /\ cached' = cached \cup {job}
        /\ pc = "settle" /\ pc' \in {"settle", "count"}
    BY <1>11 DEF Store, Settled, At, explorer, sources
  <2> QED BY <2>1 DEF GoneInv, Removing
<1>12. CASE Undeploy
  <2>1. /\ UNCHANGED <<wanted, cached, late, batch>> /\ pc = "undeploy"
        /\ (pc' = "forget" /\ job' = job) \/ (pc' = "idle" /\ job' = None)
    BY <1>12 DEF Undeploy, At, GoTo, Idle, unchangedByCalls, explorer, cache, sources
  <2> QED BY <1>1, <2>1 DEF GoneInv, Removing
<1>13. CASE Forget
  <2>1. /\ UNCHANGED <<wanted, late, batch, job>> /\ cached' = cached \ {job}
        /\ pc = "forget" /\ pc' = "uncount"
    BY <1>13 DEF Forget, At, GoTo, explorer, sources
  <2> QED BY <2>1 DEF GoneInv, Removing
<1>14. CASE Uncount
  <2>1. UNCHANGED <<wanted, cached, late, batch, job>> /\ pc = "uncount" /\ pc' = "tell"
    BY <1>14 DEF Uncount, At, GoTo, explorer, cache, sources
  <2> QED BY <2>1 DEF GoneInv, Removing
<1>15. CASE Tell
  <2>1. /\ UNCHANGED <<cached, late, batch>> /\ pc = "tell" /\ pc' = "idle" /\ job' = None
        /\ \A w \in Workloads : wanted'[w] = "deleted" => wanted[w] = "deleted" \/ w = job
    BY <1>1, <1>15 DEF Tell, At, Idle, cache, sources, TypeOK
  <2> QED BY <1>1, <2>1 DEF GoneInv, Removing
<1> QED BY <1>3, <1>4, <1>5, <1>6, <1>8, <1>9, <1>10, <1>11, <1>12, <1>13, <1>14, <1>15, NoFailures
        DEF Next, Work

(* Before the first start nothing is deployed but what is cached, and      *)
(* nothing is deleted.                                                     *)
LEMMA InitDeleted == Init => OriginInv /\ DeployedInv /\ GoneInv
<1> SUFFICES ASSUME NEW old \in SUBSET Old, InitWith(old), TypeOK
             PROVE  OriginInv /\ DeployedInv /\ GoneInv
  BY InitTypes DEF Init
<1>1. old = Reserved /\ old \subseteq Workloads /\ old = cached
  BY OldAssumption DEF InitWith, Reserved
<1>2. ASSUME NEW r \in Resources, holder[r] \in Users
      PROVE  \E v \in Reserved : ResourceOf[v] = r /\ UserOf[v] = holder[r]
  BY <1>1, <1>2 DEF InitWith, LeftBy
<1>3. ASSUME NEW k \in Keys PROVE content[k] = {}
  <2>1. ASSUME NEW w \in old PROVE ResourceOf[w] # k
    <3>1. w \in Workloads /\ TypeOf[w] \in {"proxy", "reverse"}
      BY <1>1, OldAssumption
    <3>2. ResourceOf[w] \in Domains
      BY <3>1, ResourceClass
    <3> QED BY <3>2
  <2>2. k \in Resources
    BY DEF Resources
  <2> QED BY <2>1, <2>2 DEF InitWith, LeftBy
<1>4. OriginInv
  BY <1>2, <1>3 DEF OriginInv, InitWith
<1>5. DeployedInv
  BY <1>1 DEF DeployedInv, InitWith
<1>6. GoneInv
  BY DEF GoneInv, InitWith
<1> QED BY <1>4, <1>5, <1>6

(* Without failures, what the explorer was told is deleted is gone, for    *)
(* any workloads and users and over any number of restarts, unless the     *)
(* reservation had expired or another one contests it.                     *)
THEOREM DeletedIsGone ==
  ASSUME Faults = {}
  PROVE  Safety => []DeletedLeavesNothing
<1> DEFINE Inv == AnswerInv /\ OriginInv /\ DeployedInv /\ GoneInv
<1>1. Init => Inv
  BY InitDeleted DEF Init, InitWith, AnswerInv
<1>2. IInv /\ Inv /\ [Next]_vars => Inv'
  BY AnswerNext, OriginNext, DeployedNext, GoneNext
<1>3. IInv /\ Inv => DeletedLeavesNothing
  BY DEF DeletedLeavesNothing, DeployedInv, GoneInv, Due, Reserved
<1> HIDE DEF Inv
<1> QED BY <1>1, <1>2, <1>3, Invariance, PTL DEF Safety

=============================================================================
