---------------------------- MODULE GatewayProofs ----------------------------
(***************************************************************************)
(* Proofs about Gateway, for any workloads of any users, any choice of     *)
(* faults, and any number of stops, crashes and failures.                  *)
(***************************************************************************)
EXTENDS Gateway, FiniteSetTheorems, TLAPS

USE WorkloadsAssumption, ResourcesAssumption, PartiesAssumption

Values == {ValueOf[w] : w \in Workloads}
Parties == Users \cup {Self, None}

(* The steps in which the engine calls a manager.                          *)
Calls == Deploy \/ DeployFails \/ Undeploy \/ UndeployFails \/ CrashInCall

(* What a call about workload w may make of the holders and of what is     *)
(* published: only its own resource changes, and peers lose its address.   *)
Holds(w, h) ==
  /\ h \in [Resources -> Parties]
  /\ \A r \in Resources \ {ResourceOf[w]} : h[r] = holder[r]
Publishes(w, c) ==
  /\ c \in [Resources -> SUBSET Values]
  /\ \A r \in Resources \ {ResourceOf[w]} :
       \/ c[r] = content[r]
       \/ TypeOf[w] = "tunnel" /\ r \in Keys /\ content[r] \ {ValueOf[w]} \subseteq c[r]

(* Every workload is about a resource of its type's class.                 *)
LEMMA ResourceClass ==
  ASSUME NEW w \in Workloads
  PROVE  /\ ResourceOf[w] \in Resources /\ TypeOf[w] \in Types /\ UserOf[w] \in Users
         /\ TypeOf[w] = "delegate" => ResourceOf[w] \in Zones
         /\ TypeOf[w] = "subdomain" => ResourceOf[w] \in Names
         /\ TypeOf[w] = "tunnel" => ResourceOf[w] \in Keys
         /\ TypeOf[w] \in {"proxy", "reverse"} => ResourceOf[w] \in Domains
<1>1. ResourceOf[w] \in ClassOf(TypeOf[w]) /\ TypeOf[w] \in Types
  OBVIOUS
<1>2. ResourceOf[w] \in Resources
  BY <1>1 DEF ClassOf, Types, Resources
<1> QED BY <1>1, <1>2 DEF ClassOf, Types

(* What the managers make of the holders stays within the reach of a call. *)
LEMMA HoldersReached ==
  ASSUME TypeOK, NEW w \in Workloads
  PROVE  /\ Holds(w, holder) /\ Holds(w, HoldingFor(w)) /\ Holds(w, HoldingWithout(w))
         /\ Holds(w, HeldBy(w, None))
<1>1. holder \in [Resources -> Parties]
  BY DEF TypeOK, Parties
<1>2. ASSUME NEW party \in Parties PROVE Holds(w, HeldBy(w, party))
  BY <1>1, <1>2, ResourceClass DEF Holds, HeldBy
<1>3. Holds(w, holder)
  BY <1>1 DEF Holds
<1> QED BY <1>2, <1>3, ResourceClass DEF HoldingFor, HoldingWithout, Parties

(* Nor does what they publish go beyond it.                                *)
LEMMA ContentsReached ==
  ASSUME TypeOK, NEW w \in Workloads
  PROVE  Publishes(w, content) /\ Publishes(w, ContentWith(w)) /\ Publishes(w, ContentWithout(w))
<1>1. content \in [Resources -> SUBSET Values] /\ ValueOf[w] \in Values
  BY DEF TypeOK, Values
<1>2. ASSUME NEW set \in SUBSET Values
      PROVE  Publishes(w, [content EXCEPT ![ResourceOf[w]] = set])
  BY <1>1, <1>2, ResourceClass DEF Publishes
<1>3. Publishes(w, content)
  BY <1>1 DEF Publishes
<1>4. TypeOf[w] = "tunnel" => Publishes(w, MoveAddress(w))
  BY <1>1, ResourceClass DEF Publishes, MoveAddress
<1>5. /\ content[ResourceOf[w]] \cup {ValueOf[w]} \in SUBSET Values
      /\ {ValueOf[w]} \in SUBSET Values /\ {} \in SUBSET Values
      /\ Remaining(w) \in SUBSET Values
  BY <1>1, ResourceClass DEF Remaining
<1>6. Publishes(w, ContentWith(w))
  <2>1. [content EXCEPT ![ResourceOf[w]] = @ \cup {ValueOf[w]}]
          = [content EXCEPT ![ResourceOf[w]] = content[ResourceOf[w]] \cup {ValueOf[w]}]
    BY <1>1, ResourceClass
  <2> QED BY <1>2, <1>3, <1>4, <1>5, <2>1 DEF ContentWith
<1>7. Publishes(w, ContentWithout(w))
  BY <1>2, <1>3, <1>5 DEF ContentWithout
<1> QED BY <1>3, <1>6, <1>7

(* A call changes what its workload is allowed to, whether it returns,     *)
(* fails or is cut short.                                                  *)
LEMMA CallReach ==
  ASSUME TypeOK, Calls
  PROVE  /\ job \in Workloads
         /\ Holds(job, holder') /\ Publishes(job, content')
         /\ MayAdd(job) \/ MayRemove(job) \/ UNCHANGED servers
<1>1. job \in Workloads
  BY DEF TypeOK, Calls, Deploy, DeployFails, Undeploy, UndeployFails, CrashInCall, At
<1>2. PICK stores : /\ holder' = stores[1] /\ content' = stores[2]
                    /\ \/ stores = servers
                       \/ MayAdd(job) /\ stores \in FailedAdd(job) \cup {AfterAdd(job)}
                       \/ MayRemove(job) /\ stores \in CutShortRemove(job) \cup {AfterRemove(job)}
  <2>1. CASE Deploy \/ Undeploy
    <3>1. CASE UNCHANGED servers BY <3>1 DEF servers
    <3>2. CASE MayAdd(job) /\ CallLeaves(AfterAdd(job)) BY <3>2 DEF CallLeaves
    <3>3. CASE MayRemove(job) /\ CallLeaves(AfterRemove(job)) BY <3>3 DEF CallLeaves
    <3> QED BY <2>1, <3>1, <3>2, <3>3 DEF Deploy, Undeploy
  <2>2. CASE DeployFails
    BY <2>2 DEF DeployFails, CallLeaves
  <2>3. CASE UndeployFails
    BY <2>3 DEF UndeployFails, CallLeaves
  <2>4. CASE CrashInCall
    BY <2>4 DEF CrashInCall, CallLeaves, FailedAdd
  <2> QED BY <2>1, <2>2, <2>3, <2>4 DEF Calls
<1>3. /\ stores[1] \in {holder, HoldingFor(job), HoldingWithout(job), HeldBy(job, None)}
      /\ stores[2] \in {content, ContentWith(job), ContentWithout(job)}
  BY <1>2 DEF FailedAdd, CutShortAdd, CutShortRemove, AfterAdd, AfterRemove, servers
<1>4. Holds(job, holder')
  BY <1>1, <1>2, <1>3, HoldersReached
<1>5. Publishes(job, content')
  BY <1>1, <1>2, <1>3, ContentsReached
<1> QED BY <1>1, <1>2, <1>4, <1>5 DEF servers

-----------------------------------------------------------------------------
(* Types                                                                   *)

(* Counters stay below 2^64 whatever they are set to.                      *)
LEMMA CountersWrap ==
  ASSUME NEW n \in Int
  PROVE  n % Word \in 0 .. Word - 1
BY BoundsAssumption

(* The initial state has its types.                                        *)
LEMMA InitTypes == Init => TypeOK
<1> SUFFICES ASSUME NEW old \in SUBSET Old, InitWith(old) PROVE TypeOK
  BY DEF Init
<1>1. old \subseteq Workloads
  BY OldAssumption
<1>2. holder \in [Resources -> Users \cup {Self, None}]
  <2>1. ASSUME NEW r \in Resources, LeftBy(old, r) # {}
        PROVE  UserOf[CHOOSE w \in LeftBy(old, r) : TRUE] \in Users
    BY <1>1, <2>1 DEF LeftBy
  <2> QED BY <2>1 DEF InitWith
<1>3. content \in [Resources -> SUBSET {ValueOf[w] : w \in Workloads}]
  <2>1. ASSUME NEW r \in Resources
        PROVE  {ValueOf[w] : w \in LeftBy(old, r)} \subseteq {ValueOf[w] : w \in Workloads}
    BY <1>1 DEF LeftBy
  <2> QED BY <2>1 DEF InitWith
<1>4. count \in [CountedTypes -> 0 .. Word - 1] /\ upsets \in 0 .. MaxUpsets
  BY BoundsAssumption DEF InitWith
<1> QED BY <1>1, <1>2, <1>3, <1>4 DEF InitWith, TypeOK

(* What a job is made of is a workload, and what to do with it.            *)
LEMMA BeginTypes ==
  ASSUME TypeOK, NEW w \in Workloads, NEW todo \in {"deploy", "delete"},
         mode = "up", mode' = "up", job = None, Begin(w, todo)
  PROVE  /\ job' \in Workloads \cup {None} /\ left' \subseteq {"answer", "store"}
         /\ pc' \in {"idle", "deploy", "undeploy", "tell"}
         /\ (pc' = "idle") <=> (job' = None)
BY DEF TypeOK, Begin, engine

(* Every step keeps the types.                                             *)
LEMMA TypeNext == TypeOK /\ [Next]_vars => TypeOK'
<1> SUFFICES ASSUME TypeOK, [Next]_vars PROVE TypeOK'
  OBVIOUS
<1>1. ASSUME NEW w \in Workloads, Reserve(w) \/ Cancel(w) \/ Expire(w) PROVE TypeOK'
  BY <1>1 DEF TypeOK, Reserve, Cancel, Expire, servers, cache, sources, engine, explorer
<1>2. ASSUME NEW with \in TunnelChoices, Start(with) PROVE TypeOK'
  <2>1. \A t \in CountedTypes : CachedOf(t, cached) \in Int
    BY FS_Subset, FS_CardinalityType DEF CachedOf, TypeOK
  <2>2. count' \in [CountedTypes -> 0 .. Word - 1]
    BY <1>2, <2>1, CountersWrap DEF Start
  <2>3. with \in BOOLEAN
    BY BoundsAssumption
  <2>4. cached' \subseteq cached /\ ending' \subseteq cached' /\ mode' = "up" /\ tunnels' = with
    BY <1>2 DEF Start
  <2>5. UNCHANGED <<wanted, answer, holder, content, late, seen, batch, due, job, pc, left, upsets>>
    BY <1>2 DEF Start, explorer, servers, sources, engine
  <2> QED BY <2>2, <2>3, <2>4, <2>5 DEF TypeOK
<1>3. CASE StartFails
  BY <1>3, BoundsAssumption DEF TypeOK, StartFails, Upset, explorer, servers, sources, engine
<1>4. CASE Stop
  <2>1. content' \in [Resources -> SUBSET {ValueOf[w] : w \in Workloads}]
    BY <1>4 DEF TypeOK, Stop, Disconnected
  <2> QED BY <1>4, <2>1, BoundsAssumption
          DEF TypeOK, Stop, Upset, NoJobs, explorer, cache, engine
<1>5. CASE Crash
  BY <1>5, BoundsAssumption DEF TypeOK, Crash, Dies, Idle, NoJobs, Upset, explorer, servers, cache
<1>6. CASE Poll
  BY <1>6 DEF TypeOK, Poll, Open, NextAction, explorer, servers, cache, engine
<1>7. CASE ListExpired
  BY <1>7 DEF TypeOK, ListExpired, explorer, servers, cache, engine
<1>8. CASE TakePolled
  <2>1. PICK j \in batch : batch' = batch \ {j} /\ Begin(j[1], j[2])
    BY <1>8 DEF TakePolled
  <2>2. j[1] \in Workloads /\ j[2] \in {"deploy", "delete"}
    BY DEF TypeOK
  <2>3. UNCHANGED <<wanted, answer, holder, content, cached, ending, late, count, mode, tunnels, seen, due, upsets>>
        /\ mode = "up" /\ job = None
    BY <1>8 DEF TakePolled, explorer, servers, cache
  <2> QED BY <2>1, <2>2, <2>3, BeginTypes DEF TypeOK
<1>9. CASE TakeExpired
  <2>1. PICK w \in due : due' = due \ {w} /\ Begin(w, "delete")
    BY <1>9 DEF TakeExpired
  <2>2. UNCHANGED <<wanted, answer, holder, content, cached, ending, late, count, mode, tunnels, seen, batch, upsets>>
        /\ mode = "up" /\ job = None
    BY <1>9 DEF TakeExpired, explorer, servers, cache
  <2>3. w \in Workloads
    BY DEF TypeOK
  <2> QED BY <2>1, <2>2, <2>3, BeginTypes DEF TypeOK
<1>10. CASE Calls
  <2>1. holder' \in [Resources -> Parties] /\ content' \in [Resources -> SUBSET Values]
    BY <1>10, CallReach DEF Holds, Publishes
  <2>2. UNCHANGED <<wanted, answer, cached, ending, late, count, tunnels>>
    BY <1>10 DEF Calls, Deploy, DeployFails, Undeploy, UndeployFails, CrashInCall,
                 unchangedByCalls, explorer, cache
  <2>3. /\ job' \in {job, None} /\ left' \subseteq {"answer", "store"} /\ upsets' \in 0 .. MaxUpsets
        /\ pc' \in {"idle", "settle", "refuse", "forget"} /\ (pc' = "idle" <=> job' = None)
        /\ (UNCHANGED <<mode, seen, batch, due>> /\ mode = "up")
             \/ (mode' = "down" /\ pc' = "idle" /\ seen' = {} /\ batch' = {} /\ due' = {})
    <3>1. CASE Deploy
      BY <3>1 DEF TypeOK, Deploy, At, GoTo, sources
    <3>2. CASE Undeploy
      BY <3>2 DEF TypeOK, Undeploy, At, GoTo, Idle, sources
    <3>3. CASE DeployFails
      <4>1. GoTo("refuse") /\ Upset
        BY <3>3 DEF DeployFails
      <4>2. UNCHANGED <<mode, seen, batch, due>> /\ pc = "deploy"
        BY <3>3 DEF DeployFails, At, sources
      <4> QED BY <4>1, <4>2, BoundsAssumption DEF TypeOK, GoTo, Upset
    <3>4. CASE UndeployFails
      <4>1. Idle /\ Upset
        BY <3>4 DEF UndeployFails
      <4>2. UNCHANGED <<mode, seen, batch, due>> /\ pc = "undeploy"
        BY <3>4 DEF UndeployFails, At, sources
      <4> QED BY <4>1, <4>2, BoundsAssumption DEF TypeOK, Idle, Upset
    <3>5. CASE CrashInCall
      BY <3>5, BoundsAssumption DEF TypeOK, CrashInCall, At, Dies, Idle, NoJobs, Upset
    <3> QED BY <1>10, <3>1, <3>2, <3>3, <3>4, <3>5 DEF Calls
  <2> QED BY <2>1, <2>2, <2>3 DEF TypeOK, Parties, Values
<1>11. CASE Refuse \/ Tell \/ FeedbackFails \/ Answer
  <2>1. job \in Workloads /\ mode = "up"
    BY <1>11 DEF TypeOK, Refuse, Tell, FeedbackFails, Answer, At
  <2>2. UNCHANGED <<holder, content, cached, ending, late, count, mode, tunnels, seen, batch, due>>
    BY <1>11 DEF Refuse, Tell, FeedbackFails, Answer, servers, cache, sources
  <2>3. /\ wanted' \in [Workloads -> {"none", "deploy", "delete", "deleted"}]
        /\ answer' \in [Workloads -> {"none", "ok", "error"}]
    BY <1>11, <2>1 DEF TypeOK, Refuse, Tell, FeedbackFails, Answer, explorer
  <2>4. /\ job' \in {job, None} /\ left' \subseteq {"answer", "store"} /\ upsets' \in 0 .. MaxUpsets
        /\ pc' \in {"idle", "settle", "count"} /\ (pc' = "idle" <=> job' = None)
    <3>1. CASE Refuse \/ Tell BY <3>1 DEF TypeOK, Refuse, Tell, Idle
    <3>2. CASE Answer BY <3>2 DEF TypeOK, Answer, Settled, At
    <3>3. CASE FeedbackFails
      BY <3>3, BoundsAssumption DEF TypeOK, FeedbackFails, Settled, At, Idle, Upset
    <3> QED BY <1>11, <3>1, <3>2, <3>3
  <2> QED BY <2>1, <2>2, <2>3, <2>4 DEF TypeOK
<1>12. CASE Store \/ StoreFails \/ Forget \/ ForgetFails
  <2>1. job \in Workloads /\ mode = "up"
    BY <1>12 DEF TypeOK, Store, StoreFails, Forget, ForgetFails, At
  <2>2. UNCHANGED <<wanted, answer, holder, content, late, count, mode, tunnels, seen, batch, due>>
    BY <1>12 DEF Store, StoreFails, Forget, ForgetFails, explorer, servers, sources
  <2>3. ending' \subseteq cached' /\ cached' \subseteq Workloads
    BY <1>12, <2>1 DEF TypeOK, Store, StoreFails, Forget, ForgetFails, cache
  <2>4. /\ job' \in {job, None} /\ left' \subseteq {"answer", "store"} /\ upsets' \in 0 .. MaxUpsets
        /\ pc' \in {"idle", "settle", "count", "uncount"} /\ (pc' = "idle" <=> job' = None)
    <3>1. CASE Store BY <3>1 DEF TypeOK, Store, Settled, At
    <3>2. CASE Forget BY <3>2 DEF TypeOK, Forget, GoTo, At
    <3>3. CASE StoreFails \/ ForgetFails
      BY <3>3, BoundsAssumption DEF TypeOK, StoreFails, ForgetFails, Idle, Upset
    <3> QED BY <1>12, <3>1, <3>2, <3>3
  <2> QED BY <2>1, <2>2, <2>3, <2>4 DEF TypeOK
<1>13. CASE Count \/ Uncount
  <2>1. job \in Workloads
    BY <1>13 DEF TypeOK, Count, Uncount, At
  <2>2. Increment(job) \in [CountedTypes -> 0 .. Word - 1]
    BY <2>1, CountersWrap DEF TypeOK, Increment
  <2>3. Decrement(job) \in [CountedTypes -> 0 .. Word - 1]
    BY <2>1, CountersWrap DEF TypeOK, Decrement
  <2>4. count' \in [CountedTypes -> 0 .. Word - 1]
    BY <1>13, <2>2, <2>3 DEF Count, Uncount
  <2> QED BY <1>13, <2>4
          DEF TypeOK, Count, Uncount, At, Idle, GoTo, explorer, servers, cache, sources
<1>14. CASE UNCHANGED vars
  BY <1>14 DEF TypeOK, vars, explorer, servers, cache, sources, engine
<1> QED BY <1>1, <1>2, <1>3, <1>4, <1>5, <1>6, <1>7, <1>8, <1>9, <1>10, <1>11, <1>12, <1>13, <1>14
        DEF Next, Work, Failures, Calls

-----------------------------------------------------------------------------
(* What is under way                                                       *)

(* A workload once reserved stays so, and is not wanted again once it was  *)
(* cancelled; expiry is for good.                                          *)
LEMMA NoWayBack ==
  ASSUME TypeOK, Progress, [Next]_vars, NEW w \in Workloads
  PROVE  /\ wanted[w] # "none" => wanted'[w] # "none"
         /\ wanted[w] \notin {"none", "deploy"} => wanted'[w] # "deploy"
         /\ w \in late => w \in late'
<1> DEFINE Goal == /\ wanted[w] # "none" => wanted'[w] # "none"
                   /\ wanted[w] \notin {"none", "deploy"} => wanted'[w] # "deploy"
                   /\ w \in late => w \in late'
<1> SUFFICES Goal
  OBVIOUS
<1>1. ASSUME NEW v \in Workloads, Reserve(v) \/ Cancel(v) PROVE Goal
  BY <1>1 DEF TypeOK, Reserve, Cancel
<1>2. CASE Tell
  BY <1>2 DEF TypeOK, Tell
<1>3. CASE UNCHANGED wanted /\ late \subseteq late'
  BY <1>3
<1>4. ASSUME NEW v \in Workloads, Expire(v) PROVE Goal
  BY <1>3, <1>4 DEF Expire, explorer
<1>5. ASSUME NEW with \in TunnelChoices, Start(with) PROVE Goal
  BY <1>3, <1>5 DEF Start, explorer
<1>6. CASE Stop \/ Poll \/ ListExpired \/ TakePolled \/ TakeExpired \/ Crash \/ StartFails \/ UNCHANGED vars
  BY <1>3, <1>6 DEF Stop, Poll, ListExpired, TakePolled, TakeExpired, Crash, StartFails, explorer, vars
<1>7. CASE Calls
  BY <1>3, <1>7 DEF Calls, Deploy, DeployFails, Undeploy, UndeployFails, CrashInCall, unchangedByCalls, explorer
<1>8. CASE Refuse \/ Answer \/ Store \/ StoreFails \/ Count \/ Forget \/ ForgetFails \/ Uncount \/ FeedbackFails
  BY <1>3, <1>8 DEF Refuse, Answer, Store, StoreFails, Count, Forget, ForgetFails, Uncount, FeedbackFails, explorer
<1> HIDE DEF Goal
<1> QED BY <1>1, <1>2, <1>4, <1>5, <1>6, <1>7, <1>8 DEF Next, Work, Failures, Calls

(* A call ends, or leads to the answer, to a refusal or to the cache.      *)
LEMMA CallControl ==
  ASSUME TypeOK, Calls
  PROVE  /\ UNCHANGED <<wanted, answer, cached, ending, late, count, tunnels>>
         /\ pc \in {"deploy", "undeploy"} /\ mode = "up"
         /\ \/ pc' = "settle" /\ Deploy /\ MayAdd(job) /\ job' = job
            \/ pc' = "refuse" /\ job' = job
            \/ pc' = "forget" /\ pc = "undeploy" /\ job' = job
            \/ pc' = "idle" /\ job' = None
         /\ batch' \in {batch, {}} /\ due' \in {due, {}}
<1>1. UNCHANGED <<wanted, answer, cached, ending, late, count, tunnels>>
  BY DEF Calls, Deploy, DeployFails, Undeploy, UndeployFails, CrashInCall,
         unchangedByCalls, explorer, cache
<1>2. pc \in {"deploy", "undeploy"} /\ mode = "up"
  BY DEF TypeOK, Calls, Deploy, DeployFails, Undeploy, UndeployFails, CrashInCall, At
<1>3. batch' \in {batch, {}} /\ due' \in {due, {}}
  BY DEF Calls, Deploy, DeployFails, Undeploy, UndeployFails, CrashInCall, sources, Dies, NoJobs
<1>4. \/ pc' = "settle" /\ Deploy /\ MayAdd(job) /\ job' = job
      \/ pc' = "refuse" /\ job' = job
      \/ pc' = "forget" /\ pc = "undeploy" /\ job' = job
      \/ pc' = "idle" /\ job' = None
  <2>1. CASE Deploy BY <2>1 DEF Deploy, GoTo
  <2>2. CASE DeployFails BY <2>2 DEF DeployFails, GoTo
  <2>3. CASE Undeploy BY <2>3 DEF Undeploy, GoTo, Idle, At
  <2>4. CASE UndeployFails \/ CrashInCall BY <2>4 DEF UndeployFails, CrashInCall, Dies, Idle
  <2> QED BY <2>1, <2>2, <2>3, <2>4 DEF Calls
<1> QED BY <1>1, <1>2, <1>3, <1>4

(* Steps in which the engine has done with a manager, or has not begun.    *)
Rest ==
  Refuse \/ Tell \/ FeedbackFails \/ Answer \/ Store \/ StoreFails \/ Forget \/ ForgetFails
    \/ Count \/ Uncount

(* They leave the servers and the sources alone, cache only what has just  *)
(* been provisioned, and go on with the same job or none.                  *)
LEMMA RestControl ==
  ASSUME TypeOK, Rest
  PROVE  /\ UNCHANGED <<holder, content, late, mode, tunnels, seen, batch, due>>
         /\ job \in Workloads /\ mode = "up"
         /\ cached' \subseteq Kept
         /\ \/ pc' = "settle" /\ pc = "settle" /\ job' = job
            \/ pc' = "count" /\ job' = job
            \/ pc' = "uncount" /\ pc = "forget" /\ job' = job
            \/ pc' = "tell" /\ pc = "uncount" /\ job' = job
            \/ pc' = "idle" /\ job' = None
<1>1. UNCHANGED <<holder, content, late, mode, tunnels, seen, batch, due>>
  BY DEF Rest, Refuse, Tell, FeedbackFails, Answer, Store, StoreFails, Forget, ForgetFails,
         Count, Uncount, servers, sources
<1>2. job \in Workloads /\ mode = "up"
  BY DEF Rest, TypeOK, Refuse, Tell, FeedbackFails, Answer, Store, StoreFails, Forget, ForgetFails,
         Count, Uncount, At
<1>3. cached' \subseteq Kept
  BY DEF Rest, Refuse, Tell, FeedbackFails, Answer, Store, StoreFails, Forget, ForgetFails,
         Count, Uncount, cache, Kept, At
<1>4. \/ pc' = "settle" /\ pc = "settle" /\ job' = job
      \/ pc' = "count" /\ job' = job
      \/ pc' = "uncount" /\ pc = "forget" /\ job' = job
      \/ pc' = "tell" /\ pc = "uncount" /\ job' = job
      \/ pc' = "idle" /\ job' = None
  <2>1. CASE Refuse \/ Tell \/ Count \/ StoreFails \/ ForgetFails
    BY <2>1 DEF Refuse, Tell, Count, StoreFails, ForgetFails, Idle
  <2>2. CASE Answer BY <2>2 DEF Answer, Settled, At
  <2>3. CASE Store BY <2>3 DEF Store, Settled, At
  <2>4. CASE FeedbackFails BY <2>4 DEF FeedbackFails, Settled, At, Idle
  <2>5. CASE Forget \/ Uncount BY <2>5 DEF Forget, Uncount, GoTo, At
  <2> QED BY <2>1, <2>2, <2>3, <2>4, <2>5 DEF Rest
<1> QED BY <1>1, <1>2, <1>3, <1>4

(* The invariant holds before the first start.                             *)
LEMMA InitIInv == Init => IInv
<1> SUFFICES ASSUME NEW old \in SUBSET Old, InitWith(old), TypeOK PROVE IInv
  BY InitTypes DEF Init
<1>1. old \subseteq Workloads
  BY OldAssumption
<1>2. UnderWay
  BY <1>1 DEF InitWith, UnderWay, Reserved
<1>3. Progress
  BY DEF InitWith, Progress
<1>4. \A z \in ManagedZones : holder[z] = Self
  BY DEF InitWith, Resources
<1>5. ASSUME NEW w \in Kept PROVE Deployed(w)
  <2>1. w \in old /\ TypeOf[w] \in {"proxy", "reverse"}
    BY OldAssumption DEF InitWith, Kept
  <2>2. ResourceOf[w] \in Resources \ ManagedZones
    BY <1>1, <2>1, ResourceClass
  <2>3. LeftBy(old, ResourceOf[w]) = {w}
    BY <2>1, OldAssumption DEF LeftBy
  <2>4. holder[ResourceOf[w]] = UserOf[w]
    BY <2>2, <2>3 DEF InitWith
  <2>5. content[ResourceOf[w]] = {ValueOf[w]}
    BY <2>2, <2>3 DEF InitWith
  <2> QED BY <2>1, <2>4, <2>5 DEF Deployed, Mine
<1> QED BY <1>2, <1>3, <1>4, <1>5 DEF IInv

(* Everything under way stays reserved, and what is to be deleted unwanted. *)
LEMMA UnderWayNext == IInv /\ [Next]_vars => UnderWay'
<1> SUFFICES ASSUME IInv, [Next]_vars PROVE UnderWay'
  OBVIOUS
<1>1. TypeOK /\ UnderWay /\ Progress
  BY DEF IInv
<1>2. \A w \in Workloads : /\ w \in Reserved => w \in Reserved'
                           /\ w \in Reserved /\ wanted[w] # "deploy" => wanted'[w] # "deploy"
                           /\ w \in late => w \in late'
  BY <1>1, NoWayBack DEF Reserved
<1>3. CASE /\ cached' \cup late' \subseteq cached \cup late \cup (IF job = None THEN {} ELSE {job})
           /\ batch' \subseteq batch /\ due' \subseteq due \cup (late \cap cached)
  <2>1. cached' \cup late' \cup due' \subseteq Reserved /\ due' \subseteq late
    BY <1>1, <1>3 DEF UnderWay, Progress
  <2>2. Reserved \subseteq Workloads
    BY DEF Reserved
  <2>3. cached' \cup late' \cup due' \subseteq Reserved' /\ due' \subseteq late'
    BY <1>2, <2>1, <2>2
  <2>4. ASSUME NEW j \in batch'
        PROVE  j[1] \in Reserved' /\ (j[2] = "delete" => wanted'[j[1]] # "deploy")
    <3>1. j \in batch /\ j[1] \in Workloads
      BY <1>1, <1>3, <2>4 DEF TypeOK
    <3> QED BY <1>1, <1>2, <3>1 DEF UnderWay
  <2> QED BY <2>3, <2>4 DEF UnderWay
<1>4. CASE Poll
  <2>1. PICK listed \in SUBSET Open : batch' = {<<w, wanted[w]>> : w \in listed}
    BY <1>4 DEF Poll, NextAction
  <2>2. UNCHANGED <<wanted, cached, late, due>>
    BY <1>4 DEF Poll, NextAction, explorer, cache
  <2> QED BY <1>1, <2>1, <2>2 DEF UnderWay, Reserved, Open
<1> SUFFICES ASSUME ~Poll
             PROVE  /\ cached' \cup late' \subseteq cached \cup late \cup (IF job = None THEN {} ELSE {job})
                    /\ batch' \subseteq batch /\ due' \subseteq due \cup (late \cap cached)
  BY <1>3, <1>4
<1>5. ASSUME NEW w \in Workloads, Reserve(w) \/ Cancel(w)
      PROVE  UNCHANGED <<cached, late, batch, due>>
  BY <1>5 DEF Reserve, Cancel, cache, sources
<1>6. ASSUME NEW w \in Workloads, Expire(w)
      PROVE  UNCHANGED <<cached, batch, due>> /\ late' \subseteq late \cup cached
  BY <1>1, <1>6 DEF TypeOK, Expire, cache, sources
<1>7. ASSUME NEW with \in TunnelChoices, Start(with)
      PROVE  UNCHANGED <<late, batch, due>> /\ cached' \subseteq cached
  BY <1>7 DEF Start, sources
<1>8. CASE Stop \/ ListExpired \/ TakePolled \/ TakeExpired \/ Crash \/ StartFails \/ UNCHANGED vars
  <2>1. cached' \subseteq cached /\ UNCHANGED late
    BY <1>8 DEF Stop, ListExpired, TakePolled, TakeExpired, Crash, StartFails, vars, cache
  <2>2. batch' \subseteq batch /\ due' \subseteq due \cup (late \cap cached)
    BY <1>1, <1>8 DEF TypeOK, Stop, ListExpired, TakePolled, TakeExpired, Crash, Dies, NoJobs,
                      StartFails, vars, sources
  <2> QED BY <2>1, <2>2
<1>9. CASE Calls
  BY <1>1, <1>9, CallControl
<1>10. CASE Rest
  BY <1>1, <1>10, RestControl DEF Kept, TypeOK
<1> QED BY <1>5, <1>6, <1>7, <1>8, <1>9, <1>10 DEF Next, Work, Failures, Calls, Rest

(* The engine goes from point to point with a job that was reserved.       *)
LEMMA ProgressNext == IInv /\ [Next]_vars => Progress'
<1> SUFFICES ASSUME IInv, [Next]_vars PROVE Progress'
  OBVIOUS
<1>1. TypeOK /\ UnderWay /\ Progress
  BY DEF IInv
<1>2. \A w \in Workloads : /\ w \in Reserved => w \in Reserved'
                           /\ w \in Reserved /\ wanted[w] # "deploy" => wanted'[w] # "deploy"
                           /\ w \in late => w \in late'
  BY <1>1, NoWayBack DEF Reserved
<1>3. CASE job' = job /\ pc' = pc /\ cached' \subseteq cached
  BY <1>1, <1>2, <1>3 DEF Progress, TypeOK
<1>4. CASE job' = None /\ pc' = "idle"
  BY <1>4 DEF Progress
<1>5. ASSUME NEW w \in Reserved, NEW todo \in {"deploy", "delete"}, Begin(w, todo),
             todo = "delete" => wanted[w] # "deploy" \/ w \in late,
             UNCHANGED <<wanted, cached, late>>
      PROVE  Progress'
  BY <1>1, <1>3, <1>5 DEF Begin, engine, Progress, Reserved
<1>6. CASE TakePolled
  <2>1. PICK j \in batch : Begin(j[1], j[2])
    BY <1>6 DEF TakePolled
  <2>2. j[2] \in {"deploy", "delete"} /\ j[1] \in Reserved
    BY <1>1 DEF TypeOK, UnderWay
  <2> QED BY <1>1, <1>5, <1>6, <2>1, <2>2 DEF TakePolled, UnderWay, explorer, cache
<1>7. CASE TakeExpired
  <2>1. PICK w \in due : Begin(w, "delete")
    BY <1>7 DEF TakeExpired
  <2> QED BY <1>1, <1>5, <1>7, <2>1 DEF TakeExpired, UnderWay, explorer, cache
<1>8. CASE Calls
  BY <1>1, <1>2, <1>8, CallControl DEF Progress, TypeOK
<1>9. CASE Rest
  BY <1>1, <1>2, <1>9, RestControl DEF Progress
<1>10. ASSUME NEW w \in Workloads, Reserve(w) \/ Cancel(w) \/ Expire(w) PROVE Progress'
  BY <1>3, <1>10 DEF Reserve, Cancel, Expire, engine, cache
<1>11. ASSUME NEW with \in TunnelChoices, Start(with) PROVE Progress'
  BY <1>3, <1>11 DEF Start, engine
<1>12. CASE Stop \/ Poll \/ ListExpired \/ StartFails \/ UNCHANGED vars
  BY <1>3, <1>12 DEF Stop, Poll, ListExpired, StartFails, vars, engine, cache
<1>13. CASE Crash
  BY <1>4, <1>13 DEF Crash, Dies, Idle
<1> QED BY <1>6, <1>7, <1>8, <1>9, <1>10, <1>11, <1>12, <1>13 DEF Next, Work, Failures, Calls, Rest

-----------------------------------------------------------------------------
(* Zones of the gateway, and what is cached                                *)

(* Outside the calls the servers change only when the interface goes.      *)
LEMMA ServersKept ==
  ASSUME TypeOK, [Next]_vars, ~Calls
  PROVE  /\ UNCHANGED holder
         /\ UNCHANGED content \/ (Stop /\ content' = Disconnected /\ mode' = "down")
<1>1. ASSUME NEW w \in Workloads, Reserve(w) \/ Cancel(w) \/ Expire(w) PROVE UNCHANGED servers
  BY <1>1 DEF Reserve, Cancel, Expire
<1>2. ASSUME NEW with \in TunnelChoices, Start(with) PROVE UNCHANGED servers
  BY <1>2 DEF Start
<1>3. CASE StartFails \/ Poll \/ ListExpired \/ TakePolled \/ TakeExpired \/ Crash \/ UNCHANGED vars
  BY <1>3 DEF StartFails, Poll, ListExpired, TakePolled, TakeExpired, Crash, vars, servers
<1>4. CASE Rest
  BY <1>4, RestControl
<1>5. CASE Stop
  BY <1>5 DEF Stop
<1> QED BY <1>1, <1>2, <1>3, <1>4, <1>5 DEF Next, Work, Failures, Calls, Rest, servers

(* Nobody takes a zone of the gateway.                                     *)
LEMMA ManagedNext ==
  IInv /\ [Next]_vars => \A z \in ManagedZones : holder'[z] = Self
<1> SUFFICES ASSUME IInv, [Next]_vars, NEW z \in ManagedZones PROVE holder'[z] = Self
  OBVIOUS
<1>1. TypeOK /\ holder[z] = Self /\ z \in Resources
  BY DEF IInv, Resources
<1>2. CASE Calls
  <2>1. job \in Workloads /\ Holds(job, holder')
    BY <1>1, <1>2, CallReach
  <2>2. CASE ResourceOf[job] # z
    BY <1>1, <2>1, <2>2 DEF Holds
  <2>3. CASE ResourceOf[job] = z
    <3>1. TypeOf[job] = "delegate"
      BY <2>1, <2>3, ResourceClass DEF Types
    <3>2. ~MayAdd(job) /\ ~MayRemove(job)
      BY <1>1, <2>1, <2>3, <3>1, ResourceClass DEF MayAdd, MayRemove, CanUseDomain, Unheld, Mine
    <3> QED BY <1>1, <1>2, <3>2, CallReach DEF servers
  <2> QED BY <2>2, <2>3
<1>3. CASE ~Calls
  BY <1>1, <1>3, ServersKept
<1> QED BY <1>2, <1>3

(* What a workload claims was claimed before, but for tunnels at a start.  *)
LEMMA ClaimedBefore ==
  ASSUME TypeOK, Progress, [Next]_vars, NEW w \in Workloads, w \in Reserved, Claimed(w)',
         TypeOf[w] = "tunnel" => mode = "up" /\ tunnels
  PROVE  Claimed(w)
<1>1. wanted[w] = "deploy" /\ w \notin late
  BY NoWayBack DEF Claimed, Reserved
<1>2. ~Contested(w)
  BY NoWayBack DEF Claimed, Contested, Reserved
<1> QED BY <1>1, <1>2 DEF Claimed, Lasting

(* A call about one workload does not take another one down that is not    *)
(* contested.                                                              *)
LEMMA CallsSpareOthers ==
  ASSUME IInv, Calls, NEW w \in Workloads, w # job, Claimed(w), Deployed(w)
  PROVE  Deployed(w)'
<1>1. /\ TypeOK /\ job \in Workloads /\ job \in Reserved
      /\ Holds(job, holder') /\ Publishes(job, content')
      /\ MayAdd(job) \/ MayRemove(job) \/ UNCHANGED servers
  BY CallReach DEF IInv, Progress
<1>2. ~Rivals(job, w)
  BY <1>1 DEF Claimed, Contested
<1>3. CASE ResourceOf[job] # ResourceOf[w]
  <2>1. holder'[ResourceOf[w]] = holder[ResourceOf[w]]
    BY <1>1, <1>3, ResourceClass DEF Holds
  <2>2. CASE content'[ResourceOf[w]] = content[ResourceOf[w]]
    BY <2>1, <2>2 DEF Deployed, Mine
  <2>3. CASE TypeOf[job] = "tunnel" /\ ResourceOf[w] \in Keys
             /\ content[ResourceOf[w]] \ {ValueOf[job]} \subseteq content'[ResourceOf[w]]
    <3>1. TypeOf[w] = "tunnel"
      BY <2>3, ResourceClass DEF Types
    <3>2. ValueOf[w] # ValueOf[job]
      BY <1>1, <1>2, <2>3, <3>1, AddressAssumption DEF Rivals, Tunnels
    <3> QED BY <2>3, <3>1, <3>2 DEF Deployed
  <2> QED BY <1>1, <1>3, <2>2, <2>3, ResourceClass DEF Publishes
<1>4. CASE ResourceOf[job] = ResourceOf[w]
  <2>1. UserOf[job] # UserOf[w] /\ TypeOf[w] # "tunnel" /\ TypeOf[job] # "tunnel"
    BY <1>1, <1>2, <1>4, ResourceClass DEF Rivals, Types
  <2>2. holder[ResourceOf[job]] = UserOf[w] /\ UserOf[w] # None
    BY <1>4, <2>1, ResourceClass DEF Deployed, Mine
  <2>3. ~CanUseDomain(job)
    BY <2>1, <2>2 DEF CanUseDomain, Unheld, Mine
  <2>4. TypeOf[job] = "subdomain" => ZoneHolder(job) = Self
    <3>1. TypeOf[job] = "subdomain" => TypeOf[w] = "subdomain"
      BY <1>1, <1>4, ResourceClass DEF Types
    <3> QED BY <1>4, <3>1 DEF Claimed, Lasting, ZoneHolder, IInv
  <2>5. ~MayAdd(job) /\ ~MayRemove(job)
    BY <1>1, <2>1, <2>2, <2>3, <2>4, ResourceClass DEF MayAdd, MayRemove, Unheld
  <2> QED BY <1>1, <2>5 DEF servers, Deployed, Mine
<1> QED BY <1>3, <1>4

(* What is provisioned is deployed before it is cached, and stays so.      *)
LEMMA KeptNext ==
  IInv /\ [Next]_vars => \A w \in Kept' : Claimed(w)' => Deployed(w)'
<1> SUFFICES ASSUME IInv, [Next]_vars, NEW w \in Kept', Claimed(w)' PROVE Deployed(w)'
  OBVIOUS
<1>1. /\ TypeOK /\ UnderWay /\ Progress
      /\ \A v \in Kept : Claimed(v) => Deployed(v)
  BY DEF IInv
<1>2. CASE Calls
  <2>1. CASE w = job /\ pc' = "settle"
    <3>1. Deploy /\ MayAdd(job) /\ job \in Workloads
      BY <1>1, <1>2, <2>1, CallControl, CallReach
    <3>2. holder' = HoldingFor(job) /\ content' = ContentWith(job)
      BY <3>1 DEF Deploy, CallLeaves, AfterAdd
    <3>3. ResourceOf[job] \in DOMAIN holder /\ ResourceOf[job] \in DOMAIN content
      BY <1>1, <3>1, ResourceClass DEF TypeOK
    <3>4. TypeOf[job] # "tunnel" => holder'[ResourceOf[job]] = UserOf[job]
      BY <3>2, <3>3 DEF HoldingFor, HeldBy
    <3>5. /\ TypeOf[job] \in {"subdomain", "tunnel"} => ValueOf[job] \in content'[ResourceOf[job]]
          /\ TypeOf[job] \in {"proxy", "reverse"} => content'[ResourceOf[job]] = {ValueOf[job]}
      BY <1>1, <3>1, <3>2, <3>3, ResourceClass DEF ContentWith, MoveAddress, TypeOK
    <3> QED BY <2>1, <3>4, <3>5 DEF Deployed, Mine
  <2>2. CASE ~(w = job /\ pc' = "settle")
    <3>1. w \in cached /\ w \in Workloads /\ w \in Reserved /\ w \in Kept
      BY <1>1, <1>2, <2>2, CallControl DEF Kept, UnderWay, TypeOK
    <3>2. TypeOf[w] = "tunnel" => mode = "up" /\ tunnels
      BY <1>1, <1>2, CallControl DEF Claimed
    <3>3. Claimed(w) /\ Deployed(w)
      BY <1>1, <3>1, <3>2, ClaimedBefore
    <3>4. w # job
      BY <1>1, <1>2, <3>1, <3>3, CallControl DEF Progress, Claimed
    <3> QED BY <1>2, <3>1, <3>3, <3>4, CallsSpareOthers
  <2> QED BY <2>1, <2>2
<1>3. CASE ~Calls
  <2>1. w \in Kept /\ (TypeOf[w] = "tunnel" => mode = "up" /\ tunnels)
    <3>1. ASSUME NEW v \in Workloads, Reserve(v) \/ Cancel(v) \/ Expire(v)
          PROVE  Kept' = Kept /\ UNCHANGED <<mode, tunnels>>
      BY <3>1 DEF Reserve, Cancel, Expire, Kept, engine, cache
    <3>2. ASSUME NEW with \in TunnelChoices, Start(with)
          PROVE  w \in Kept /\ (TypeOf[w] = "tunnel" => mode = "up" /\ tunnels)
      <4>1. pc' = "idle" /\ tunnels' = with /\ cached' = IF with THEN cached \ Tunnels ELSE cached
        BY <1>1, <3>2 DEF Start, engine, TypeOK, Cleared
      <4>2. w \in cached' /\ w \in cached /\ w \in Workloads
        BY <1>1, <4>1 DEF Kept, TypeOK
      <4> QED BY <4>1, <4>2 DEF Kept, Claimed, Tunnels
    <3>3. CASE StartFails \/ Stop \/ Crash
      BY <1>1, <3>3 DEF StartFails, Stop, Crash, Dies, Idle, Kept, Claimed, TypeOK, engine, cache
    <3>4. CASE Poll \/ ListExpired \/ UNCHANGED vars
      BY <3>4 DEF Poll, ListExpired, vars, Kept, Claimed, engine, cache
    <3>5. CASE TakePolled \/ TakeExpired
      <4>1. pc = "idle" /\ pc' # "settle" /\ UNCHANGED <<cached, mode, tunnels>>
        BY <1>1, <3>5 DEF TakePolled, TakeExpired, Begin, TypeOK, cache, engine
      <4> QED BY <4>1 DEF Kept, Claimed
    <3>6. CASE Rest
      <4>1. Kept' \subseteq Kept /\ UNCHANGED <<mode, tunnels>>
        BY <1>1, <3>6, RestControl DEF Kept
      <4> QED BY <4>1 DEF Claimed
    <3> QED BY <1>3, <3>1, <3>2, <3>3, <3>4, <3>5, <3>6
            DEF Next, Work, Failures, Calls, Rest, Claimed
  <2>2. w \in Workloads /\ w \in Reserved
    BY <1>1, <2>1 DEF Kept, UnderWay, Progress, TypeOK
  <2>3. Deployed(w) /\ UNCHANGED holder
    BY <1>1, <1>3, <2>1, <2>2, ClaimedBefore, ServersKept
  <2>4. content'[ResourceOf[w]] = content[ResourceOf[w]] \/ (TypeOf[w] = "tunnel" /\ mode' = "down")
    BY <1>1, <1>3, <2>2, ServersKept, ResourceClass DEF Disconnected, Types
  <2> QED BY <2>3, <2>4 DEF Deployed, Mine, Claimed
<1> QED BY <1>2, <1>3

-----------------------------------------------------------------------------
(* Theorems                                                                *)

(* The inductive invariant, of the process from its sources to its cache.  *)
THEOREM Invariance == Safety => []IInv
<1>1. IInv /\ [Next]_vars => IInv'
  <2>1. IInv /\ [Next]_vars => TypeOK'
    BY TypeNext DEF IInv
  <2> QED BY <2>1, UnderWayNext, ProgressNext, ManagedNext, KeptNext DEF IInv
<1> QED BY <1>1, InitIInv, PTL DEF Safety

(* The variables are of their types, and the process has a job only while  *)
(* it is up.                                                               *)
THEOREM TypeCorrect == Safety => []TypeOK
<1>1. IInv => TypeOK
  BY DEF IInv
<1> QED BY <1>1, Invariance, PTL

(* A cached reservation is deployed, whatever fails and wherever the       *)
(* gateway dies, unless another one of its user contests it.               *)
THEOREM CachedAreDeployed == Safety => []CachedIsDeployed
<1>1. IInv => CachedIsDeployed
  BY DEF IInv, CachedIsDeployed, Kept
<1> QED BY <1>1, Invariance, PTL

-----------------------------------------------------------------------------
(* Without failures answers stand                                          *)

(* What was answered and is wanted is cached, or has no other chance to be *)
(* refused: it is a tunnel, about to be stored, or about to be deleted.    *)
AnswerInv ==
  /\ pc = "refuse" => job \notin cached /\ TypeOf[job] # "tunnel"
  /\ pc = "settle" => "store" \in left \/ job \in cached
  /\ \A w \in Workloads :
       /\ answer[w] = "ok" => wanted[w] # "none"
       /\ answer[w] = "ok" /\ wanted[w] = "deploy" =>
         w \in cached \/ TypeOf[w] = "tunnel" \/ (job = w /\ pc \in {"settle", "uncount", "tell"})

(* Without failures neither a crash nor an error ends a job.               *)
LEMMA NoFailures == ASSUME Faults = {} PROVE ~Failures
BY DEF Failures, DeployFails, StoreFails, UndeployFails, ForgetFails, FeedbackFails, StartFails,
       CrashInCall, Crash

(* Each step of the engine keeps the answers consistent with the cache.    *)
LEMMA AnswerNext == ASSUME Faults = {}, IInv, AnswerInv, [Next]_vars PROVE AnswerInv'
<1>1. TypeOK /\ Progress /\ UnderWay
  BY DEF IInv
<1>2. ASSUME UNCHANGED <<cached, engine, answer>>,
             \A w \in Workloads : wanted[w] # "none" => wanted'[w] # "none",
             \A w \in Workloads : wanted'[w] = "deploy" => wanted[w] \in {"none", "deploy"}
      PROVE  AnswerInv'
  BY <1>2 DEF AnswerInv, engine
<1>3. ASSUME NEW w \in Workloads, Reserve(w) \/ Cancel(w) PROVE AnswerInv'
  BY <1>1, <1>2, <1>3 DEF Reserve, Cancel, TypeOK, cache
<1>4. ASSUME NEW w \in Workloads, Expire(w) PROVE AnswerInv'
  BY <1>2, <1>4 DEF Expire, explorer, cache
<1>5. CASE Stop \/ Poll \/ ListExpired \/ UNCHANGED vars
  BY <1>2, <1>5 DEF Stop, Poll, ListExpired, vars, explorer, cache
<1>6. ASSUME NEW with \in TunnelChoices, Start(with) PROVE AnswerInv'
  <2>1. pc = "idle" /\ job = None /\ UNCHANGED <<engine, wanted, answer>>
    BY <1>1, <1>6 DEF Start, TypeOK, explorer
  <2>2. \A w \in Workloads : w \in cached => w \in cached' \/ TypeOf[w] = "tunnel"
    BY <1>6 DEF Start, Cleared, Tunnels
  <2> QED BY <2>1, <2>2 DEF AnswerInv, engine
<1>7. ASSUME NEW w \in Workloads, NEW todo, Begin(w, todo), job = None,
             UNCHANGED <<wanted, answer, cached>>
      PROVE  AnswerInv'
  <2>1. CASE UNCHANGED engine
    BY <1>2, <1>7, <2>1
  <2>2. CASE job' = w /\ pc' \in {"deploy", "undeploy", "tell"}
    BY <1>7, <2>2 DEF AnswerInv
  <2> QED BY <1>7, <2>1, <2>2 DEF Begin
<1>8. CASE TakePolled
  <2>1. PICK j \in batch : Begin(j[1], j[2])
    BY <1>8 DEF TakePolled
  <2>2. j[1] \in Workloads
    BY <1>1, <2>1 DEF TypeOK
  <2> QED BY <1>7, <1>8, <2>1, <2>2 DEF TakePolled, explorer, cache
<1>9. CASE TakeExpired
  <2>1. PICK w \in due : Begin(w, "delete")
    BY <1>9 DEF TakeExpired
  <2>2. w \in Workloads
    BY <1>1 DEF TypeOK
  <2> QED BY <1>7, <1>9, <2>1, <2>2 DEF TakeExpired, explorer, cache
<1>10. CASE Deploy
  <2>1. UNCHANGED <<wanted, answer, cached, job>> /\ job \notin cached /\ pc = "deploy"
    BY <1>1, <1>10 DEF Deploy, At, GoTo, Progress, unchangedByCalls, explorer, cache
  <2>2. CASE MayAdd(job)
    <3>1. pc' = "settle" /\ left' = {"answer", "store"}
      BY <1>10, <2>2 DEF Deploy
    <3> QED BY <2>1, <3>1 DEF AnswerInv
  <2>3. CASE ~MayAdd(job)
    <3>1. pc' = "refuse" /\ TypeOf[job] # "tunnel"
      BY <1>10, <2>3 DEF Deploy, GoTo, MayAdd
    <3> QED BY <2>1, <3>1 DEF AnswerInv
  <2> QED BY <2>2, <2>3
<1>11. CASE Refuse
  BY <1>1, <1>11 DEF Refuse, At, Idle, AnswerInv, TypeOK, cache
<1>12. CASE Answer
  BY <1>1, <1>12 DEF Answer, At, Settled, AnswerInv, Progress, Reserved, TypeOK, cache
<1>13. CASE Store
  BY <1>1, <1>13 DEF Store, At, Settled, AnswerInv, TypeOK, explorer
<1>14. CASE Count
  BY <1>1, <1>14 DEF Count, At, Idle, AnswerInv, explorer, cache
<1>15. CASE Undeploy
  BY <1>1, <1>15 DEF Undeploy, At, GoTo, Idle, AnswerInv, unchangedByCalls, explorer, cache
<1>16. CASE Forget
  BY <1>1, <1>16 DEF Forget, At, GoTo, AnswerInv, explorer
<1>17. CASE Uncount
  BY <1>1, <1>17 DEF Uncount, At, GoTo, AnswerInv, explorer, cache
<1>18. CASE Tell
  BY <1>1, <1>18 DEF Tell, At, Idle, AnswerInv, TypeOK, cache
<1> QED BY <1>3, <1>4, <1>5, <1>6, <1>8, <1>9, <1>10, <1>11, <1>12, <1>13, <1>14, <1>15, <1>16,
           <1>17, <1>18, NoFailures DEF Next, Work

(* Only a refusal answers otherwise than "ok", and what is answered and    *)
(* wanted is not refused.                                                  *)
LEMMA AnswerKept ==
  ASSUME Faults = {}, IInv, AnswerInv, [Next]_vars, NEW w \in Workloads,
         answer[w] = "ok", wanted[w] = "deploy"
  PROVE  answer'[w] = "ok"
<1>1. CASE Refuse
  <2>1. w # job
    BY <1>1 DEF Refuse, At, AnswerInv
  <2> QED BY <1>1, <2>1 DEF Refuse, IInv, TypeOK
<1>2. CASE Answer
  BY <1>2 DEF Answer, IInv, TypeOK
<1>3. CASE UNCHANGED answer
  BY <1>3
<1>4. ASSUME NEW v \in Workloads, Reserve(v) \/ Cancel(v) \/ Expire(v) PROVE UNCHANGED answer
  BY <1>4 DEF Reserve, Cancel, Expire, explorer
<1>5. ASSUME NEW with \in TunnelChoices, Start(with) PROVE UNCHANGED answer
  BY <1>5 DEF Start, explorer
<1>6. CASE Stop \/ Poll \/ ListExpired \/ TakePolled \/ TakeExpired \/ UNCHANGED vars
  BY <1>3, <1>6 DEF Stop, Poll, ListExpired, TakePolled, TakeExpired, vars, explorer
<1>7. CASE Deploy \/ Store \/ Count \/ Undeploy \/ Forget \/ Uncount \/ Tell
  BY <1>3, <1>7 DEF Deploy, Store, Count, Undeploy, Forget, Uncount, Tell, unchangedByCalls, explorer
<1> QED BY <1>1, <1>2, <1>3, <1>4, <1>5, <1>6, <1>7, NoFailures DEF Next, Work

(* Without failures a workload that the explorer was told is deployed, and *)
(* wants deployed, is never reported as failed, over any number of         *)
(* restarts: what is cached is skipped, and tunnels are never refused.     *)
THEOREM AnswersStand ==
  ASSUME Faults = {}
  PROVE  Safety => AnswerStands
<1>1. Init => AnswerInv
  BY DEF Init, InitWith, AnswerInv
<1>2. IInv /\ AnswerInv /\ [Next]_vars => AnswerInv'
  BY AnswerNext
<1>3. IInv /\ AnswerInv /\ [Next]_vars =>
        [\A w \in Workloads :
           answer[w] = "ok" /\ wanted[w] = "deploy" => answer'[w] = "ok"]_vars
  BY AnswerKept
<1> QED BY <1>1, <1>2, <1>3, Invariance, PTL DEF Safety, AnswerStands

=============================================================================
