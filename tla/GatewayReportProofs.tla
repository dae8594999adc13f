------------------------- MODULE GatewayReportProofs -------------------------
(***************************************************************************)
(* Proofs about Gateway: what it reports, the numbers of workloads and the *)
(* refusals of subdomains.  They hold wherever the gateway crashes, as     *)
(* long as redis and the explorer answer.                                  *)
(***************************************************************************)
EXTENDS GatewayProofs

USE WorkloadsAssumption, ResourcesAssumption, PartiesAssumption

(* With crashes as the only faults, a failure is a crash.                  *)
LEMMA OnlyCrashes ==
  ASSUME Faults \subseteq {"crash"}, Failures
  PROVE  Crash \/ CrashInCall
BY DEF Failures, DeployFails, StoreFails, UndeployFails, ForgetFails, FeedbackFails, StartFails

-----------------------------------------------------------------------------
(* The counters                                                            *)

(* The cached reservations as the counters know them: one that has just    *)
(* been stored is not counted yet, one that has just been forgotten is.    *)
Tallied ==
  IF pc = "count" \/ (pc = "settle" /\ "store" \notin left) THEN cached \ {job}
  ELSE IF pc = "uncount" THEN cached \cup {job} ELSE cached

(* Whether the job is cached follows from how far the engine got, and the  *)
(* counters of a process that is up are those of what they know.           *)
CountInv ==
  /\ pc \in {"undeploy", "forget", "count"} => job \in cached
  /\ pc = "uncount" => job \notin cached
  /\ pc = "settle" => ("store" \in left <=> job \notin cached)
  /\ mode = "up" => \A t \in CountedTypes : count[t] = CachedOf(t, Tallied)

(* A set of workloads has no more than all of them, and one workload more  *)
(* or less in it changes the number of its own type.                       *)
LEMMA CachedOfSets ==
  ASSUME NEW S \in SUBSET Workloads, NEW t, Cardinality(Workloads) < Word
  PROVE  /\ CachedOf(t, S) \in 0 .. Word - 1
         /\ \A w \in Workloads \ S :
              CachedOf(t, S \cup {w}) = CachedOf(t, S) + (IF TypeOf[w] = t THEN 1 ELSE 0)
<1> DEFINE Of(T) == {w \in T : TypeOf[w] = t}
<1>1. IsFiniteSet(Of(S)) /\ Cardinality(Of(S)) \in Nat /\ Cardinality(Of(S)) <= Cardinality(Workloads)
  BY FS_Subset, FS_CardinalityType
<1>c. \A T : CachedOf(t, T) = Cardinality(Of(T))
  BY DEF CachedOf
<1>2. CachedOf(t, S) \in 0 .. Word - 1
  BY <1>1, BoundsAssumption, FS_CardinalityType DEF CachedOf
<1>3. ASSUME NEW w \in Workloads \ S
      PROVE  CachedOf(t, S \cup {w}) = CachedOf(t, S) + (IF TypeOf[w] = t THEN 1 ELSE 0)
  <2>1. CASE TypeOf[w] = t
    <3>1. Of(S \cup {w}) = Of(S) \cup {w} /\ w \notin Of(S)
      BY <2>1
    <3>2. Cardinality(Of(S) \cup {w}) = Cardinality(Of(S)) + 1
      BY <1>1, <3>1, FS_AddElement
    <3> HIDE DEF Of
    <3> QED BY <2>1, <3>1, <3>2, <1>c
  <2>2. CASE TypeOf[w] # t
    <3>1. Of(S \cup {w}) = Of(S)
      BY <2>2
    <3> HIDE DEF Of
    <3> QED BY <1>1, <2>2, <3>1, <1>c
  <2> QED BY <2>1, <2>2
<1> QED BY <1>2, <1>3

(* What is below a modulus is its own remainder.                           *)
LEMMA Remainder ==
  ASSUME NEW m \in Nat \ {0}, NEW n \in 0 .. m - 1
  PROVE  n % m = n
OBVIOUS

(* Increment and Decrement keep up with one workload more and one less.    *)
LEMMA CountersKeepUp ==
  ASSUME Cardinality(Workloads) < Word, TypeOK, NEW S \in SUBSET Workloads, NEW w \in Workloads \ S
  PROVE  /\ (\A t \in CountedTypes : count[t] = CachedOf(t, S)) =>
              \A t \in CountedTypes : Increment(w)[t] = CachedOf(t, S \cup {w})
         /\ (\A t \in CountedTypes : count[t] = CachedOf(t, S \cup {w})) =>
              \A t \in CountedTypes : Decrement(w)[t] = CachedOf(t, S)
<1> SUFFICES ASSUME NEW t \in CountedTypes
             PROVE  /\ count[t] = CachedOf(t, S) => Increment(w)[t] = CachedOf(t, S \cup {w})
                    /\ count[t] = CachedOf(t, S \cup {w}) => Decrement(w)[t] = CachedOf(t, S)
  OBVIOUS
<1>1. /\ CachedOf(t, S) \in 0 .. Word - 1 /\ CachedOf(t, S \cup {w}) \in 0 .. Word - 1
      /\ CachedOf(t, S \cup {w}) = CachedOf(t, S) + (IF TypeOf[w] = t THEN 1 ELSE 0)
  BY CachedOfSets
<1>2. count \in [CountedTypes -> 0 .. Word - 1]
  BY DEF TypeOK
<1>3. /\ Increment(w)[t] = IF TypeOf[w] = t THEN (count[t] + 1) % Word ELSE count[t]
      /\ Decrement(w)[t] = IF TypeOf[w] = t THEN (count[t] - 1) % Word ELSE count[t]
  BY <1>2 DEF Increment, Decrement
<1>4. CASE TypeOf[w] # t
  BY <1>1, <1>3, <1>4
<1>5. CASE TypeOf[w] = t
  <2>1. CachedOf(t, S \cup {w}) = CachedOf(t, S) + 1 /\ CachedOf(t, S \cup {w}) - 1 = CachedOf(t, S)
    BY <1>1, <1>5
  <2>2. /\ CachedOf(t, S \cup {w}) % Word = CachedOf(t, S \cup {w})
        /\ CachedOf(t, S) % Word = CachedOf(t, S)
    BY <1>1, Remainder, BoundsAssumption
  <2> QED BY <1>3, <1>5, <2>1, <2>2
<1> QED BY <1>4, <1>5

(* Every step keeps the counters in step with the cache.                   *)
LEMMA CountNext ==
  ASSUME Cardinality(Workloads) < Word, Faults \subseteq {"crash"}, IInv, CountInv, [Next]_vars
  PROVE  CountInv'
<1>1. TypeOK /\ Progress /\ cached \in SUBSET Workloads
  BY DEF IInv, TypeOK
<1>2. CASE UNCHANGED <<cached, count, engine>> /\ (mode' = "up" => mode = "up")
  BY <1>2 DEF CountInv, Tallied, engine
<1>3. ASSUME NEW w \in Workloads, Reserve(w) \/ Cancel(w) \/ Expire(w) PROVE CountInv'
  BY <1>2, <1>3 DEF Reserve, Cancel, Expire, cache
<1>4. CASE Stop \/ Poll \/ ListExpired \/ UNCHANGED vars
  BY <1>2, <1>4 DEF Stop, Poll, ListExpired, vars, cache
<1>5. ASSUME NEW with \in TunnelChoices, Start(with) PROVE CountInv'
  <2>1. pc' = "idle" /\ cached' \in {cached, cached \ Tunnels}
        /\ count' = [t \in CountedTypes |-> CachedOf(t, cached) % Word]
    BY <1>1, <1>5 DEF Start, Cleared, engine, TypeOK
  <2>2. ASSUME NEW t \in CountedTypes PROVE count'[t] = CachedOf(t, cached')
    <3>1. {w \in cached' : TypeOf[w] = t} = {w \in cached : TypeOf[w] = t}
      BY <1>1, <2>1 DEF Tunnels, CountedTypes
    <3>2. CachedOf(t, cached') = CachedOf(t, cached) /\ CachedOf(t, cached) \in 0 .. Word - 1
      BY <1>1, <3>1, CachedOfSets DEF CachedOf
    <3>3. CachedOf(t, cached) % Word = CachedOf(t, cached)
      BY <3>2, Remainder, BoundsAssumption
    <3> QED BY <2>1, <3>2, <3>3
  <2> QED BY <2>1, <2>2 DEF CountInv, Tallied
<1>6. CASE Crash \/ CrashInCall
  BY <1>6 DEF Crash, CrashInCall, Dies, Idle, CountInv
<1>7. ASSUME NEW w, NEW todo, Begin(w, todo), job = None, mode = "up", UNCHANGED <<cached, count>>
      PROVE  CountInv'
  <2>1. CASE UNCHANGED engine
    BY <1>2, <1>7, <2>1
  <2>2. CASE job' = w /\ pc' = IF todo = "deploy" THEN "deploy" ELSE IF w \in cached THEN "undeploy" ELSE "tell"
    <3>1. Tallied = cached /\ Tallied' = cached
      BY <1>1, <1>7, <2>2 DEF Tallied, TypeOK
    <3> QED BY <1>7, <2>2, <3>1 DEF CountInv
  <2> QED BY <1>7, <2>1, <2>2 DEF Begin
<1>8. CASE TakePolled \/ TakeExpired
  BY <1>7, <1>8 DEF TakePolled, TakeExpired, cache
<1>9. CASE Deploy
  <2>1. UNCHANGED <<cached, count, job, mode>> /\ job \notin cached /\ pc = "deploy"
        /\ (pc' = "refuse" \/ (pc' = "settle" /\ "store" \in left'))
    BY <1>1, <1>9 DEF Deploy, At, GoTo, Progress, unchangedByCalls, cache
  <2> QED BY <2>1 DEF CountInv, Tallied
<1>10. CASE Refuse \/ Tell
  BY <1>10 DEF Refuse, Tell, At, Idle, CountInv, Tallied, cache
<1>11. CASE Answer
  BY <1>11 DEF Answer, At, Settled, CountInv, Tallied, cache
<1>12. CASE Store
  <2>1. pc = "settle" /\ job \notin cached /\ cached' = cached \cup {job} /\ job' = job
        /\ "store" \notin left' /\ pc' \in {"settle", "count"} /\ UNCHANGED <<count, mode>>
    BY <1>12 DEF Store, At, Settled, CountInv
  <2>2. Tallied' = Tallied
    BY <2>1, <1>12 DEF Tallied, Store
  <2> QED BY <2>1, <2>2 DEF CountInv
<1>13. CASE Count
  <2>1. job \in Workloads /\ job \in cached /\ pc = "count" /\ pc' = "idle" /\ mode = "up"
        /\ UNCHANGED cached /\ count' = Increment(job)
    BY <1>1, <1>13 DEF Count, At, Idle, CountInv, TypeOK, cache
  <2>2. (cached \ {job}) \cup {job} = cached
    BY <2>1
  <2>3. \A t \in CountedTypes : count'[t] = CachedOf(t, cached)
    <3>1. PICK w \in Workloads : w = job
      BY <2>1
    <3>2. \A t \in CountedTypes : count[t] = CachedOf(t, cached \ {w})
      BY <2>1, <3>1 DEF CountInv, Tallied
    <3>3. cached \ {w} \in SUBSET Workloads /\ w \in Workloads \ (cached \ {w})
      BY <1>1
    <3>4. \A t \in CountedTypes : Increment(w)[t] = CachedOf(t, (cached \ {w}) \cup {w})
      BY <1>1, <3>2, <3>3, CountersKeepUp
    <3> QED BY <2>1, <2>2, <3>1, <3>4
  <2> QED BY <2>1, <2>3 DEF CountInv, Tallied
<1>14. CASE Undeploy
  <2>1. UNCHANGED <<cached, count, mode>> /\ pc = "undeploy"
        /\ ((pc' = "forget" /\ job' = job) \/ pc' = "idle")
    BY <1>14 DEF Undeploy, At, GoTo, Idle, unchangedByCalls, cache
  <2> QED BY <2>1 DEF CountInv, Tallied
<1>15. CASE Forget
  <2>1. pc = "forget" /\ pc' = "uncount" /\ job \in cached /\ job' = job
        /\ cached' = cached \ {job} /\ UNCHANGED <<count, mode>>
    BY <1>15 DEF Forget, At, GoTo, CountInv
  <2>2. Tallied' = Tallied
    BY <2>1 DEF Tallied
  <2> QED BY <2>1, <2>2 DEF CountInv
<1>16. CASE Uncount
  <2>1. job \in Workloads /\ job \notin cached /\ pc = "uncount" /\ pc' = "tell" /\ mode = "up"
        /\ UNCHANGED cached /\ count' = Decrement(job)
    BY <1>1, <1>16 DEF Uncount, At, GoTo, CountInv, TypeOK, cache
  <2>2. \A t \in CountedTypes : count'[t] = CachedOf(t, cached)
    BY <1>1, <2>1, CountersKeepUp DEF CountInv, Tallied
  <2> QED BY <2>1, <2>2 DEF CountInv, Tallied
<1> QED BY <1>3, <1>4, <1>5, <1>6, <1>8, <1>9, <1>10, <1>11, <1>12, <1>13, <1>14, <1>15, <1>16,
           OnlyCrashes DEF Next, Work

(* Between two jobs the reported numbers are those of the cached           *)
(* reservations, wherever the gateway crashed before: the counters are     *)
(* taken from the cache at a start.  No counter wraps while there are      *)
(* fewer workloads than 2^64.                                              *)
THEOREM CountersAreOfTheCache ==
  ASSUME Cardinality(Workloads) < Word, Faults \subseteq {"crash"}
  PROVE  Safety => []CountersMatchCache
<1>1. Init => CountInv
  BY DEF Init, InitWith, CountInv
<1>2. IInv /\ CountInv /\ [Next]_vars => CountInv'
  BY CountNext
<1>3. IInv /\ CountInv => CountersMatchCache
  BY DEF IInv, TypeOK, CountInv, Tallied, CountersMatchCache, Reported
<1> QED BY <1>1, <1>2, <1>3, Invariance, PTL DEF Safety

-----------------------------------------------------------------------------
(* Delegations are provisioned before their subdomains                     *)

(* What DelegationFirst asks of a delegation and its subdomain.            *)
Upheld(z, n) == wanted[n] # "none" => wanted[z] = "deploy" /\ answer[z] # "error" /\ ~Contested(z)

(* A delegation the poller has handed over is waiting, being provisioned,  *)
(* or cached; its subdomain is only handed over with it or after it, and   *)
(* only provisioned when it is cached.  It is not removed meanwhile: only  *)
(* what an older gateway left expires.                                     *)
OrderInv(z, n) ==
  /\ ending \cup late \subseteq Old
  /\ pc = "settle" => "store" \in left \/ job \in cached
  /\ z \in seen => z \in Reserved
  /\ wanted[z] = "deploy" /\ answer[z] # "error" /\ z \in seen =>
       \/ <<z, "deploy">> \in batch
       \/ z \in cached
       \/ job = z /\ pc \in {"deploy", "settle", "refuse"}
  /\ <<n, "deploy">> \in batch => z \in seen
  /\ job = n /\ pc = "deploy" => z \in cached
  /\ job = n => pc # "refuse"
  /\ answer[n] # "error"

(* A subdomain is not refused while its delegation is cached.              *)
LEMMA MayAddUnderDelegation ==
  ASSUME IInv, NEW z \in Workloads, NEW n \in Workloads, Delegates(z, n), Upheld(z, n),
         OrderInv(z, n), n \in Reserved, z \in cached
  PROVE  MayAdd(n)
<1>1. wanted[z] = "deploy" /\ ~Contested(z) /\ z \in Kept
  BY DEF Upheld, Reserved, Kept
<1>2. z \notin late
  BY OldAssumption DEF OrderInv, Delegates
<1>3. Claimed(z)
  BY <1>1, <1>2 DEF Claimed, Lasting, Delegates
<1>4. holder[ResourceOf[z]] = UserOf[z]
  BY <1>1, <1>3 DEF IInv, Deployed, Mine, Delegates
<1> QED BY <1>4 DEF MayAdd, ZoneHolder, Delegates

(* The steps outside the engine's work keep the order.                     *)
LEMMA OrderOfSources ==
  ASSUME IInv, NEW z \in Workloads, NEW n \in Workloads, Delegates(z, n),
         Upheld(z, n), OrderInv(z, n), Upheld(z, n)',
         \/ \E w \in Workloads : Reserve(w) \/ Cancel(w) \/ Expire(w)
         \/ \E with \in TunnelChoices : Start(with)
         \/ Stop \/ Poll \/ ListExpired \/ Crash \/ CrashInCall \/ UNCHANGED vars
  PROVE  OrderInv(z, n)'
<1>1. TypeOK /\ UnderWay /\ Progress
  BY DEF IInv
<1>2. ASSUME NEW w \in Workloads, Reserve(w) \/ Cancel(w) PROVE OrderInv(z, n)'
  <2>1. UNCHANGED <<answer, cached, ending, late, seen, batch, job, pc, left>>
    BY <1>2 DEF Reserve, Cancel, cache, sources, engine
  <2>2. /\ wanted'[z] = "deploy" => wanted[z] \in {"none", "deploy"}
        /\ wanted[z] # "none" => wanted'[z] # "none"
    BY <1>1, <1>2 DEF Reserve, Cancel, TypeOK
  <2> QED BY <2>1, <2>2 DEF OrderInv, Reserved
<1>3. ASSUME NEW w \in Workloads, Expire(w) PROVE OrderInv(z, n)'
  BY <1>3 DEF Expire, explorer, cache, sources, engine, OrderInv, Reserved
<1>4. ASSUME NEW with \in TunnelChoices, Start(with) PROVE OrderInv(z, n)'
  <2>1. UNCHANGED <<wanted, answer, late, seen, batch, job, pc, left>> /\ pc = "idle" /\ job = None
    BY <1>1, <1>4 DEF Start, TypeOK, explorer, sources, engine
  <2>2. ending' \subseteq ending /\ (z \in cached => z \in cached')
    BY <1>4 DEF Start, Cleared, Tunnels, Delegates
  <2> QED BY <2>1, <2>2 DEF OrderInv, Reserved
<1>5. CASE Stop \/ Crash \/ CrashInCall
  <2>1. UNCHANGED <<wanted, answer, cached, ending, late>> /\ seen' = {} /\ batch' = {}
        /\ pc' = "idle"
    BY <1>1, <1>5 DEF Stop, Crash, CrashInCall, Dies, Idle, NoJobs, TypeOK,
                      unchangedByCalls, explorer, cache, engine
  <2> QED BY <2>1 DEF OrderInv
<1>6. CASE Poll
  <2>1. PICK listed \in SUBSET Open :
             /\ Owed \subseteq listed
             /\ batch' = {<<w, wanted[w]>> : w \in listed} /\ seen' = seen \cup listed
    BY <1>6 DEF Poll, NextAction
  <2>2. UNCHANGED <<wanted, answer, cached, ending, late, job, pc, left>> /\ batch = {}
    BY <1>6 DEF Poll, explorer, cache, engine
  <2>3. z \in listed => z \in Reserved /\ (wanted[z] = "deploy" => <<z, "deploy">> \in batch')
    BY <2>1 DEF Open, Reserved
  <2>4. ASSUME <<n, "deploy">> \in batch' PROVE z \in seen'
    <3>1. wanted[n] = "deploy"
      BY <2>1, <2>4
    <3>2. z \in Owed \/ z \in seen
      BY <3>1 DEF Upheld, Owed, Open
    <3> QED BY <2>1, <3>2
  <2> QED BY <2>1, <2>2, <2>3, <2>4 DEF OrderInv, Reserved
<1>7. CASE ListExpired \/ UNCHANGED vars
  BY <1>7 DEF ListExpired, vars, explorer, cache, engine, sources, OrderInv, Reserved
<1> QED BY <1>2, <1>3, <1>4, <1>5, <1>6, <1>7

(* A subdomain is taken after its delegation: ProvisionOrder.              *)
LEMMA OrderOfJobs ==
  ASSUME IInv, NEW z \in Workloads, NEW n \in Workloads, Delegates(z, n),
         Upheld(z, n), OrderInv(z, n), TakePolled \/ TakeExpired
  PROVE  OrderInv(z, n)'
<1>1. TypeOK /\ UnderWay /\ job = None /\ UNCHANGED <<wanted, answer, cached, ending, late, seen>>
  BY DEF IInv, TakePolled, TakeExpired, explorer, cache
<1>2. CASE TakePolled
  <2>1. PICK j \in batch : First(j) /\ batch' = batch \ {j} /\ Begin(j[1], j[2])
    BY <1>2 DEF TakePolled
  <2>2. j \in Workloads \X {"deploy", "delete"} /\ j = <<j[1], j[2]>> /\ j[1] \in Reserved
    BY <1>1, <2>1 DEF TypeOK, UnderWay
  <2>3. CASE j = <<z, "deploy">>
    <3>1. z \in cached \/ (job' = z /\ pc' = "deploy")
      BY <2>1, <2>3 DEF Begin, Supported, Delegates
    <3>2. z # n /\ (UNCHANGED engine \/ (job' = z /\ pc' = "deploy"))
      BY <2>1, <2>3 DEF Begin, Delegates
    <3> QED BY <1>1, <2>1, <3>1, <3>2 DEF OrderInv, Reserved, engine
  <2>4. CASE j = <<n, "deploy">>
    <3>1. wanted[z] = "deploy" /\ answer[z] # "error" /\ z \in seen
      BY <2>1, <2>2, <2>4 DEF Upheld, OrderInv, Reserved
    <3>2. <<z, "deploy">> \notin batch
      BY <2>1, <2>4 DEF First, ProvisionOrder, Delegates
    <3>3. z \in cached
      BY <1>1, <3>1, <3>2 DEF OrderInv
    <3>4. UNCHANGED engine \/ pc' = "deploy"
      BY <2>1, <2>4 DEF Begin
    <3> QED BY <1>1, <2>1, <3>3, <3>4 DEF OrderInv, Reserved, engine
  <2>5. CASE j \notin {<<z, "deploy">>, <<n, "deploy">>}
    <3>1. /\ <<z, "deploy">> \in batch => <<z, "deploy">> \in batch'
          /\ <<n, "deploy">> \in batch' => <<n, "deploy">> \in batch
      BY <2>1, <2>5
    <3>2. UNCHANGED engine \/ (pc' \in {"undeploy", "tell"}) \/ (pc' = "deploy" /\ job' # n)
      BY <2>1, <2>2, <2>5 DEF Begin
    <3> QED BY <1>1, <3>1, <3>2 DEF OrderInv, Reserved, engine
  <2> QED BY <2>3, <2>4, <2>5
<1>3. CASE TakeExpired
  <2>1. UNCHANGED batch /\ (UNCHANGED engine \/ pc' \in {"undeploy", "tell"})
    BY <1>3 DEF TakeExpired, Begin
  <2> QED BY <1>1, <2>1 DEF OrderInv, Reserved, engine
<1> QED BY <1>2, <1>3

(* The engine refuses no subdomain of a delegation that is wanted, and     *)
(* keeps the delegation.                                                   *)
LEMMA OrderOfWork ==
  ASSUME IInv, NEW z \in Workloads, NEW n \in Workloads, Delegates(z, n),
         Upheld(z, n), OrderInv(z, n), Upheld(z, n)', Work
  PROVE  OrderInv(z, n)'
<1>1. TypeOK /\ UnderWay /\ Progress /\ z # n
  BY DEF IInv, Delegates
<1>2. UNCHANGED <<late, seen, batch>> /\ ending' \subseteq ending
  BY DEF Work, Deploy, Refuse, Answer, Store, Count, Undeploy, Forget, Uncount, Tell,
         unchangedByCalls, cache, sources
<1>3. CASE Deploy
  <2>1. UNCHANGED <<wanted, answer, cached, job>> /\ pc = "deploy"
        /\ ((pc' = "settle" /\ "store" \in left') \/ (pc' = "refuse" /\ ~MayAdd(job)))
    BY <1>3 DEF Deploy, At, GoTo, unchangedByCalls, explorer, cache
  <2>2. job = n => pc' # "refuse"
    BY <1>1, <2>1, MayAddUnderDelegation DEF OrderInv, Progress
  <2> QED BY <1>2, <2>1, <2>2 DEF OrderInv, Reserved
<1>4. CASE Refuse
  <2>1. /\ pc = "refuse" /\ job # n /\ pc' = "idle" /\ UNCHANGED <<wanted, cached>>
        /\ answer' = [answer EXCEPT ![job] = "error"]
    BY <1>4 DEF Refuse, At, Idle, cache, OrderInv
  <2>2. answer'[n] = answer[n] /\ (answer'[z] # "error" => answer[z] # "error" /\ job # z)
    BY <1>1, <2>1 DEF TypeOK
  <2> QED BY <1>2, <2>1, <2>2 DEF OrderInv, Reserved
<1>5. CASE Answer
  <2>1. /\ pc = "settle" /\ UNCHANGED <<wanted, cached, job>>
        /\ answer' = [answer EXCEPT ![job] = "ok"]
        /\ ((pc' = "settle" /\ ("store" \in left => "store" \in left'))
             \/ (pc' = "count" /\ "store" \notin left))
    BY <1>5 DEF Answer, At, Settled, cache
  <2>2. answer'[n] # "error" /\ (job # z => answer'[z] = answer[z])
    BY <1>1, <2>1 DEF TypeOK, OrderInv
  <2>3. CASE job = z
    BY <1>1, <1>2, <2>1, <2>2, <2>3 DEF OrderInv, Reserved
  <2>4. CASE job # z
    BY <1>1, <1>2, <2>1, <2>2, <2>4 DEF OrderInv, Reserved
  <2> QED BY <2>3, <2>4
<1>6. CASE Store
  <2>1. UNCHANGED <<wanted, answer, job>> /\ pc = "settle" /\ cached' = cached \cup {job}
        /\ pc' \in {"settle", "count"}
    BY <1>6 DEF Store, At, Settled, explorer
  <2> QED BY <1>2, <2>1 DEF OrderInv, Reserved
<1>7. CASE Count
  <2>1. UNCHANGED <<wanted, answer, cached>> /\ pc = "count" /\ pc' = "idle"
    BY <1>7 DEF Count, At, Idle, explorer, cache
  <2> QED BY <1>2, <2>1 DEF OrderInv, Reserved
<1>8. CASE Undeploy
  <2>1. UNCHANGED <<wanted, answer, cached>> /\ pc = "undeploy" /\ pc' \in {"forget", "idle"}
    BY <1>8 DEF Undeploy, At, GoTo, Idle, unchangedByCalls, explorer, cache
  <2> QED BY <1>2, <2>1 DEF OrderInv, Reserved
<1>9. CASE Forget
  <2>1. UNCHANGED <<wanted, answer>> /\ pc = "forget" /\ pc' = "uncount"
        /\ cached' = cached \ {job} /\ (wanted[job] # "deploy" \/ job \in late)
    BY <1>1, <1>9 DEF Forget, At, GoTo, explorer, Progress
  <2>2. z \notin late
    BY OldAssumption DEF OrderInv, Delegates
  <2> QED BY <1>2, <2>1, <2>2 DEF OrderInv, Reserved
<1>10. CASE Uncount
  <2>1. UNCHANGED <<wanted, answer, cached>> /\ pc = "uncount" /\ pc' = "tell"
    BY <1>10 DEF Uncount, At, GoTo, explorer, cache
  <2> QED BY <1>2, <2>1 DEF OrderInv, Reserved
<1>11. CASE Tell
  <2>1. UNCHANGED <<answer, cached>> /\ pc = "tell" /\ pc' = "idle"
        /\ wanted' = [wanted EXCEPT ![job] = "deleted"]
    BY <1>11 DEF Tell, At, Idle, cache
  <2>2. /\ wanted'[z] = "deploy" => wanted[z] = "deploy"
        /\ wanted[z] # "none" => wanted'[z] # "none"
    BY <1>1, <2>1 DEF TypeOK
  <2> QED BY <1>2, <2>1, <2>2 DEF OrderInv, Reserved
<1> QED BY <1>3, <1>4, <1>5, <1>6, <1>7, <1>8, <1>9, <1>10, <1>11 DEF Work

(* While its delegation is wanted and does not fail, a subdomain is not    *)
(* answered with an error.                                                 *)
LEMMA OneDelegationFirst ==
  ASSUME Faults \subseteq {"crash"}, NEW z \in Workloads, NEW n \in Workloads, Delegates(z, n)
  PROVE  Safety /\ []Upheld(z, n) => [](answer[n] # "error")
<1>1. Init => OrderInv(z, n)
  BY OldAssumption DEF Init, InitWith, OrderInv
<1>2. IInv /\ OrderInv(z, n) /\ Upheld(z, n) /\ Upheld(z, n)' /\ [Next]_vars => OrderInv(z, n)'
  BY OrderOfSources, OrderOfJobs, OrderOfWork, OnlyCrashes DEF Next
<1>3. OrderInv(z, n) => answer[n] # "error"
  BY DEF OrderInv
<1> QED BY <1>1, <1>2, <1>3, Invariance, PTL DEF Safety

(* A subdomain whose delegation is wanted is never refused.                *)
THEOREM DelegationsFirst ==
  ASSUME Faults \subseteq {"crash"}
  PROVE  Safety => DelegationFirst
<1>1. ASSUME NEW n \in Workloads, NEW z \in Workloads, Delegates(z, n)
      PROVE  Safety =>
               ([](wanted[n] # "none" => wanted[z] = "deploy" /\ answer[z] # "error" /\ ~Contested(z))
                  => [](answer[n] # "error"))
  BY <1>1, OneDelegationFirst, PTL DEF Upheld
<1> QED BY <1>1 DEF DelegationFirst

=============================================================================
